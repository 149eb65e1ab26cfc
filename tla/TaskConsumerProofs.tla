------------------------- MODULE TaskConsumerProofs -------------------------
(* Theorems about TaskConsumer, for any number of workers, tasks, retries  *)
(* and faults: its types, that no task is lost, the at-least-once contract *)
(* of TaskDelivery, the retry budget in front of the dead-letter queue,    *)
(* the lease around the handler, and single copies until the first fault.  *)
EXTENDS TaskConsumer, FiniteSetTheorems, TLAPS

-----------------------------------------------------------------------------
(* Types, and no task is lost.                                             *)

(* A message that is a task names exactly one task; a worker past parsing  *)
(* handles a task; what is left to fan out belongs to the batch at hand;   *)
(* a worker that has nothing left to ack no longer holds its delivery.     *)
Shape ==
    /\ \A m \in Queued : m.kind = "task" => \E t \in Tasks : m.items = {t}
    /\ \A w \in Workers : msg[w].kind = "task" => \E t \in Tasks : msg[w].items = {t}
    /\ \A w \in Workers :
          pc[w] \in {"acquire", "handler", "manual", "failed", "retried", "release", "delete"}
              => msg[w].kind = "task"
    /\ \A w \in Workers : todo[w] \subseteq msg[w].items
    /\ \A w \in Workers : pc[w] = "idle" => todo[w] = {}
    /\ \A w \in Workers : pc[w] \in {"release", "delete"} /\ after[w] = "done" => ~held[w]

TypeInv == TypeOK /\ Shape

(* The part of TypeOK that is about the workers' own state.                *)
WorkerTypeOK ==
    /\ pc \in [Workers -> PCs]
    /\ msg \in [Workers -> Message]
    /\ held \in [Workers -> BOOLEAN]
    /\ todo \in [Workers -> SUBSET Tasks]
    /\ after \in [Workers -> {"ack", "done", "raise"}]

(* The task a worker handles is the only item of its message.              *)
LEMMA TaskOfType ==
    ASSUME NEW w \in Workers, Shape, msg[w].kind = "task"
    PROVE  TaskOf(w) \in Tasks /\ msg[w].items = {TaskOf(w)}
<1>1. PICK t \in Tasks : msg[w].items = {t}
  BY DEF Shape
<1> QED BY <1>1 DEF TaskOf

(* The initial state is well typed.                                        *)
LEMMA InitType == Init => TypeInv
<1> QED
  BY OwnerAssumption
     DEF Init, TypeInv, TypeOK, Shape, PCs, Message, NoMessage, Kinds, Queued

(* Freeing a slot, or leaving _process_task in any way, keeps the types.   *)
LEMMA FreeType ==
    ASSUME TypeOK, NEW w \in Workers, Free(w)
    PROVE  WorkerTypeOK'
<1>1. NoMessage \in Message
  BY DEF NoMessage, Message, Kinds
<1> QED
  BY <1>1 DEF Free, Goto, TypeOK, WorkerTypeOK, PCs

(* A worker that leaves keeps the types.                                   *)
LEMMA LeaveType ==
    ASSUME TypeOK, NEW w \in Workers, NEW how \in {"ack", "done", "raise"}, NEW h \in BOOLEAN,
           Proceed(w, how, h) \/ Leave(w, how, h)
    PROVE  WorkerTypeOK'
<1>1. CASE Free(w)
  BY <1>1, FreeType
<1>2. CASE ~Free(w)
  BY <1>2 DEF Proceed, Leave, Goto, TypeOK, WorkerTypeOK, PCs
<1> QED
  BY <1>1, <1>2

(* The fields of the message a worker handles, and of a copy of it.        *)
LEMMA MessageType ==
    ASSUME TypeOK, NEW w \in Workers
    PROVE  /\ msg[w].kind \in Kinds
           /\ msg[w].items \in SUBSET Tasks
           /\ msg[w].attempt \in Nat
           /\ msg[w].manual \in Nat
  BY DEF TypeOK, Message

(* A copy of the message in hand is a message.                             *)
LEMMA CopyType ==
    ASSUME TypeOK, NEW w \in Workers, NEW a \in Nat, NEW n \in Nat
    PROVE  /\ Copy(msg[w], a, n) \in Message
           /\ Copy(msg[w], a, n).kind = msg[w].kind
           /\ Copy(msg[w], a, n).items = msg[w].items
           /\ Copy(msg[w], a, n).attempt = a
           /\ Copy(msg[w], a, n).manual = n
<1>1. lastId + 1 \in Nat
  BY DEF TypeOK
<1> QED
  BY <1>1, MessageType DEF Copy, Message

(* Every step of TaskConsumer keeps the types.                             *)
LEMMA NextTypeOK == TypeInv /\ [Next]_vars => TypeOK'
<1> SUFFICES ASSUME TypeInv, [Next]_vars PROVE TypeOK'
  OBVIOUS
<1> USE OwnerAssumption, SubmissionAssumption, BoundAssumption DEF TypeInv
<1>1. ASSUME NEW s \in Submissions, Submit(s) PROVE TypeOK'
  <2>1. /\ Copy(s, 0, 0) \in Message
       /\ Copy(s, 0, 0).kind = s.kind
       /\ Copy(s, 0, 0).items = s.items
    BY DEF TypeOK, Kinds, Message, Copy
  <2> QED
    BY <1>1, <2>1, MessageType DEF TypeOK, WorkerTypeOK, PCs, Submit, history
<1>2. ASSUME NEW w \in Workers, NEW m \in tasksQ, Deliver(w, m) PROVE TypeOK'
  BY <1>2 DEF TypeOK, Shape, PCs, Deliver, Goto, history
<1>3. ASSUME NEW m \in retryQ, RetryDelayElapsed(m) PROVE TypeOK'
  BY <1>3 DEF TypeOK, Shape, PCs, RetryDelayElapsed, history
<1>4. ASSUME NEW w \in Workers, NEW t \in Tasks, FanOut(w, t) PROVE TypeOK'
  <2>1. /\ Copy([kind |-> "task", items |-> {t}], 0, 0) \in Message
       /\ Copy([kind |-> "task", items |-> {t}], 0, 0).kind = [kind |-> "task", items |-> {t}].kind
       /\ Copy([kind |-> "task", items |-> {t}], 0, 0).items = [kind |-> "task", items |-> {t}].items
    BY DEF TypeOK, Kinds, Message, Copy
  <2> QED
    BY <1>4, <2>1, MessageType DEF TypeOK, WorkerTypeOK, PCs, FanOut, history
<1>5. ASSUME NEW t \in Tasks, ExpireOrphan(t) PROVE TypeOK'
  BY <1>5 DEF TypeOK, Shape, PCs, ExpireOrphan, queues, history
<1>6. ASSUME NEW t \in Tasks, ExpireUnderOwner(t) PROVE TypeOK'
  BY <1>6 DEF TypeOK, Shape, PCs, ExpireUnderOwner, Fault, queues
<1>7. ASSUME NEW w \in Workers, Parse(w) PROVE TypeOK'
  BY <1>7, MessageType DEF TypeOK, Shape, PCs, Parse, Goto, queues, history
<1>8. ASSUME NEW w \in Workers, RejectUnusable(w) PROVE TypeOK'
  <2>1. WorkerTypeOK'
    BY <1>8, FreeType DEF TypeOK, WorkerTypeOK, PCs, RejectUnusable
  <2> QED
    BY <1>8, <2>1, MessageType DEF TypeOK, WorkerTypeOK, PCs, RejectUnusable, queues
<1>9. ASSUME NEW w \in Workers, AckBatch(w) PROVE TypeOK'
  <2>1. WorkerTypeOK'
    BY <1>9, FreeType DEF TypeOK, WorkerTypeOK, PCs, AckBatch
  <2> QED
    BY <1>9, <2>1, MessageType DEF TypeOK, WorkerTypeOK, PCs, AckBatch, queues, history
<1>10. ASSUME NEW w \in Workers, AcquireLease(w) PROVE TypeOK'
  BY <1>10, MessageType DEF TypeOK, Shape, PCs, AcquireLease, Goto, queues, history
<1>11. ASSUME NEW w \in Workers, LeaseConflict(w) PROVE TypeOK'
  <2>1. WorkerTypeOK'
    BY <1>11, FreeType DEF TypeOK, WorkerTypeOK, PCs, LeaseConflict
  <2> QED
    BY <1>11, <2>1, MessageType DEF TypeOK, WorkerTypeOK, PCs, LeaseConflict, history
<1>12. ASSUME NEW w \in Workers, HandlerReturns(w) PROVE TypeOK'
  <2>1. WorkerTypeOK'
    BY <1>12, LeaveType DEF TypeOK, WorkerTypeOK, PCs, HandlerReturns
  <2> QED
    BY <1>12, <2>1, MessageType DEF TypeOK, WorkerTypeOK, PCs, HandlerReturns, queues
<1>13. ASSUME NEW w \in Workers, HandlerAsksManualRetry(w) PROVE TypeOK'
  BY <1>13, MessageType DEF TypeOK, Shape, PCs, HandlerAsksManualRetry, Goto, queues,
     history
<1>14. ASSUME NEW w \in Workers, PublishManualRetry(w) PROVE TypeOK'
  <2>1. WorkerTypeOK'
    BY <1>14, LeaveType DEF TypeOK, WorkerTypeOK, PCs, PublishManualRetry
  <2>2. /\ Copy(msg[w], 0, msg[w].manual + 1) \in Message
       /\ Copy(msg[w], 0, msg[w].manual + 1).kind = msg[w].kind
       /\ Copy(msg[w], 0, msg[w].manual + 1).items = msg[w].items
    <3>1. msg[w].manual + 1 \in Nat
      BY MessageType
    <3> QED
      BY <3>1, CopyType, MessageType
  <2> QED
    BY <1>14, <2>1, <2>2, MessageType DEF TypeOK, WorkerTypeOK, PCs, PublishManualRetry,
     history
<1>15. ASSUME NEW w \in Workers, HandlerRaises(w) PROVE TypeOK'
  BY <1>15, TaskOfType, MessageType DEF TypeOK, Shape, PCs, HandlerRaises, Goto,
     queues
<1>16. ASSUME NEW w \in Workers, RejectFailed(w) PROVE TypeOK'
  <2>1. WorkerTypeOK'
    BY <1>16, LeaveType DEF TypeOK, WorkerTypeOK, PCs, RejectFailed
  <2> QED
    BY <1>16, <2>1, MessageType DEF TypeOK, WorkerTypeOK, PCs, RejectFailed
<1>17. ASSUME NEW w \in Workers, PublishRetry(w) PROVE TypeOK'
  <2>1. /\ Copy(msg[w], msg[w].attempt + 1, msg[w].manual) \in Message
       /\ Copy(msg[w], msg[w].attempt + 1, msg[w].manual).kind = msg[w].kind
       /\ Copy(msg[w], msg[w].attempt + 1, msg[w].manual).items = msg[w].items
    <3>1. msg[w].attempt + 1 \in Nat
      BY MessageType
    <3> QED
      BY <3>1, CopyType, MessageType
  <2> QED
    BY <1>17, <2>1, MessageType DEF TypeOK, WorkerTypeOK, PCs, PublishRetry, Goto, history
<1>18. ASSUME NEW w \in Workers, PublishDeadLetter(w) PROVE TypeOK'
  <2>1. /\ Copy(msg[w], msg[w].attempt, msg[w].manual) \in Message
       /\ Copy(msg[w], msg[w].attempt, msg[w].manual).kind = msg[w].kind
       /\ Copy(msg[w], msg[w].attempt, msg[w].manual).items = msg[w].items
    BY CopyType, MessageType
  <2> QED
    BY <1>18, <2>1, MessageType DEF TypeOK, WorkerTypeOK, PCs, PublishDeadLetter, Goto,
     history
<1>19. ASSUME NEW w \in Workers, PersistDLQRecord(w) PROVE TypeOK'
  BY <1>19, MessageType DEF TypeOK, Shape, PCs, PersistDLQRecord, Goto, queues,
     history
<1>20. ASSUME NEW w \in Workers, AckRelocated(w) PROVE TypeOK'
  <2>1. WorkerTypeOK'
    BY <1>20, LeaveType DEF TypeOK, WorkerTypeOK, PCs, AckRelocated
  <2> QED
    BY <1>20, <2>1, MessageType DEF TypeOK, WorkerTypeOK, PCs, AckRelocated, queues, history
<1>21. ASSUME NEW w \in Workers, ReleaseRead(w) PROVE TypeOK'
  <2>1. WorkerTypeOK'
    BY <1>21, LeaveType DEF TypeOK, WorkerTypeOK, PCs, ReleaseRead, Goto
  <2> QED
    BY <1>21, <2>1, MessageType DEF TypeOK, WorkerTypeOK, PCs, ReleaseRead, Goto, queues,
     history
<1>22. ASSUME NEW w \in Workers, ReleaseDelete(w) PROVE TypeOK'
  <2>1. WorkerTypeOK'
    BY <1>22, LeaveType DEF TypeOK, WorkerTypeOK, PCs, ReleaseDelete
  <2> QED
    BY <1>22, <2>1, MessageType DEF TypeOK, WorkerTypeOK, PCs, ReleaseDelete, queues,
     history
<1>23. ASSUME NEW w \in Workers, AckProcessed(w) PROVE TypeOK'
  <2>1. WorkerTypeOK'
    BY <1>23, FreeType DEF TypeOK, WorkerTypeOK, PCs, AckProcessed
  <2> QED
    BY <1>23, <2>1, MessageType DEF TypeOK, WorkerTypeOK, PCs, AckProcessed, queues, history
<1>24. ASSUME NEW w \in Workers, StaleDelivery(w) PROVE TypeOK'
  <2>1. WorkerTypeOK'
    BY <1>24, LeaveType DEF TypeOK, WorkerTypeOK, PCs, StaleDelivery
  <2> QED
    BY <1>24, <2>1, MessageType DEF TypeOK, WorkerTypeOK, PCs, StaleDelivery, queues,
     history
<1>25. ASSUME NEW w \in Workers, CloseChannel(w) PROVE TypeOK'
  <2>1. WorkerTypeOK'
    BY <1>25, FreeType DEF TypeOK, WorkerTypeOK, PCs, CloseChannel
  <2> QED
    BY <1>25, <2>1, MessageType DEF TypeOK, WorkerTypeOK, PCs, CloseChannel, Requeued,
     history
<1>26. ASSUME NEW w \in Workers, Interrupt(w) PROVE TypeOK'
  <2>1. WorkerTypeOK'
    BY <1>26, LeaveType DEF TypeOK, WorkerTypeOK, PCs, Interrupt
  <2> QED
    BY <1>26, <2>1, MessageType DEF TypeOK, WorkerTypeOK, PCs, Interrupt, Fault, queues,
     history
<1>27. ASSUME NEW w \in Workers, ReleaseRaises(w) PROVE TypeOK'
  <2>1. WorkerTypeOK'
    BY <1>27, LeaveType DEF TypeOK, WorkerTypeOK, PCs, ReleaseRaises
  <2> QED
    BY <1>27, <2>1, MessageType DEF TypeOK, WorkerTypeOK, PCs, ReleaseRaises, Fault, queues,
     history
<1>28. ASSUME NEW w \in Workers, AcquireRaises(w) PROVE TypeOK'
  <2>1. WorkerTypeOK'
    BY <1>28, LeaveType DEF TypeOK, WorkerTypeOK, PCs, AcquireRaises
  <2>2. lease' \in [Tasks -> Owners \cup {NoOwner}]
    BY <1>28 DEF AcquireRaises, TypeOK
  <2>3. faults' \in Nat
    BY <1>28 DEF AcquireRaises, TypeOK, Fault
  <2> QED
    BY <1>28, <2>1, <2>2, <2>3 DEF TypeOK, WorkerTypeOK, PCs, AcquireRaises, Fault, queues,
     history
<1>29. ASSUME NEW w \in Workers, Crash(w) PROVE TypeOK'
  <2>1. WorkerTypeOK'
    BY <1>29, FreeType DEF TypeOK, WorkerTypeOK, PCs, Crash
  <2> QED
    BY <1>29, <2>1, MessageType DEF TypeOK, WorkerTypeOK, PCs, Crash, Requeued, Fault,
     history
<1>30. ASSUME NEW w \in Workers, LoseChannel(w) PROVE TypeOK'
  BY <1>30, MessageType DEF TypeOK, Shape, PCs, LoseChannel, Fault, history
<1>31. CASE UNCHANGED vars
  BY <1>31 DEF TypeOK, Shape, PCs, vars, queues, history
<1> QED
  BY <1>1, <1>2, <1>3, <1>4, <1>5, <1>6, <1>7, <1>8, <1>9, <1>10, <1>11, <1>12, <1>13,
     <1>14, <1>15, <1>16, <1>17, <1>18, <1>19, <1>20, <1>21, <1>22, <1>23, <1>24,
     <1>25, <1>26, <1>27, <1>28, <1>29, <1>30, <1>31 DEF Next, WorkerStep, FaultStep

(* Every step of TaskConsumer keeps the message shapes.                    *)
LEMMA NextShape == TypeInv /\ [Next]_vars => Shape'
<1> SUFFICES ASSUME TypeInv, [Next]_vars PROVE Shape'
  OBVIOUS
<1> USE SubmissionAssumption DEF TypeInv
<1>1. ASSUME NEW s \in Submissions, Submit(s) PROVE Shape'
  <2>1. /\ Copy(s, 0, 0) \in Message
       /\ Copy(s, 0, 0).kind = s.kind
       /\ Copy(s, 0, 0).items = s.items
    BY DEF TypeOK, Kinds, Message, Copy
  <2> QED
    BY <1>1, <2>1, MessageType DEF Shape, Queued, TypeOK, Submit, history
<1>2. ASSUME NEW w \in Workers, NEW m \in tasksQ, Deliver(w, m) PROVE Shape'
  BY <1>2 DEF Shape, Queued, TypeOK, Deliver, Goto, history
<1>3. ASSUME NEW m \in retryQ, RetryDelayElapsed(m) PROVE Shape'
  BY <1>3 DEF Shape, Queued, TypeOK, RetryDelayElapsed, history
<1>4. ASSUME NEW w \in Workers, NEW t \in Tasks, FanOut(w, t) PROVE Shape'
  <2>1. /\ Copy([kind |-> "task", items |-> {t}], 0, 0) \in Message
       /\ Copy([kind |-> "task", items |-> {t}], 0, 0).kind = [kind |-> "task", items |-> {t}].kind
       /\ Copy([kind |-> "task", items |-> {t}], 0, 0).items = [kind |-> "task", items |-> {t}].items
    BY DEF TypeOK, Kinds, Message, Copy
  <2> QED
    BY <1>4, <2>1, MessageType DEF Shape, Queued, TypeOK, FanOut, history
<1>5. ASSUME NEW t \in Tasks, ExpireOrphan(t) PROVE Shape'
  BY <1>5 DEF Shape, Queued, TypeOK, ExpireOrphan, queues, history
<1>6. ASSUME NEW t \in Tasks, ExpireUnderOwner(t) PROVE Shape'
  BY <1>6 DEF Shape, Queued, TypeOK, ExpireUnderOwner, Fault, queues
<1>7. ASSUME NEW w \in Workers, Parse(w) PROVE Shape'
  BY <1>7 DEF Shape, Queued, TypeOK, Parse, Goto, queues, history
<1>8. ASSUME NEW w \in Workers, RejectUnusable(w) PROVE Shape'
  BY <1>8 DEF Shape, Queued, TypeOK, RejectUnusable, Free, Goto, NoMessage, queues
<1>9. ASSUME NEW w \in Workers, AckBatch(w) PROVE Shape'
  BY <1>9 DEF Shape, Queued, TypeOK, AckBatch, Free, Goto, NoMessage, queues, history
<1>10. ASSUME NEW w \in Workers, AcquireLease(w) PROVE Shape'
  BY <1>10 DEF Shape, Queued, TypeOK, AcquireLease, Goto, queues, history
<1>11. ASSUME NEW w \in Workers, LeaseConflict(w) PROVE Shape'
  BY <1>11 DEF Shape, Queued, TypeOK, LeaseConflict, Free, Goto, NoMessage, history
<1>12. ASSUME NEW w \in Workers, HandlerReturns(w) PROVE Shape'
  BY <1>12 DEF Shape, Queued, TypeOK, HandlerReturns, Leave, InLease, Goto, Proceed,
     Free, NoMessage, queues
<1>13. ASSUME NEW w \in Workers, HandlerAsksManualRetry(w) PROVE Shape'
  BY <1>13 DEF Shape, Queued, TypeOK, HandlerAsksManualRetry, Goto, queues, history
<1>14. ASSUME NEW w \in Workers, PublishManualRetry(w) PROVE Shape'
  <2>1. /\ Copy(msg[w], 0, msg[w].manual + 1) \in Message
       /\ Copy(msg[w], 0, msg[w].manual + 1).kind = msg[w].kind
       /\ Copy(msg[w], 0, msg[w].manual + 1).items = msg[w].items
    <3>1. msg[w].manual + 1 \in Nat
      BY MessageType
    <3> QED
      BY <3>1, CopyType, MessageType
  <2>2. Queued' = Queued \cup {Copy(msg[w], 0, msg[w].manual + 1)}
    BY <1>14 DEF PublishManualRetry, Queued
  <2>3. \A n \in Queued' : n.kind = "task" => \E t \in Tasks : n.items = {t}
    BY <2>1, <2>2, MessageType DEF Shape
  <2>4. Leave(w, "ack", held[w])
    BY <1>14 DEF PublishManualRetry
  <2> QED
    BY <1>14, <2>3, <2>4 DEF Shape, TypeOK, Leave, InLease, Goto, Proceed
<1>15. ASSUME NEW w \in Workers, HandlerRaises(w) PROVE Shape'
  BY <1>15 DEF Shape, Queued, TypeOK, HandlerRaises, Goto, queues
<1>16. ASSUME NEW w \in Workers, RejectFailed(w) PROVE Shape'
  BY <1>16 DEF Shape, Queued, TypeOK, RejectFailed, Leave, InLease, Goto, Proceed,
     Free, NoMessage
<1>17. ASSUME NEW w \in Workers, PublishRetry(w) PROVE Shape'
  <2>1. /\ Copy(msg[w], msg[w].attempt + 1, msg[w].manual) \in Message
       /\ Copy(msg[w], msg[w].attempt + 1, msg[w].manual).kind = msg[w].kind
       /\ Copy(msg[w], msg[w].attempt + 1, msg[w].manual).items = msg[w].items
    <3>1. msg[w].attempt + 1 \in Nat
      BY MessageType
    <3> QED
      BY <3>1, CopyType, MessageType
  <2> QED
    BY <1>17, <2>1, MessageType DEF Shape, Queued, TypeOK, PublishRetry, Goto, history
<1>18. ASSUME NEW w \in Workers, PublishDeadLetter(w) PROVE Shape'
  <2>1. /\ Copy(msg[w], msg[w].attempt, msg[w].manual) \in Message
       /\ Copy(msg[w], msg[w].attempt, msg[w].manual).kind = msg[w].kind
       /\ Copy(msg[w], msg[w].attempt, msg[w].manual).items = msg[w].items
    BY CopyType, MessageType
  <2> QED
    BY <1>18, <2>1, MessageType DEF Shape, Queued, TypeOK, PublishDeadLetter, Goto, history
<1>19. ASSUME NEW w \in Workers, PersistDLQRecord(w) PROVE Shape'
  BY <1>19 DEF Shape, Queued, TypeOK, PersistDLQRecord, Goto, queues, history
<1>20. ASSUME NEW w \in Workers, AckRelocated(w) PROVE Shape'
  BY <1>20 DEF Shape, Queued, TypeOK, AckRelocated, Leave, InLease, Goto, Proceed,
     Free, NoMessage, queues, history
<1>21. ASSUME NEW w \in Workers, ReleaseRead(w) PROVE Shape'
  BY <1>21 DEF Shape, Queued, TypeOK, ReleaseRead, Goto, Proceed, Free, NoMessage,
     queues, history
<1>22. ASSUME NEW w \in Workers, ReleaseDelete(w) PROVE Shape'
  BY <1>22 DEF Shape, Queued, TypeOK, ReleaseDelete, Proceed, Free, Goto, NoMessage,
     queues, history
<1>23. ASSUME NEW w \in Workers, AckProcessed(w) PROVE Shape'
  BY <1>23 DEF Shape, Queued, TypeOK, AckProcessed, Free, Goto, NoMessage, queues,
     history
<1>24. ASSUME NEW w \in Workers, StaleDelivery(w) PROVE Shape'
  BY <1>24 DEF Shape, Queued, TypeOK, StaleDelivery, Leave, InLease, Goto, Proceed,
     Free, NoMessage, queues, history
<1>25. ASSUME NEW w \in Workers, CloseChannel(w) PROVE Shape'
  BY <1>25 DEF Shape, Queued, TypeOK, CloseChannel, Requeued, Free, Goto, NoMessage,
     history
<1>26. ASSUME NEW w \in Workers, Interrupt(w) PROVE Shape'
  BY <1>26 DEF Shape, Queued, TypeOK, Interrupt, Leave, InLease, Goto, Proceed, Free,
     NoMessage, Fault, queues, history
<1>27. ASSUME NEW w \in Workers, ReleaseRaises(w) PROVE Shape'
  BY <1>27 DEF Shape, Queued, TypeOK, ReleaseRaises, Proceed, Free, Goto, NoMessage,
     Fault, queues, history
<1>28. ASSUME NEW w \in Workers, AcquireRaises(w) PROVE Shape'
  BY <1>28 DEF Shape, Queued, TypeOK, AcquireRaises, Proceed, Free, Goto, NoMessage,
     Fault, queues, history
<1>29. ASSUME NEW w \in Workers, Crash(w) PROVE Shape'
  BY <1>29 DEF Shape, Queued, TypeOK, Crash, Requeued, Free, Goto, NoMessage, Fault,
     history
<1>30. ASSUME NEW w \in Workers, LoseChannel(w) PROVE Shape'
  BY <1>30 DEF Shape, Queued, TypeOK, LoseChannel, Fault, history
<1>31. CASE UNCHANGED vars
  BY <1>31 DEF Shape, Queued, TypeOK, vars, queues, history
<1> QED
  BY <1>1, <1>2, <1>3, <1>4, <1>5, <1>6, <1>7, <1>8, <1>9, <1>10, <1>11, <1>12, <1>13,
     <1>14, <1>15, <1>16, <1>17, <1>18, <1>19, <1>20, <1>21, <1>22, <1>23, <1>24,
     <1>25, <1>26, <1>27, <1>28, <1>29, <1>30, <1>31 DEF Next, WorkerStep, FaultStep

(* TaskConsumer keeps its types, for every value of the constants.         *)
THEOREM TypeCorrect == Spec => []TypeOK
<1>1. TypeInv <=> TypeOK /\ Shape
  BY DEF TypeInv
<1> QED
  BY InitType, NextTypeOK, NextShape, <1>1, PTL DEF Spec

-----------------------------------------------------------------------------
(* No task is lost.  Carried leaves out a worker that has already          *)
(* published for its task, so the invariant is inductive as it stands:     *)
(* publishing moves the task from the worker to a queue in one step, and   *)
(* the ack that follows takes nothing away.                                *)
Safe(t) ==
    \/ \E m \in Queued : t \in m.items
    \/ \E w \in Workers : t \in Carried(w)
    \/ t \in completed
    \/ t \in dropped /\ Retrying # Workers

(* A step of worker w keeps every task safe when it removes no message and *)
(* no outcome, leaves the other workers alone and keeps safe what w        *)
(* carried.                                                                *)
LEMMA StepKeepsSafe ==
    ASSUME NoTaskLost, NEW w \in Workers,
           unsent' = unsent, Queued \subseteq Queued',
           completed \subseteq completed', dropped \subseteq dropped',
           \A v \in Workers \ {w} : Carried(v)' = Carried(v),
           \A t \in Carried(w) : Safe(t)'
    PROVE  NoTaskLost'
<1> SUFFICES ASSUME NEW t \in Submitted PROVE Safe(t)'
  BY DEF NoTaskLost, Safe, Submitted
<1>1. CASE \E m \in Queued : t \in m.items
  BY <1>1 DEF Safe
<1>2. CASE t \in completed \/ (t \in dropped /\ Retrying # Workers)
  BY <1>2 DEF Safe
<1>3. CASE \E v \in Workers : t \in Carried(v)
  <2>1. PICK v \in Workers : t \in Carried(v)
    BY <1>3
  <2>2. CASE v = w
    BY <2>1, <2>2
  <2>3. CASE v # w
    BY <2>1, <2>3 DEF Safe
  <2> QED
    BY <2>2, <2>3
<1> QED
  BY <1>1, <1>2, <1>3 DEF NoTaskLost

(* Every step keeps NoTaskLost.                                            *)
LEMMA NextNoTaskLost == TypeInv /\ NoTaskLost /\ [Next]_vars => NoTaskLost'
<1> SUFFICES ASSUME TypeInv, NoTaskLost, [Next]_vars PROVE NoTaskLost'
  OBVIOUS
<1> USE BoundAssumption, SubmissionAssumption DEF TypeInv
<1>1. ASSUME NEW s \in Submissions, Submit(s) PROVE NoTaskLost'
  <2> SUFFICES ASSUME NEW t \in Submitted' PROVE Safe(t)'
    BY DEF NoTaskLost, Safe
  <2>1. Copy(s, 0, 0).items = s.items /\ Copy(s, 0, 0) \in Queued' /\ Queued \subseteq Queued'
    BY <1>1 DEF Submit, Copy, Queued
  <2>2. CASE t \in s.items
    BY <2>1, <2>2 DEF Safe
  <2>3. CASE t \in Submitted
    BY <1>1, <2>1, <2>3 DEF Submit, Safe, NoTaskLost, Carried, history
  <2> QED
    BY <1>1, <2>2, <2>3 DEF Submit, Submitted
<1>2. ASSUME NEW w \in Workers, NEW m \in tasksQ, Deliver(w, m) PROVE NoTaskLost'
  <2> SUFFICES ASSUME NEW t \in Submitted PROVE Safe(t)'
    BY <1>2 DEF NoTaskLost, Safe, Deliver, Submitted
  <2>1. Carried(w)' = m.items /\ Carried(w) = {}
    BY <1>2 DEF Deliver, Goto, Carried, TypeOK
  <2>2. \A v \in Workers \ {w} : Carried(v)' = Carried(v)
    BY <1>2 DEF Deliver, Goto, Carried, TypeOK
  <2>3. CASE \E n \in Queued : t \in n.items
    BY <1>2, <2>1, <2>3 DEF Deliver, Queued, Safe
  <2>4. CASE \E v \in Workers : t \in Carried(v)
    BY <2>1, <2>2, <2>4 DEF Safe
  <2>5. CASE t \in completed \/ (t \in dropped /\ Retrying # Workers)
    BY <1>2, <2>5 DEF Deliver, history, Safe
  <2> QED
    BY <2>3, <2>4, <2>5 DEF NoTaskLost
<1>3. ASSUME NEW m \in retryQ, RetryDelayElapsed(m) PROVE NoTaskLost'
  BY <1>3 DEF NoTaskLost, Submitted, Queued, Carried, RetryDelayElapsed, history
<1>4. ASSUME NEW w \in Workers, NEW t \in Tasks, FanOut(w, t) PROVE NoTaskLost'
  <2> DEFINE item == Copy([kind |-> "task", items |-> {t}], 0, 0)
  <2>0. item.items = {t}
    BY DEF Copy
  <2>1. unsent' = unsent /\ Queued \subseteq Queued' /\ item \in Queued' /\ completed \subseteq completed' /\ dropped \subseteq dropped'
    BY <1>4 DEF FanOut, Queued, history
  <2>2. \A v \in Workers \ {w} : Carried(v)' = Carried(v)
    BY <1>4 DEF FanOut, Carried, TypeOK
  <2>3. ASSUME NEW u \in Carried(w) PROVE Safe(u)'
    <3>1. CASE u = t
      BY <3>1, <2>0, <2>1 DEF Safe
    <3>2. CASE u # t
      BY <1>4, <3>2, <2>3 DEF FanOut, Carried, TypeOK, Safe
    <3> QED
      BY <3>1, <3>2
  <2> QED
    BY <2>1, <2>2, <2>3, StepKeepsSafe
<1>5. ASSUME NEW t \in Tasks, ExpireOrphan(t) PROVE NoTaskLost'
  BY <1>5 DEF NoTaskLost, Submitted, Queued, Carried, ExpireOrphan, queues, history
<1>6. ASSUME NEW t \in Tasks, ExpireUnderOwner(t) PROVE NoTaskLost'
  BY <1>6 DEF NoTaskLost, Submitted, Queued, Carried, ExpireUnderOwner, Fault, queues
<1>7. ASSUME NEW w \in Workers, Parse(w) PROVE NoTaskLost'
  <2>1. unsent' = unsent /\ Queued \subseteq Queued' /\ completed \subseteq completed' /\ dropped \subseteq dropped'
    BY <1>7 DEF Queued, Parse, queues, history
  <2>2. \A v \in Workers \ {w} : Carried(v)' = Carried(v)
    BY <1>7 DEF TypeOK, Carried, Parse, Goto
  <2>3. ASSUME NEW t \in Carried(w) PROVE Safe(t)'
    BY <1>7, <2>3 DEF TypeOK, Shape, Safe, Queued, Carried, Parse, Goto, queues, history
  <2> QED
    BY <2>1, <2>2, <2>3, StepKeepsSafe
<1>8. ASSUME NEW w \in Workers, RejectUnusable(w) PROVE NoTaskLost'
  <2>1. unsent' = unsent /\ Queued \subseteq Queued' /\ completed \subseteq completed' /\ dropped \subseteq dropped'
    BY <1>8 DEF Queued, RejectUnusable, queues
  <2>2. \A v \in Workers \ {w} : Carried(v)' = Carried(v)
    BY <1>8 DEF TypeOK, Carried, RejectUnusable, Free, Goto
  <2>3. ASSUME NEW t \in Carried(w) PROVE Safe(t)'
    BY <1>8, <2>3 DEF TypeOK, Shape, Safe, Queued, Carried, RejectUnusable, Free, Goto,
     queues
  <2> QED
    BY <2>1, <2>2, <2>3, StepKeepsSafe
<1>9. ASSUME NEW w \in Workers, AckBatch(w) PROVE NoTaskLost'
  <2>1. unsent' = unsent /\ Queued \subseteq Queued' /\ completed \subseteq completed' /\ dropped \subseteq dropped'
    BY <1>9 DEF Queued, AckBatch, queues, history
  <2>2. \A v \in Workers \ {w} : Carried(v)' = Carried(v)
    BY <1>9 DEF TypeOK, Carried, AckBatch, Free, Goto
  <2>3. ASSUME NEW t \in Carried(w) PROVE Safe(t)'
    BY <1>9, <2>3 DEF TypeOK, Shape, Safe, Queued, Carried, AckBatch, Free, Goto, queues,
     history
  <2> QED
    BY <2>1, <2>2, <2>3, StepKeepsSafe
<1>10. ASSUME NEW w \in Workers, AcquireLease(w) PROVE NoTaskLost'
  <2>1. unsent' = unsent /\ Queued \subseteq Queued' /\ completed \subseteq completed' /\ dropped \subseteq dropped'
    BY <1>10 DEF Queued, AcquireLease, queues, history
  <2>2. \A v \in Workers \ {w} : Carried(v)' = Carried(v)
    BY <1>10 DEF TypeOK, Carried, AcquireLease, Goto
  <2>3. ASSUME NEW t \in Carried(w) PROVE Safe(t)'
    BY <1>10, <2>3 DEF TypeOK, Shape, Safe, Queued, Carried, AcquireLease, Goto, queues,
     history
  <2> QED
    BY <2>1, <2>2, <2>3, StepKeepsSafe
<1>11. ASSUME NEW w \in Workers, LeaseConflict(w) PROVE NoTaskLost'
  <2>1. unsent' = unsent /\ Queued \subseteq Queued' /\ completed \subseteq completed' /\ dropped \subseteq dropped'
    BY <1>11 DEF Queued, LeaseConflict, history
  <2>2. \A v \in Workers \ {w} : Carried(v)' = Carried(v)
    BY <1>11 DEF TypeOK, Carried, LeaseConflict, Free, Goto
  <2>3. ASSUME NEW t \in Carried(w) PROVE Safe(t)'
    BY <1>11, <2>3 DEF TypeOK, Shape, Safe, Queued, Carried, LeaseConflict, Free, Goto,
     history
  <2> QED
    BY <2>1, <2>2, <2>3, StepKeepsSafe
<1>12. ASSUME NEW w \in Workers, HandlerReturns(w) PROVE NoTaskLost'
  <2>1. unsent' = unsent /\ Queued \subseteq Queued' /\ completed \subseteq completed' /\ dropped \subseteq dropped'
    BY <1>12 DEF Queued, HandlerReturns, queues
  <2>2. \A v \in Workers \ {w} : Carried(v)' = Carried(v)
    BY <1>12 DEF TypeOK, Carried, HandlerReturns, Leave, InLease, Goto, Proceed, Free
  <2>3. ASSUME NEW t \in Carried(w) PROVE Safe(t)'
    BY <1>12, <2>3 DEF TypeOK, Shape, Safe, Queued, Carried, HandlerReturns, Leave, InLease,
     Goto, Proceed, Free, queues
  <2> QED
    BY <2>1, <2>2, <2>3, StepKeepsSafe
<1>13. ASSUME NEW w \in Workers, HandlerAsksManualRetry(w) PROVE NoTaskLost'
  <2>1. unsent' = unsent /\ Queued \subseteq Queued' /\ completed \subseteq completed' /\ dropped \subseteq dropped'
    BY <1>13 DEF Queued, HandlerAsksManualRetry, queues, history
  <2>2. \A v \in Workers \ {w} : Carried(v)' = Carried(v)
    BY <1>13 DEF TypeOK, Carried, HandlerAsksManualRetry, Goto
  <2>3. ASSUME NEW t \in Carried(w) PROVE Safe(t)'
    BY <1>13, <2>3 DEF TypeOK, Shape, Safe, Queued, Carried, HandlerAsksManualRetry, Goto,
     queues, history
  <2> QED
    BY <2>1, <2>2, <2>3, StepKeepsSafe
<1>14. ASSUME NEW w \in Workers, PublishManualRetry(w) PROVE NoTaskLost'
  <2>1. unsent' = unsent /\ Queued \subseteq Queued' /\ completed \subseteq completed' /\ dropped \subseteq dropped'
    BY <1>14 DEF Queued, PublishManualRetry, history
  <2>2. \A v \in Workers \ {w} : Carried(v)' = Carried(v)
    BY <1>14 DEF TypeOK, Carried, PublishManualRetry, Leave, InLease, Goto, Proceed, Free
  <2>3. ASSUME NEW t \in Carried(w) PROVE Safe(t)'
    <3>1. Copy(msg[w], 0, msg[w].manual + 1).items = msg[w].items
      BY DEF Copy
    <3> QED
      BY <1>14, <2>3, <3>1 DEF TypeOK, Safe, Queued, Carried, PublishManualRetry, history
  <2> QED
    BY <2>1, <2>2, <2>3, StepKeepsSafe
<1>15. ASSUME NEW w \in Workers, HandlerRaises(w) PROVE NoTaskLost'
  <2>1. unsent' = unsent /\ Queued \subseteq Queued' /\ completed \subseteq completed' /\ dropped \subseteq dropped'
    BY <1>15 DEF Queued, HandlerRaises, queues
  <2>2. \A v \in Workers \ {w} : Carried(v)' = Carried(v)
    BY <1>15 DEF TypeOK, Carried, HandlerRaises, Goto
  <2>3. ASSUME NEW t \in Carried(w) PROVE Safe(t)'
    BY <1>15, <2>3 DEF TypeOK, Shape, Safe, Queued, Carried, HandlerRaises, Goto, queues
  <2> QED
    BY <2>1, <2>2, <2>3, StepKeepsSafe
<1>16. ASSUME NEW w \in Workers, RejectFailed(w) PROVE NoTaskLost'
  <2>1. unsent' = unsent /\ Queued \subseteq Queued' /\ completed \subseteq completed' /\ dropped \subseteq dropped'
    BY <1>16 DEF Queued, RejectFailed
  <2>2. \A v \in Workers \ {w} : Carried(v)' = Carried(v)
    BY <1>16 DEF TypeOK, Carried, RejectFailed, Leave, InLease, Goto, Proceed, Free
  <2>3. ASSUME NEW t \in Carried(w) PROVE Safe(t)'
    BY <1>16, <2>3 DEF TypeOK, Shape, Safe, Queued, Carried, Decide, RejectFailed, Leave,
     InLease, Goto, Proceed, Free
  <2> QED
    BY <2>1, <2>2, <2>3, StepKeepsSafe
<1>17. ASSUME NEW w \in Workers, PublishRetry(w) PROVE NoTaskLost'
  <2>1. unsent' = unsent /\ Queued \subseteq Queued' /\ completed \subseteq completed' /\ dropped \subseteq dropped'
    BY <1>17 DEF Queued, PublishRetry, history
  <2>2. \A v \in Workers \ {w} : Carried(v)' = Carried(v)
    BY <1>17 DEF TypeOK, Carried, PublishRetry, Goto
  <2>3. ASSUME NEW t \in Carried(w) PROVE Safe(t)'
    <3>1. Copy(msg[w], msg[w].attempt + 1, msg[w].manual).items = msg[w].items
      BY DEF Copy
    <3> QED
      BY <1>17, <2>3, <3>1 DEF TypeOK, Safe, Queued, Carried, PublishRetry, history
  <2> QED
    BY <2>1, <2>2, <2>3, StepKeepsSafe
<1>18. ASSUME NEW w \in Workers, PublishDeadLetter(w) PROVE NoTaskLost'
  <2>1. unsent' = unsent /\ Queued \subseteq Queued' /\ completed \subseteq completed' /\ dropped \subseteq dropped'
    BY <1>18 DEF Queued, PublishDeadLetter, history
  <2>2. \A v \in Workers \ {w} : Carried(v)' = Carried(v)
    BY <1>18 DEF TypeOK, Carried, PublishDeadLetter, Goto
  <2>3. ASSUME NEW t \in Carried(w) PROVE Safe(t)'
    <3>1. Copy(msg[w], msg[w].attempt, msg[w].manual).items = msg[w].items
      BY DEF Copy
    <3> QED
      BY <1>18, <2>3, <3>1 DEF TypeOK, Safe, Queued, Carried, PublishDeadLetter, history
  <2> QED
    BY <2>1, <2>2, <2>3, StepKeepsSafe
<1>19. ASSUME NEW w \in Workers, PersistDLQRecord(w) PROVE NoTaskLost'
  <2>1. unsent' = unsent /\ Queued \subseteq Queued' /\ completed \subseteq completed' /\ dropped \subseteq dropped'
    BY <1>19 DEF Queued, PersistDLQRecord, queues, history
  <2>2. \A v \in Workers \ {w} : Carried(v)' = Carried(v)
    BY <1>19 DEF TypeOK, Carried, PersistDLQRecord, Goto
  <2>3. ASSUME NEW t \in Carried(w) PROVE Safe(t)'
    BY <1>19, <2>3 DEF TypeOK, Shape, Safe, Queued, Carried, PersistDLQRecord, Goto, queues,
     history
  <2> QED
    BY <2>1, <2>2, <2>3, StepKeepsSafe
<1>20. ASSUME NEW w \in Workers, AckRelocated(w) PROVE NoTaskLost'
  <2>1. unsent' = unsent /\ Queued \subseteq Queued' /\ completed \subseteq completed' /\ dropped \subseteq dropped'
    BY <1>20 DEF Queued, AckRelocated, queues, history
  <2>2. \A v \in Workers \ {w} : Carried(v)' = Carried(v)
    BY <1>20 DEF TypeOK, Carried, AckRelocated, Leave, InLease, Goto, Proceed, Free
  <2>3. ASSUME NEW t \in Carried(w) PROVE Safe(t)'
    BY <1>20, <2>3 DEF TypeOK, Shape, Safe, Queued, Carried, AckRelocated, Leave, InLease,
     Goto, Proceed, Free, queues, history
  <2> QED
    BY <2>1, <2>2, <2>3, StepKeepsSafe
<1>21. ASSUME NEW w \in Workers, ReleaseRead(w) PROVE NoTaskLost'
  <2>1. unsent' = unsent /\ Queued \subseteq Queued' /\ completed \subseteq completed' /\ dropped \subseteq dropped'
    BY <1>21 DEF Queued, ReleaseRead, queues, history
  <2>2. \A v \in Workers \ {w} : Carried(v)' = Carried(v)
    BY <1>21 DEF TypeOK, Carried, ReleaseRead, Goto, Proceed, Free
  <2>3. ASSUME NEW t \in Carried(w) PROVE Safe(t)'
    BY <1>21, <2>3 DEF TypeOK, Shape, Safe, Queued, Carried, ReleaseRead, Goto, Proceed,
     Free, queues, history
  <2> QED
    BY <2>1, <2>2, <2>3, StepKeepsSafe
<1>22. ASSUME NEW w \in Workers, ReleaseDelete(w) PROVE NoTaskLost'
  <2>1. unsent' = unsent /\ Queued \subseteq Queued' /\ completed \subseteq completed' /\ dropped \subseteq dropped'
    BY <1>22 DEF Queued, ReleaseDelete, queues, history
  <2>2. \A v \in Workers \ {w} : Carried(v)' = Carried(v)
    BY <1>22 DEF TypeOK, Carried, ReleaseDelete, Proceed, Free, Goto
  <2>3. ASSUME NEW t \in Carried(w) PROVE Safe(t)'
    BY <1>22, <2>3 DEF TypeOK, Shape, Safe, Queued, Carried, ReleaseDelete, Proceed, Free,
     Goto, queues, history
  <2> QED
    BY <2>1, <2>2, <2>3, StepKeepsSafe
<1>23. ASSUME NEW w \in Workers, AckProcessed(w) PROVE NoTaskLost'
  <2>1. unsent' = unsent /\ Queued \subseteq Queued' /\ completed \subseteq completed' /\ dropped \subseteq dropped'
    BY <1>23 DEF Queued, AckProcessed, queues, history
  <2>2. \A v \in Workers \ {w} : Carried(v)' = Carried(v)
    BY <1>23 DEF TypeOK, Carried, AckProcessed, Free, Goto
  <2>3. ASSUME NEW t \in Carried(w) PROVE Safe(t)'
    BY <1>23, <2>3 DEF TypeOK, Shape, Safe, Queued, Carried, AckProcessed, Free, Goto,
     queues, history
  <2> QED
    BY <2>1, <2>2, <2>3, StepKeepsSafe
<1>24. ASSUME NEW w \in Workers, StaleDelivery(w) PROVE NoTaskLost'
  <2>1. unsent' = unsent /\ Queued \subseteq Queued' /\ completed \subseteq completed' /\ dropped \subseteq dropped'
    BY <1>24 DEF Queued, StaleDelivery, queues, history
  <2>2. \A v \in Workers \ {w} : Carried(v)' = Carried(v)
    BY <1>24 DEF TypeOK, Carried, StaleDelivery, Leave, InLease, Goto, Proceed, Free
  <2>3. ASSUME NEW t \in Carried(w) PROVE Safe(t)'
    BY <1>24, <2>3 DEF TypeOK, Shape, Safe, Queued, Carried, StaleDelivery, Leave, InLease,
     Goto, Proceed, Free, queues, history
  <2> QED
    BY <2>1, <2>2, <2>3, StepKeepsSafe
<1>25. ASSUME NEW w \in Workers, CloseChannel(w) PROVE NoTaskLost'
  <2>1. unsent' = unsent /\ Queued \subseteq Queued' /\ completed \subseteq completed' /\ dropped \subseteq dropped'
    BY <1>25 DEF Queued, CloseChannel, Requeued, history
  <2>2. \A v \in Workers \ {w} : Carried(v)' = Carried(v)
    BY <1>25 DEF TypeOK, Carried, CloseChannel, Free, Goto
  <2>3. ASSUME NEW t \in Carried(w) PROVE Safe(t)'
    BY <1>25, <2>3 DEF TypeOK, Shape, Safe, Queued, Carried, CloseChannel, Requeued, Free,
     Goto, history
  <2> QED
    BY <2>1, <2>2, <2>3, StepKeepsSafe
<1>26. ASSUME NEW w \in Workers, Interrupt(w) PROVE NoTaskLost'
  <2>1. unsent' = unsent /\ Queued \subseteq Queued' /\ completed \subseteq completed' /\ dropped \subseteq dropped'
    BY <1>26 DEF Queued, Interrupt, Fault, queues, history
  <2>2. \A v \in Workers \ {w} : Carried(v)' = Carried(v)
    BY <1>26 DEF TypeOK, Carried, Interrupt, Leave, InLease, Goto, Proceed, Free
  <2>3. ASSUME NEW t \in Carried(w) PROVE Safe(t)'
    BY <1>26, <2>3 DEF TypeOK, Shape, Safe, Queued, Carried, Interrupt, Leave, InLease,
     Goto, Proceed, Free, Fault, queues, history
  <2> QED
    BY <2>1, <2>2, <2>3, StepKeepsSafe
<1>27. ASSUME NEW w \in Workers, ReleaseRaises(w) PROVE NoTaskLost'
  <2>1. unsent' = unsent /\ Queued \subseteq Queued' /\ completed \subseteq completed' /\ dropped \subseteq dropped'
    BY <1>27 DEF Queued, ReleaseRaises, Fault, queues, history
  <2>2. \A v \in Workers \ {w} : Carried(v)' = Carried(v)
    BY <1>27 DEF TypeOK, Carried, ReleaseRaises, Proceed, Free, Goto
  <2>3. ASSUME NEW t \in Carried(w) PROVE Safe(t)'
    BY <1>27, <2>3 DEF TypeOK, Shape, Safe, Queued, Carried, ReleaseRaises, Proceed, Free,
     Goto, Fault, queues, history
  <2> QED
    BY <2>1, <2>2, <2>3, StepKeepsSafe
<1>28. ASSUME NEW w \in Workers, AcquireRaises(w) PROVE NoTaskLost'
  <2>1. unsent' = unsent /\ Queued \subseteq Queued' /\ completed \subseteq completed' /\ dropped \subseteq dropped'
    BY <1>28 DEF Queued, AcquireRaises, Fault, queues, history
  <2>2. \A v \in Workers \ {w} : Carried(v)' = Carried(v)
    BY <1>28 DEF TypeOK, Carried, AcquireRaises, Proceed, Free, Goto
  <2>3. ASSUME NEW t \in Carried(w) PROVE Safe(t)'
    BY <1>28, <2>3 DEF TypeOK, Shape, Safe, Queued, Carried, AcquireRaises, Proceed, Free,
     Goto, Fault, queues, history
  <2> QED
    BY <2>1, <2>2, <2>3, StepKeepsSafe
<1>29. ASSUME NEW w \in Workers, Crash(w) PROVE NoTaskLost'
  <2>1. unsent' = unsent /\ Queued \subseteq Queued' /\ completed \subseteq completed' /\ dropped \subseteq dropped'
    BY <1>29 DEF Queued, Crash, Requeued, Fault, history
  <2>2. \A v \in Workers \ {w} : Carried(v)' = Carried(v)
    BY <1>29 DEF TypeOK, Carried, Crash, Free, Goto
  <2>3. ASSUME NEW t \in Carried(w) PROVE Safe(t)'
    BY <1>29, <2>3 DEF TypeOK, Shape, Safe, Queued, Carried, Crash, Requeued, Free, Goto,
     Fault, history
  <2> QED
    BY <2>1, <2>2, <2>3, StepKeepsSafe
<1>30. ASSUME NEW w \in Workers, LoseChannel(w) PROVE NoTaskLost'
  <2>1. unsent' = unsent /\ Queued \subseteq Queued' /\ completed \subseteq completed' /\ dropped \subseteq dropped'
    BY <1>30 DEF Queued, LoseChannel, Fault, history
  <2>2. \A v \in Workers \ {w} : Carried(v)' = Carried(v)
    BY <1>30 DEF TypeOK, Carried, LoseChannel
  <2>3. ASSUME NEW t \in Carried(w) PROVE Safe(t)'
    BY <1>30, <2>3 DEF TypeOK, Shape, Safe, Queued, Carried, LoseChannel, Fault, history
  <2> QED
    BY <2>1, <2>2, <2>3, StepKeepsSafe
<1>31. CASE UNCHANGED vars
  BY <1>31 DEF NoTaskLost, Submitted, Queued, Carried, vars, queues, history
<1> QED
  BY <1>1, <1>2, <1>3, <1>4, <1>5, <1>6, <1>7, <1>8, <1>9, <1>10, <1>11, <1>12, <1>13,
     <1>14, <1>15, <1>16, <1>17, <1>18, <1>19, <1>20, <1>21, <1>22, <1>23, <1>24,
     <1>25, <1>26, <1>27, <1>28, <1>29, <1>30, <1>31 DEF Next, WorkerStep, FaultStep

(* No submitted task is ever lost by TaskConsumer, for any number of       *)
(* workers, tasks and faults.                                              *)
THEOREM NothingLost == Spec => []NoTaskLost
<1>1. Init => NoTaskLost
  BY DEF Init, NoTaskLost, Submitted
<1>2. TypeInv <=> TypeOK /\ Shape
  BY DEF TypeInv
<1> QED
  BY InitType, NextTypeOK, NextShape, NextNoTaskLost, <1>1, <1>2, PTL DEF Spec

-----------------------------------------------------------------------------
(* The contract.                                                           *)

(* A free slot holds no delivery, and what is open was submitted.           *)
OpenInv ==
    /\ \A w \in Workers : pc[w] = "idle" => ~held[w]
    /\ Open \subseteq Submitted

(* The initial state has nothing open.                                     *)
LEMMA InitOpen == Init => OpenInv /\ Delivery!Init
<1> SUFFICES ASSUME Init PROVE OpenInv /\ Delivery!Init
  OBVIOUS
<1>1. Open = {}
  BY DEF Init, Open
<1>2. Submitted = {}
  BY DEF Init, Submitted
<1>3. Outcome = [t \in Tasks |-> {}]
  BY DEF Init, Outcome
<1> QED BY <1>1, <1>2, <1>3 DEF Init, OpenInv, Delivery!Init

(* What a step of worker w does to the messages: it adds copies of its     *)
(* own, frees its slot or keeps its message, and touches no other worker.  *)
Moves(w) ==
    /\ unsent' = unsent
    /\ pc[w] # "idle"
    /\ tasksQ \subseteq tasksQ' /\ retryQ \subseteq retryQ'
    /\ \A m \in tasksQ' \cup retryQ' : m \in tasksQ \cup retryQ \/ m.items \subseteq msg[w].items
    /\ \A v \in Workers \ {w} : pc'[v] = pc[v] /\ msg'[v] = msg[v] /\ held'[v] = held[v]
    /\ pc'[w] # "idle" => msg'[w] = msg[w]
    /\ pc'[w] = "idle" => ~held'[w]

(* Every step of a worker, faults included, is such a step.                *)
LEMMA WorkerMoves ==
    ASSUME TypeInv, OpenInv, NEW w \in Workers, WorkerStep(w) \/ FaultStep(w)
    PROVE  Moves(w)
<1> USE DEF TypeInv, TypeOK, OpenInv, Moves
<1>1. ASSUME NEW t \in Tasks, FanOut(w, t) PROVE Moves(w)
  BY <1>1 DEF FanOut, Copy, Shape
<1>2. ASSUME Parse(w) PROVE Moves(w)
  BY <1>2 DEF Parse, Goto, queues
<1>3. ASSUME RejectUnusable(w) PROVE Moves(w)
  BY <1>3 DEF RejectUnusable, Free, Goto, queues
<1>4. ASSUME AckBatch(w) PROVE Moves(w)
  BY <1>4 DEF AckBatch, Free, Goto, queues
<1>5. ASSUME AcquireLease(w) PROVE Moves(w)
  BY <1>5 DEF AcquireLease, Goto, queues
<1>6. ASSUME LeaseConflict(w) PROVE Moves(w)
  BY <1>6 DEF LeaseConflict, Free, Goto
<1>7. ASSUME HandlerReturns(w) PROVE Moves(w)
  BY <1>7 DEF HandlerReturns, Leave, Proceed, InLease, Free, Goto, queues
<1>8. ASSUME HandlerAsksManualRetry(w) PROVE Moves(w)
  BY <1>8 DEF HandlerAsksManualRetry, Goto, queues
<1>9. ASSUME PublishManualRetry(w) PROVE Moves(w)
  BY <1>9 DEF PublishManualRetry, Leave, Proceed, InLease, Free, Goto, Copy
<1>10. ASSUME HandlerRaises(w) PROVE Moves(w)
  BY <1>10 DEF HandlerRaises, Goto, queues
<1>11. ASSUME RejectFailed(w) PROVE Moves(w)
  BY <1>11 DEF RejectFailed, Leave, Proceed, InLease, Free, Goto
<1>12. ASSUME PublishRetry(w) PROVE Moves(w)
  BY <1>12 DEF PublishRetry, Goto, Copy
<1>13. ASSUME PublishDeadLetter(w) PROVE Moves(w)
  BY <1>13 DEF PublishDeadLetter, Goto, Copy
<1>14. ASSUME PersistDLQRecord(w) PROVE Moves(w)
  BY <1>14 DEF PersistDLQRecord, Goto, queues
<1>15. ASSUME AckRelocated(w) PROVE Moves(w)
  BY <1>15 DEF AckRelocated, Leave, Proceed, InLease, Free, Goto, queues
<1>16. ASSUME ReleaseRead(w) PROVE Moves(w)
  BY <1>16 DEF ReleaseRead, Proceed, Free, Goto, queues
<1>17. ASSUME ReleaseDelete(w) PROVE Moves(w)
  BY <1>17 DEF ReleaseDelete, Proceed, Free, Goto, queues
<1>18. ASSUME AckProcessed(w) PROVE Moves(w)
  BY <1>18 DEF AckProcessed, Free, Goto, queues
<1>19. ASSUME StaleDelivery(w) PROVE Moves(w)
  BY <1>19 DEF StaleDelivery, Leave, Proceed, InLease, Free, Goto, queues
<1>20. ASSUME CloseChannel(w) PROVE Moves(w)
  BY <1>20 DEF CloseChannel, Free, Goto, Requeued
<1>21. ASSUME Interrupt(w) PROVE Moves(w)
  BY <1>21 DEF Interrupt, Leave, Proceed, InLease, Free, Goto, queues
<1>22. ASSUME ReleaseRaises(w) PROVE Moves(w)
  BY <1>22 DEF ReleaseRaises, Proceed, Free, Goto, queues
<1>23. ASSUME AcquireRaises(w) PROVE Moves(w)
  BY <1>23 DEF AcquireRaises, Proceed, Free, Goto, queues
<1>24. ASSUME Crash(w) PROVE Moves(w)
  BY <1>24 DEF Crash, Free, Goto, Requeued
<1>25. ASSUME LoseChannel(w) PROVE Moves(w)
  BY <1>25 DEF LoseChannel
<1> QED
  BY <1>1, <1>2, <1>3, <1>4, <1>5, <1>6, <1>7, <1>8, <1>9, <1>10, <1>11, <1>12, <1>13,
     <1>14, <1>15, <1>16, <1>17, <1>18, <1>19, <1>20, <1>21, <1>22, <1>23, <1>24, <1>25
     DEF WorkerStep, FaultStep

(* Such a step opens no task, and closes none but its own message's.       *)
LEMMA MovesOpen ==
    ASSUME TypeOK, NEW w \in Workers, Moves(w)
    PROVE  /\ Open' \subseteq Open
           /\ msg[w].items \subseteq Open
           /\ Open \ Open' \subseteq msg[w].items
           /\ pc'[w] # "idle" => Open' = Open
           /\ Submitted' = Submitted
<1>1. msg[w].items \subseteq Open
  BY DEF Open, Moves, TypeOK, Message
<1>2. Open' \subseteq Open
  <2> SUFFICES ASSUME NEW t \in Tasks, t \in Open' PROVE t \in Open
    BY DEF Open
  <2>1. CASE \E m \in tasksQ' \cup retryQ' : t \in m.items
    BY <1>1, <2>1 DEF Open, Moves
  <2>2. CASE \E v \in Workers : pc'[v] # "idle" /\ t \in msg'[v].items
    BY <1>1, <2>2 DEF Open, Moves
  <2> QED BY <2>1, <2>2 DEF Open
<1>3. ASSUME NEW t \in Open, t \notin msg[w].items \/ pc'[w] # "idle" PROVE t \in Open'
  <2>1. CASE \E m \in tasksQ \cup retryQ : t \in m.items
    BY <2>1 DEF Open, Moves
  <2>2. CASE \E v \in Workers : pc[v] # "idle" /\ t \in msg[v].items
    BY <1>3, <2>2 DEF Open, Moves
  <2> QED BY <2>1, <2>2 DEF Open
<1> QED BY <1>1, <1>2, <1>3 DEF Moves, Submitted

(* Every step keeps the free slots empty and opens only what is submitted. *)
LEMMA NextOpen == TypeInv /\ OpenInv /\ [Next]_vars => OpenInv'
<1> SUFFICES ASSUME TypeInv, OpenInv, [Next]_vars PROVE OpenInv'
  OBVIOUS
<1> USE DEF TypeInv, TypeOK
<1>1. ASSUME NEW s \in Submissions, Submit(s) PROVE OpenInv'
  <2>1. Open' \subseteq Open \cup s.items
    BY <1>1 DEF Submit, Open, Copy
  <2>2. Submitted' = Submitted \cup s.items
    BY <1>1 DEF Submit, Submitted
  <2> QED BY <1>1, <2>1, <2>2 DEF OpenInv, Submit
<1>2. ASSUME NEW w \in Workers, NEW m \in tasksQ, Deliver(w, m) PROVE OpenInv'
  <2>1. Open' \subseteq Open
    BY <1>2 DEF Deliver, Goto, Open
  <2> QED BY <1>2, <2>1 DEF OpenInv, Deliver, Goto, Submitted
<1>3. ASSUME NEW m \in retryQ, RetryDelayElapsed(m) PROVE OpenInv'
  <2>1. Open' = Open
    BY <1>3 DEF RetryDelayElapsed, Open
  <2> QED BY <1>3, <2>1 DEF OpenInv, RetryDelayElapsed, Submitted
<1>4. ASSUME NEW w \in Workers, WorkerStep(w) \/ FaultStep(w) PROVE OpenInv'
  <2>1. Moves(w)
    BY <1>4, WorkerMoves
  <2>2. Open' \subseteq Open /\ Submitted' = Submitted
    BY <2>1, MovesOpen
  <2> QED BY <2>1, <2>2 DEF OpenInv, Moves
<1>5. ASSUME NEW t \in Tasks, ExpireOrphan(t) \/ ExpireUnderOwner(t) PROVE OpenInv'
  BY <1>5 DEF ExpireOrphan, ExpireUnderOwner, OpenInv, Open, Submitted, queues
<1>6. CASE UNCHANGED vars
  BY <1>6 DEF vars, queues, OpenInv, Open, Submitted
<1> QED BY <1>1, <1>2, <1>3, <1>4, <1>5, <1>6 DEF Next

(* A submitted task that is not open has an outcome: what NoTaskLost says  *)
(* of the contract.                                                        *)
Accounted == \A t \in Tasks : t \in Submitted /\ t \notin Open => Outcome[t] # {}

(* What is neither open nor carried has an outcome.                        *)
LEMMA LostNever == TypeInv /\ NoTaskLost => Accounted
<1> SUFFICES ASSUME TypeInv, NoTaskLost, NEW t \in Tasks, t \in Submitted, t \notin Open
             PROVE  Outcome[t] # {}
  BY DEF Accounted
<1>1. \A w \in Workers : t \notin Carried(w)
  BY DEF Carried, Open, TypeInv, Shape
<1>2. CASE \E m \in Queued : t \in m.items
  <2>1. "dead_lettered" \in Outcome[t]
    BY <1>2 DEF Queued, Open, Outcome
  <2> QED BY <2>1
<1>3. CASE t \in completed
  <2>1. "completed" \in Outcome[t]
    BY <1>3 DEF Outcome
  <2> QED BY <2>1
<1>4. CASE t \in dropped
  <2>1. "dropped" \in Outcome[t]
    BY <1>4 DEF Outcome
  <2> QED BY <2>1
<1> QED BY <1>1, <1>2, <1>3, <1>4 DEF NoTaskLost

(* The tasks a step of worker w gives an outcome: its whole message, or    *)
(* none.                                                                   *)
Concludes(S, o) == Outcome' = [t \in Tasks |-> Outcome[t] \cup (IF t \in S THEN {o} ELSE {})]

(* Every step of a worker concludes its whole message, or nothing.         *)
LEMMA WorkerConcludes ==
    ASSUME TypeInv, NEW w \in Workers, WorkerStep(w) \/ FaultStep(w)
    PROVE  \/ Outcome' = Outcome
           \/ \E o \in Delivery!Outcomes : Concludes(msg[w].items, o)
<1> DEFINE Kept == completed' = completed /\ dropped' = dropped /\ dlq' = dlq
<1>k. Kept => Outcome' = Outcome
  BY DEF Outcome
<1> HIDE DEF Kept
<1>1. ASSUME HandlerReturns(w) PROVE Concludes(msg[w].items, "completed")
  <2>1. completed' = completed \cup msg[w].items /\ dropped' = dropped /\ dlq' = dlq
    BY <1>1 DEF HandlerReturns, queues
  <2> QED BY <2>1 DEF Concludes, Outcome
<1>2. ASSUME RejectUnusable(w) PROVE Concludes(msg[w].items, "dropped")
  <2>1. completed' = completed /\ dropped' = dropped \cup msg[w].items /\ dlq' = dlq
    BY <1>2 DEF RejectUnusable, queues
  <2> QED BY <2>1 DEF Concludes, Outcome
<1>3. ASSUME RejectFailed(w), FailureAction[w] # "requeue" PROVE Concludes(msg[w].items, "dropped")
  <2>1. completed' = completed /\ dropped' = dropped \cup msg[w].items /\ dlq' = dlq
    BY <1>3 DEF RejectFailed
  <2> QED BY <2>1 DEF Concludes, Outcome
<1>4. ASSUME RejectFailed(w), FailureAction[w] = "requeue" PROVE Kept
  BY <1>4 DEF RejectFailed, Kept
<1>5. ASSUME PublishDeadLetter(w) PROVE Concludes(msg[w].items, "dead_lettered")
  <2>1. completed' = completed /\ dropped' = dropped
        /\ dlq' = dlq \cup {Copy(msg[w], msg[w].attempt, msg[w].manual)}
    BY <1>5 DEF PublishDeadLetter, history
  <2>2. Copy(msg[w], msg[w].attempt, msg[w].manual).items = msg[w].items
    BY DEF Copy
  <2>3. \A t \in Tasks : (\E m \in dlq' : t \in m.items) <=> (\E m \in dlq : t \in m.items) \/ t \in msg[w].items
    BY <2>1, <2>2
  <2> QED BY <2>1, <2>3 DEF Concludes, Outcome
<1>6. ASSUME NEW t \in Tasks, FanOut(w, t) PROVE Kept
  BY <1>6 DEF FanOut, Kept, history
<1>7. ASSUME Parse(w) PROVE Kept
  BY <1>7 DEF Parse, Kept, queues, history
<1>8. ASSUME AckBatch(w) PROVE Kept
  BY <1>8 DEF AckBatch, Kept, queues, history
<1>9. ASSUME AcquireLease(w) PROVE Kept
  BY <1>9 DEF AcquireLease, Kept, queues, history
<1>10. ASSUME LeaseConflict(w) PROVE Kept
  BY <1>10 DEF LeaseConflict, Kept, queues, history
<1>11. ASSUME HandlerAsksManualRetry(w) PROVE Kept
  BY <1>11 DEF HandlerAsksManualRetry, Kept, queues, history
<1>12. ASSUME PublishManualRetry(w) PROVE Kept
  BY <1>12 DEF PublishManualRetry, Kept, queues, history
<1>13. ASSUME HandlerRaises(w) PROVE Kept
  BY <1>13 DEF HandlerRaises, Kept, queues, history
<1>14. ASSUME PublishRetry(w) PROVE Kept
  BY <1>14 DEF PublishRetry, Kept, queues, history
<1>15. ASSUME PersistDLQRecord(w) PROVE Kept
  BY <1>15 DEF PersistDLQRecord, Kept, queues, history
<1>16. ASSUME AckRelocated(w) PROVE Kept
  BY <1>16 DEF AckRelocated, Kept, queues, history
<1>17. ASSUME ReleaseRead(w) PROVE Kept
  BY <1>17 DEF ReleaseRead, Kept, queues, history
<1>18. ASSUME ReleaseDelete(w) PROVE Kept
  BY <1>18 DEF ReleaseDelete, Kept, queues, history
<1>19. ASSUME AckProcessed(w) PROVE Kept
  BY <1>19 DEF AckProcessed, Kept, queues, history
<1>20. ASSUME StaleDelivery(w) PROVE Kept
  BY <1>20 DEF StaleDelivery, Kept, queues, history
<1>21. ASSUME CloseChannel(w) PROVE Kept
  BY <1>21 DEF CloseChannel, Kept, queues, history
<1>22. ASSUME Interrupt(w) PROVE Kept
  BY <1>22 DEF Interrupt, Kept, queues, history
<1>23. ASSUME ReleaseRaises(w) PROVE Kept
  BY <1>23 DEF ReleaseRaises, Kept, queues, history
<1>24. ASSUME AcquireRaises(w) PROVE Kept
  BY <1>24 DEF AcquireRaises, Kept, queues, history
<1>25. ASSUME Crash(w) PROVE Kept
  BY <1>25 DEF Crash, Kept, queues, history
<1>26. ASSUME LoseChannel(w) PROVE Kept
  BY <1>26 DEF LoseChannel, Kept, queues, history
<1>o. {"completed", "dropped", "dead_lettered"} \subseteq Delivery!Outcomes
  BY DEF Delivery!Outcomes
<1> QED
  BY <1>k, <1>o, <1>1, <1>2, <1>3, <1>4, <1>5, <1>6, <1>7, <1>8, <1>9, <1>10, <1>11,
     <1>12, <1>13, <1>14, <1>15, <1>16, <1>17, <1>18, <1>19, <1>20, <1>21, <1>22, <1>23,
     <1>24, <1>25, <1>26 DEF WorkerStep, FaultStep

(* Every step of TaskConsumer is a step of the contract, or none.          *)
LEMMA NextContract ==
    TypeInv /\ OpenInv /\ Accounted' /\ [Next]_vars
        => [Delivery!Next]_<<Submitted, Open, Outcome>>
<1> SUFFICES ASSUME TypeInv, OpenInv, Accounted', [Next]_vars
             PROVE  [Delivery!Next]_<<Submitted, Open, Outcome>>
  OBVIOUS
<1> USE DEF TypeInv, TypeOK
<1>o. Open \subseteq Tasks
  BY DEF Open
<1>1. ASSUME NEW s \in Submissions, Submit(s) PROVE Delivery!Next
  <2>1. Copy(s, 0, 0).items = s.items /\ s.items \subseteq Tasks
    BY SubmissionAssumption DEF Copy
  <2>2. Open' = Open \cup s.items
    BY <1>1, <2>1 DEF Submit, Open
  <2>3. Submitted' = Submitted \cup s.items
    BY <1>1 DEF Submit, Submitted
  <2>4. Outcome' = Outcome
    BY <1>1 DEF Submit, Outcome, history
  <2> QED BY <2>1, <2>2, <2>3, <2>4 DEF Delivery!Next, Delivery!Submit
<1>c. ASSUME Open' \subseteq Open, Submitted' = Submitted, Outcome' = Outcome PROVE Delivery!Next
  <2>1. \A t \in Open \ Open' : Outcome[t] # {}
    BY <1>c, <1>o DEF Accounted, OpenInv
  <2>2. Delivery!Close(Open \ Open')
    BY <1>c, <2>1 DEF Delivery!Close
  <2>3. Open \ Open' \in SUBSET Tasks
    BY <1>o
  <2> QED BY <2>2, <2>3 DEF Delivery!Next
<1>2. ASSUME NEW w \in Workers, NEW m \in tasksQ, Deliver(w, m) PROVE Delivery!Next
  <2>1. Open' \subseteq Open
    BY <1>2 DEF Deliver, Goto, Open
  <2>2. Submitted' = Submitted /\ Outcome' = Outcome
    BY <1>2 DEF Deliver, Submitted, Outcome, history
  <2> QED BY <1>c, <2>1, <2>2
<1>3. ASSUME NEW m \in retryQ, RetryDelayElapsed(m) PROVE Delivery!Next
  <2>1. Open' = Open
    BY <1>3 DEF RetryDelayElapsed, Open
  <2>2. Submitted' = Submitted /\ Outcome' = Outcome
    BY <1>3 DEF RetryDelayElapsed, Submitted, Outcome, history
  <2> QED BY <1>c, <2>1, <2>2
<1>4. ASSUME NEW w \in Workers, WorkerStep(w) \/ FaultStep(w) PROVE Delivery!Next
  <2>1. Moves(w)
    BY <1>4, WorkerMoves
  <2>2. /\ Open' \subseteq Open /\ msg[w].items \subseteq Open
        /\ Open \ Open' \subseteq msg[w].items /\ Submitted' = Submitted
    BY <2>1, MovesOpen
  <2>3. CASE Outcome' = Outcome
    BY <1>c, <2>2, <2>3
  <2>4. ASSUME NEW o \in Delivery!Outcomes, Concludes(msg[w].items, o) PROVE Delivery!Next
    <3>1. Delivery!Conclude(msg[w].items, o, Open \ Open')
      BY <2>2, <2>4 DEF Delivery!Conclude, Concludes
    <3>2. msg[w].items \in SUBSET Tasks /\ Open \ Open' \in SUBSET msg[w].items
      BY <2>2, <1>o
    <3> QED BY <2>4, <3>1, <3>2 DEF Delivery!Next
  <2> QED BY <1>4, <2>3, <2>4, WorkerConcludes
<1>5. ASSUME NEW t \in Tasks, ExpireOrphan(t) \/ ExpireUnderOwner(t) PROVE Delivery!Next
  <2>1. Open' = Open /\ Submitted' = Submitted /\ Outcome' = Outcome
    BY <1>5 DEF ExpireOrphan, ExpireUnderOwner, Open, Submitted, Outcome, queues, history
  <2> QED BY <1>c, <2>1
<1>6. CASE UNCHANGED vars
  <2>1. Open' = Open /\ Submitted' = Submitted /\ Outcome' = Outcome
    BY <1>6 DEF vars, Open, Submitted, Outcome, queues, history
  <2> QED BY <2>1
<1> QED BY <1>1, <1>2, <1>3, <1>4, <1>5, <1>6 DEF Next

(* The consumer implements the at-least-once contract of TaskDelivery, for *)
(* any number of workers, tasks and faults: the last copy of a task        *)
(* disappears only after an outcome.                                       *)
THEOREM ContractMet == Spec => DeliveryContract
<1>1. Init => NoTaskLost
  BY DEF Init, NoTaskLost, Submitted
<1>2. TypeInv <=> TypeOK /\ Shape
  BY DEF TypeInv
<1> QED
  BY InitType, NextTypeOK, NextShape, NextNoTaskLost, InitOpen, NextOpen, LostNever,
     NextContract, <1>1, <1>2, PTL DEF Spec, DeliveryContract, Delivery!Spec
-----------------------------------------------------------------------------
(* The retry budget.                                                       *)

(* Attempts stay within the budget, and a task on attempt a has failed on  *)
(* every attempt before.                                                   *)
Budgeted(m, raised) ==
    /\ m.attempt <= MaxRetries
    /\ m.kind = "task" =>
          \A t \in m.items : \A k \in Nat : k < m.attempt => <<t, m.manual, k>> \in raised

(* A dead letter has failed on its last attempt too.                       *)
Exhausted(m, raised) ==
    m.kind = "task" =>
        /\ m.attempt = MaxRetries
        /\ \A t \in m.items : \A k \in 0 .. MaxRetries : <<t, m.manual, k>> \in raised

(* Every message is budgeted and every dead letter exhausted; a worker     *)
(* about to retry or bury a task has seen it fail; one about to record a   *)
(* dead letter has published it.                                           *)
BudgetInv ==
    /\ \A m \in Queued : Budgeted(m, failed)
    /\ \A w \in Workers : Budgeted(msg[w], failed)
    /\ \A m \in dlq : Exhausted(m, failed)
    /\ \A w \in Workers :
          pc[w] = "failed" => \A t \in msg[w].items : <<t, msg[w].manual, msg[w].attempt>> \in failed
    /\ \A w \in Workers : pc[w] = "bury" => msg[w].kind # "task"
    /\ \A w \in Workers : pc[w] = "buried" => \E m \in dlq : m.items = msg[w].items
    /\ RecordHasMessage

(* More failures leave a message budgeted and a dead letter exhausted.     *)
LEMMA BudgetGrows ==
    ASSUME NEW F, NEW G, F \subseteq G, NEW m
    PROVE  (Budgeted(m, F) => Budgeted(m, G)) /\ (Exhausted(m, F) => Exhausted(m, G))
BY DEF Budgeted, Exhausted

(* The empty message and a first attempt are budgeted.                     *)
LEMMA FreshBudget ==
    ASSUME NEW F, NEW m, m.attempt = 0
    PROVE  Budgeted(m, F)
BY BoundAssumption DEF Budgeted

(* The initial state is budgeted.                                          *)
LEMMA InitBudget == Init => BudgetInv
<1>1. NoMessage.attempt = 0
  BY DEF NoMessage
<1> QED BY <1>1, FreshBudget DEF Init, BudgetInv, Queued, RecordHasMessage

(* A step of worker w that keeps the dead letters and their records, and   *)
(* sends and holds only budgeted messages, keeps the invariant.            *)
LEMMA BudgetKept ==
    ASSUME TypeOK, BudgetInv, NEW w \in Workers,
           failed \subseteq failed', dlq' = dlq, records' = records,
           \A m \in tasksQ' \cup retryQ' : m \in Queued \/ Budgeted(m, failed),
           \A v \in Workers \ {w} : pc'[v] = pc[v] /\ msg'[v] = msg[v],
           Budgeted(msg'[w], failed),
           pc'[w] = "failed" => \A t \in msg'[w].items : <<t, msg'[w].manual, msg'[w].attempt>> \in failed',
           pc'[w] = "bury" => msg'[w].kind # "task",
           pc'[w] = "buried" => pc[w] = "buried" /\ msg'[w] = msg[w]
    PROVE  BudgetInv'
<1>1. \A m \in Queued' : Budgeted(m, failed')
  BY BudgetGrows DEF BudgetInv, Queued
<1>2. \A v \in Workers : Budgeted(msg'[v], failed')
  BY BudgetGrows DEF BudgetInv
<1>3. \A m \in dlq' : Exhausted(m, failed')
  BY BudgetGrows DEF BudgetInv
<1> QED BY <1>1, <1>2, <1>3 DEF BudgetInv, RecordHasMessage

(* A step of worker w that at most returns its message to the queue.       *)
KeepsBudget(w) ==
    /\ failed' = failed /\ dlq' = dlq /\ records' = records
    /\ tasksQ' \subseteq tasksQ \cup {msg[w]} /\ retryQ' = retryQ
    /\ msg'[w] \in {msg[w], NoMessage}
    /\ pc'[w] \in {"failed", "buried"} => pc'[w] = pc[w] /\ msg'[w] = msg[w]
    /\ pc'[w] = "bury" => msg'[w].kind # "task"
    /\ \A v \in Workers \ {w} : pc'[v] = pc[v] /\ msg'[v] = msg[v]

(* Every step keeps the budget.                                            *)
LEMMA NextBudget == TypeInv /\ BudgetInv /\ [Next]_vars => BudgetInv'
<1> SUFFICES ASSUME TypeInv, BudgetInv, [Next]_vars PROVE BudgetInv'
  OBVIOUS
<1> USE DEF TypeInv
<1>n. \A w \in Workers : msg[w] \in Message /\ Budgeted(msg[w], failed)
  BY DEF BudgetInv, TypeOK
<1>e. Budgeted(NoMessage, failed)
  BY FreshBudget DEF NoMessage
<1>q. \A w \in Workers : pc[w] = "failed" =>
         \A t \in msg[w].items : <<t, msg[w].manual, msg[w].attempt>> \in failed
  BY DEF BudgetInv
<1>b. ASSUME NEW w \in Workers, KeepsBudget(w) PROVE BudgetInv'
  <2>1. /\ \A m \in tasksQ' \cup retryQ' : m \in Queued \/ Budgeted(m, failed)
        /\ Budgeted(msg'[w], failed)
    BY <1>n, <1>e, <1>b DEF KeepsBudget, Queued
  <2> QED BY <1>q, <1>b, <2>1, BudgetKept DEF KeepsBudget
<1>1. ASSUME NEW s \in Submissions, Submit(s) PROVE BudgetInv'
  <2>1. Budgeted(Copy(s, 0, 0), failed)
    BY FreshBudget DEF Copy
  <2>2. \A m \in Queued' : Budgeted(m, failed)
    BY <1>1, <2>1 DEF Submit, Queued, BudgetInv
  <2> QED BY <1>1, <2>2 DEF Submit, BudgetInv, RecordHasMessage, history
<1>2. ASSUME NEW w \in Workers, NEW m \in tasksQ, Deliver(w, m) PROVE BudgetInv'
  <2>1. Budgeted(m, failed)
    BY DEF BudgetInv, Queued
  <2>2. /\ failed' = failed /\ dlq' = dlq /\ records' = records /\ retryQ' = retryQ
        /\ tasksQ' \subseteq tasksQ /\ pc'[w] = "received" /\ msg'[w] = m
        /\ \A v \in Workers \ {w} : pc'[v] = pc[v] /\ msg'[v] = msg[v]
    BY <1>2 DEF Deliver, Goto, history, TypeOK
  <2> QED BY <2>1, <2>2, BudgetKept DEF Queued
<1>3. ASSUME NEW m \in retryQ, RetryDelayElapsed(m) PROVE BudgetInv'
  <2>1. Queued' = Queued
    BY <1>3 DEF RetryDelayElapsed, Queued
  <2> QED BY <1>3, <2>1 DEF RetryDelayElapsed, BudgetInv, RecordHasMessage, history
<1>4. ASSUME NEW t \in Tasks, ExpireOrphan(t) \/ ExpireUnderOwner(t) PROVE BudgetInv'
  BY <1>4 DEF ExpireOrphan, ExpireUnderOwner, queues, history, BudgetInv, RecordHasMessage, Queued
<1>5. CASE UNCHANGED vars
  BY <1>5 DEF vars, queues, history, BudgetInv, RecordHasMessage, Queued
<1>6. ASSUME NEW w \in Workers, NEW t \in Tasks, FanOut(w, t) PROVE BudgetInv'
  <2>1. Budgeted(Copy([kind |-> "task", items |-> {t}], 0, 0), failed)
    BY FreshBudget DEF Copy
  <2>2. /\ failed' = failed /\ dlq' = dlq /\ records' = records /\ retryQ' = retryQ
        /\ tasksQ' = tasksQ \cup {Copy([kind |-> "task", items |-> {t}], 0, 0)}
        /\ pc' = pc /\ msg' = msg /\ pc[w] = "fanout"
    BY <1>6 DEF FanOut, history
  <2> QED BY <1>n, <2>1, <2>2, BudgetKept DEF Queued
<1>7. ASSUME NEW w \in Workers, PublishManualRetry(w) PROVE BudgetInv'
  <2>1. Budgeted(Copy(msg[w], 0, msg[w].manual + 1), failed)
    BY FreshBudget DEF Copy
  <2>2. /\ failed' = failed /\ dlq' = dlq /\ records' = records /\ retryQ' = retryQ
        /\ tasksQ' = tasksQ \cup {Copy(msg[w], 0, msg[w].manual + 1)}
        /\ pc'[w] \in {"release", "ack"} /\ msg' = msg
        /\ \A v \in Workers \ {w} : pc'[v] = pc[v]
    BY <1>7 DEF PublishManualRetry, Leave, Proceed, Goto, history, TypeOK
  <2> QED BY <1>n, <2>1, <2>2, BudgetKept DEF Queued
<1>8. ASSUME NEW w \in Workers, HandlerRaises(w) PROVE BudgetInv'
  <2>1. msg[w].items = {TaskOf(w)}
    BY <1>8, TaskOfType DEF HandlerRaises, Shape
  <2>2. /\ failed' = failed \cup {<<TaskOf(w), msg[w].manual, msg[w].attempt>>}
        /\ dlq' = dlq /\ records' = records /\ retryQ' = retryQ /\ tasksQ' = tasksQ
        /\ pc'[w] = "failed" /\ msg' = msg
        /\ \A v \in Workers \ {w} : pc'[v] = pc[v]
    BY <1>8 DEF HandlerRaises, Goto, queues, TypeOK
  <2> QED BY <1>n, <2>1, <2>2, BudgetKept DEF Queued
<1>9. ASSUME NEW w \in Workers, PublishRetry(w) PROVE BudgetInv'
  <2> DEFINE c == Copy(msg[w], msg[w].attempt + 1, msg[w].manual)
  <2>1. /\ c.attempt = msg[w].attempt + 1 /\ c.manual = msg[w].manual
        /\ c.items = msg[w].items /\ c.kind = msg[w].kind
    BY DEF Copy
  <2>2. msg[w].attempt < MaxRetries /\ msg[w].attempt \in Nat /\ MaxRetries \in Nat
    BY <1>9, MessageType, BoundAssumption DEF PublishRetry, Decide
  <2>3. \A k \in Nat : k < msg[w].attempt + 1 => k < msg[w].attempt \/ k = msg[w].attempt
    BY <2>2
  <2>4. pc[w] = "failed"
    BY <1>9 DEF PublishRetry
  <2>5. msg[w].attempt + 1 <= MaxRetries
    BY <2>2
  <2>6. Budgeted(c, failed)
    <3> HIDE DEF c
    <3> QED BY <1>n, <1>q, <2>1, <2>3, <2>4, <2>5 DEF Budgeted
  <2>7. /\ failed' = failed /\ dlq' = dlq /\ records' = records /\ tasksQ' = tasksQ
        /\ retryQ' = retryQ \cup {c} /\ pc'[w] = "retried" /\ msg' = msg
        /\ \A v \in Workers \ {w} : pc'[v] = pc[v]
    BY <1>9 DEF PublishRetry, Goto, history, TypeOK
  <2> HIDE DEF c
  <2> QED BY <1>n, <2>6, <2>7, BudgetKept DEF Queued
<1>10. ASSUME NEW w \in Workers, PublishDeadLetter(w) PROVE BudgetInv'
  <2> DEFINE c == Copy(msg[w], msg[w].attempt, msg[w].manual)
  <2>1. /\ c.attempt = msg[w].attempt /\ c.manual = msg[w].manual
        /\ c.items = msg[w].items /\ c.kind = msg[w].kind
    BY DEF Copy
  <2> HIDE DEF c
  <2>2. Budgeted(c, failed)
    BY <1>n, <2>1 DEF Budgeted
  <2>3. Exhausted(c, failed)
    <3>1. CASE pc[w] = "bury"
      BY <2>1, <3>1 DEF BudgetInv, Exhausted
    <3>2. CASE pc[w] = "failed"
      <4>1. ~(msg[w].attempt < MaxRetries)
        BY <1>10, <3>2, BoundAssumption DEF PublishDeadLetter, Decide
      <4>2. msg[w].attempt = MaxRetries
        BY <4>1, <1>n, MessageType, BoundAssumption DEF Budgeted
      <4>3. \A k \in 0 .. MaxRetries : k \in Nat /\ (k < MaxRetries \/ k = MaxRetries)
        BY BoundAssumption
      <4> QED BY <1>n, <1>q, <2>1, <3>2, <4>2, <4>3 DEF Budgeted, Exhausted
    <3> QED BY <1>10, <3>1, <3>2 DEF PublishDeadLetter
  <2>4. /\ failed' = failed /\ records' = records /\ tasksQ' = tasksQ /\ retryQ' = retryQ
        /\ dlq' = dlq \cup {c} /\ pc'[w] = "buried" /\ msg' = msg
        /\ \A v \in Workers \ {w} : pc'[v] = pc[v]
    BY <1>10 DEF PublishDeadLetter, Goto, history, TypeOK, c
  <2>5. \A m \in Queued' : Budgeted(m, failed)
    BY <2>2, <2>4 DEF BudgetInv, Queued
  <2>6. \A v \in Workers : pc'[v] = "buried" => \E m \in dlq' : m.items = msg[v].items
    BY <2>1, <2>4 DEF BudgetInv
  <2>7. RecordHasMessage'
    BY <2>4 DEF BudgetInv, RecordHasMessage
  <2> QED BY <2>3, <2>4, <2>5, <2>6, <2>7 DEF BudgetInv
<1>11. ASSUME NEW w \in Workers, PersistDLQRecord(w) PROVE BudgetInv'
  <2>1. /\ failed' = failed /\ Queued' = Queued /\ dlq' = dlq /\ msg' = msg
        /\ records' \subseteq records \cup msg[w].items /\ pc[w] = "buried" /\ pc'[w] = "persisted"
        /\ \A v \in Workers \ {w} : pc'[v] = pc[v]
    BY <1>11 DEF PersistDLQRecord, Goto, queues, history, TypeOK, Queued
  <2>2. RecordHasMessage'
    BY <2>1 DEF BudgetInv, RecordHasMessage
  <2> QED BY <2>1, <2>2 DEF BudgetInv
<1>12. ASSUME NEW w \in Workers, Parse(w) PROVE KeepsBudget(w)
  BY <1>12 DEF Parse, Goto, queues, history, TypeOK, KeepsBudget
<1>13. ASSUME NEW w \in Workers, RejectUnusable(w) PROVE KeepsBudget(w)
  BY <1>13 DEF RejectUnusable, Free, Goto, queues, history, TypeOK, KeepsBudget
<1>14. ASSUME NEW w \in Workers, AckBatch(w) PROVE KeepsBudget(w)
  BY <1>14 DEF AckBatch, Free, Goto, queues, history, TypeOK, KeepsBudget
<1>15. ASSUME NEW w \in Workers, AcquireLease(w) PROVE KeepsBudget(w)
  BY <1>15 DEF AcquireLease, Goto, queues, history, TypeOK, KeepsBudget
<1>16. ASSUME NEW w \in Workers, LeaseConflict(w) PROVE KeepsBudget(w)
  BY <1>16 DEF LeaseConflict, Free, Goto, history, TypeOK, KeepsBudget
<1>17. ASSUME NEW w \in Workers, HandlerReturns(w) PROVE KeepsBudget(w)
  BY <1>17 DEF HandlerReturns, Leave, Proceed, InLease, Free, Goto, queues, history,
     TypeOK, KeepsBudget
<1>18. ASSUME NEW w \in Workers, HandlerAsksManualRetry(w) PROVE KeepsBudget(w)
  BY <1>18 DEF HandlerAsksManualRetry, Goto, queues, history, TypeOK, KeepsBudget
<1>19. ASSUME NEW w \in Workers, RejectFailed(w) PROVE KeepsBudget(w)
  BY <1>19 DEF RejectFailed, Leave, Proceed, InLease, Free, Goto, history, TypeOK,
     KeepsBudget
<1>20. ASSUME NEW w \in Workers, AckRelocated(w) PROVE KeepsBudget(w)
  BY <1>20 DEF AckRelocated, Leave, Proceed, InLease, Free, Goto, queues, history,
     TypeOK, KeepsBudget
<1>21. ASSUME NEW w \in Workers, ReleaseRead(w) PROVE KeepsBudget(w)
  BY <1>21 DEF ReleaseRead, Proceed, Free, Goto, queues, history, TypeOK, KeepsBudget
<1>22. ASSUME NEW w \in Workers, ReleaseDelete(w) PROVE KeepsBudget(w)
  BY <1>22 DEF ReleaseDelete, Proceed, Free, Goto, queues, history, TypeOK, KeepsBudget
<1>23. ASSUME NEW w \in Workers, AckProcessed(w) PROVE KeepsBudget(w)
  BY <1>23 DEF AckProcessed, Free, Goto, queues, history, TypeOK, KeepsBudget
<1>24. ASSUME NEW w \in Workers, StaleDelivery(w) PROVE KeepsBudget(w)
  BY <1>24 DEF StaleDelivery, Leave, Proceed, InLease, Free, Goto, queues, history,
     TypeOK, KeepsBudget
<1>25. ASSUME NEW w \in Workers, CloseChannel(w) PROVE KeepsBudget(w)
  BY <1>25 DEF CloseChannel, Free, Goto, Requeued, history, TypeOK, KeepsBudget
<1>26. ASSUME NEW w \in Workers, Interrupt(w) PROVE KeepsBudget(w)
  BY <1>26 DEF Interrupt, Leave, Proceed, InLease, Free, Goto, queues, Fault, history,
     TypeOK, KeepsBudget
<1>27. ASSUME NEW w \in Workers, ReleaseRaises(w) PROVE KeepsBudget(w)
  BY <1>27 DEF ReleaseRaises, Proceed, Free, Goto, queues, Fault, history, TypeOK,
     KeepsBudget
<1>28. ASSUME NEW w \in Workers, AcquireRaises(w) PROVE KeepsBudget(w)
  BY <1>28 DEF AcquireRaises, Proceed, Free, Goto, queues, Fault, history, TypeOK,
     KeepsBudget
<1>29. ASSUME NEW w \in Workers, Crash(w) PROVE KeepsBudget(w)
  BY <1>29 DEF Crash, Free, Goto, Requeued, Fault, history, TypeOK, KeepsBudget
<1>30. ASSUME NEW w \in Workers, LoseChannel(w) PROVE KeepsBudget(w)
  BY <1>30 DEF LoseChannel, Fault, history, TypeOK, KeepsBudget, BudgetInv
<1> QED
  BY <1>b, <1>1, <1>2, <1>3, <1>4, <1>5, <1>6, <1>7, <1>8, <1>9, <1>10, <1>11, <1>12,
     <1>13, <1>14, <1>15, <1>16, <1>17, <1>18, <1>19, <1>20, <1>21, <1>22, <1>23, <1>24,
     <1>25, <1>26, <1>27, <1>28, <1>29, <1>30 DEF Next, WorkerStep, FaultStep

(* A task is dead-lettered only after its whole retry budget, and its      *)
(* record is written after the message, for any retries and faults.        *)
THEOREM DeadLettersSound == Spec => []DeadLetterSound
<1>1. BudgetInv => DeadLetterSound
  BY DEF BudgetInv, DeadLetterSound, DeadLetterExhausted, Budgeted, Exhausted
<1>2. TypeInv <=> TypeOK /\ Shape
  BY DEF TypeInv
<1> QED
  BY InitType, NextTypeOK, NextShape, InitBudget, NextBudget, <1>1, <1>2, PTL DEF Spec

-----------------------------------------------------------------------------
(* The lease.                                                              *)

(* InLease as a function of the worker's state.                            *)
Leased(p, m) ==
    /\ LeaseEnabled
    /\ m.kind = "task"
    /\ p \in {"handler", "manual", "failed", "retried", "buried", "persisted",
              "release", "delete"}

(* The lease steps happen only with a lease, and what is buried unparsed   *)
(* is no task; the holder of a lease that did not expire under it owns the *)
(* key, alone.                                                             *)
LeaseInv ==
    /\ \A w \in Workers : pc[w] \in {"acquire", "release", "delete"} => LeaseEnabled
    /\ \A w \in Workers : pc[w] = "bury" => msg[w].kind # "task"
    /\ \A w \in Workers : \A t \in Tasks \ late :
          Leased(pc[w], msg[w]) /\ msg[w].items = {t} => lease[t] = Owner[w]
    /\ \A v, w \in Workers : \A t \in Tasks \ late :
          Leased(pc[v], msg[v]) /\ Leased(pc[w], msg[w]) /\ msg[v].items = {t} /\ msg[w].items = {t}
              => v = w

(* No lease is held at first.                                              *)
LEMMA InitLease == Init => LeaseInv
BY DEF Init, LeaseInv, Leased

(* A step of worker w that takes and gives no key, and stays inside the    *)
(* lease or leaves it.                                                     *)
KeepsLease(w) ==
    /\ lease' = lease /\ late' = late
    /\ Leased(pc'[w], msg'[w]) => Leased(pc[w], msg[w]) /\ msg'[w] = msg[w]
    /\ pc'[w] \in {"acquire", "release", "delete"} => LeaseEnabled
    /\ pc'[w] = "bury" => msg'[w].kind # "task"
    /\ \A v \in Workers \ {w} : pc'[v] = pc[v] /\ msg'[v] = msg[v]

(* Such a step keeps the invariant.                                        *)
LEMMA LeaseKept ==
    ASSUME LeaseInv, NEW w \in Workers, KeepsLease(w)
    PROVE  LeaseInv'
<1>1. \A v \in Workers : Leased(pc'[v], msg'[v]) => Leased(pc[v], msg[v]) /\ msg'[v] = msg[v]
  BY DEF KeepsLease
<1> QED BY <1>1 DEF LeaseInv, KeepsLease

(* Every step keeps the lease with its only holder.                        *)
LEMMA NextLease == TypeInv /\ LeaseInv /\ [Next]_vars => LeaseInv'
<1> SUFFICES ASSUME TypeInv, LeaseInv, [Next]_vars PROVE LeaseInv'
  OBVIOUS
<1> USE DEF TypeInv
<1>t. \A w \in Workers : msg[w].kind = "task" => TaskOf(w) \in Tasks /\ msg[w].items = {TaskOf(w)}
  BY TaskOfType
<1>1. ASSUME NEW s \in Submissions, Submit(s) PROVE LeaseInv'
  BY <1>1 DEF Submit, LeaseInv, history
<1>2. ASSUME NEW w \in Workers, NEW m \in tasksQ, Deliver(w, m) PROVE KeepsLease(w)
  BY <1>2 DEF Deliver, Goto, history, TypeOK, Leased, KeepsLease
<1>3. ASSUME NEW m \in retryQ, RetryDelayElapsed(m) PROVE LeaseInv'
  BY <1>3 DEF RetryDelayElapsed, LeaseInv, history
<1>4. ASSUME NEW t \in Tasks, ExpireOrphan(t) PROVE LeaseInv'
  <2>1. \A w \in Workers : Leased(pc[w], msg[w]) /\ msg[w].items = {t} => t \in late
    BY <1>4 DEF ExpireOrphan, Heartbeated, InLease, Leased, LeaseInv
  <2> QED BY <1>4, <2>1 DEF ExpireOrphan, LeaseInv, history, TypeOK
<1>5. ASSUME NEW t \in Tasks, ExpireUnderOwner(t) PROVE LeaseInv'
  BY <1>5 DEF ExpireUnderOwner, LeaseInv, TypeOK
<1>6. CASE UNCHANGED vars
  BY <1>6 DEF vars, LeaseInv, history
<1>7. ASSUME NEW w \in Workers, NEW t \in Tasks, FanOut(w, t) PROVE LeaseInv'
  BY <1>7 DEF FanOut, LeaseInv, history
<1>8. ASSUME NEW w \in Workers, AcquireLease(w) \/ AcquireRaises(w) PROVE LeaseInv'
  <2>1. /\ pc[w] = "acquire" /\ lease[TaskOf(w)] = NoOwner /\ late' = late /\ msg' = msg
        /\ lease' = [lease EXCEPT ![TaskOf(w)] = Owner[w]] /\ pc'[w] \in {"handler", "raised"}
        /\ \A v \in Workers \ {w} : pc'[v] = pc[v]
    BY <1>8 DEF AcquireLease, AcquireRaises, Proceed, Goto, history, TypeOK
  <2>2. TaskOf(w) \in Tasks /\ msg[w].items = {TaskOf(w)}
    BY <1>t, <2>1 DEF Shape
  <2>3. \A v \in Workers : Leased(pc[v], msg[v]) /\ msg[v].items = {TaskOf(w)} => TaskOf(w) \in late
    BY <2>1, <2>2, OwnerAssumption DEF LeaseInv
  <2>4. \A u \in Tasks : lease'[u] = IF u = TaskOf(w) THEN Owner[w] ELSE lease[u]
    BY <2>1, <2>2 DEF TypeOK
  <2>5. ASSUME NEW v \in Workers, NEW u \in Tasks \ late', Leased(pc'[v], msg'[v]), msg'[v].items = {u}
        PROVE  /\ lease'[u] = Owner[v]
               /\ u = TaskOf(w) => v = w
               /\ v # w => Leased(pc[v], msg[v]) /\ msg[v].items = {u}
    <3>1. CASE v = w
      BY <2>1, <2>2, <2>4, <2>5, <3>1
    <3>2. CASE v # w
      BY <2>1, <2>3, <2>4, <2>5, <3>2 DEF LeaseInv
    <3> QED BY <3>1, <3>2
  <2>6. \A v \in Workers : \A u \in Tasks \ late' :
           Leased(pc'[v], msg'[v]) /\ msg'[v].items = {u} => lease'[u] = Owner[v]
    BY <2>5
  <2>7. ASSUME NEW v \in Workers, NEW x \in Workers, NEW u \in Tasks \ late',
               Leased(pc'[v], msg'[v]), Leased(pc'[x], msg'[x]), msg'[v].items = {u}, msg'[x].items = {u}
        PROVE  v = x
    <3>1. CASE u = TaskOf(w)
      BY <2>5, <2>7, <3>1
    <3>2. CASE u # TaskOf(w)
      <4>1. v # w /\ x # w
        BY <2>1, <2>2, <2>7, <3>2
      <4> QED BY <2>1, <2>5, <2>7, <4>1 DEF LeaseInv
    <3> QED BY <3>1, <3>2
  <2>8. \A v \in Workers : /\ pc'[v] \in {"acquire", "release", "delete"} => LeaseEnabled
                           /\ pc'[v] = "bury" => msg'[v].kind # "task"
    BY <2>1 DEF LeaseInv
  <2> QED BY <2>6, <2>7, <2>8 DEF LeaseInv
<1>9. ASSUME NEW w \in Workers, ReleaseDelete(w) PROVE LeaseInv'
  <2>1. /\ pc[w] = "delete" /\ late' = late /\ lease' = [lease EXCEPT ![TaskOf(w)] = NoOwner]
        /\ pc'[w] \in {"idle", "ack", "raised"}
        /\ \A v \in Workers \ {w} : pc'[v] = pc[v] /\ msg'[v] = msg[v]
    BY <1>9 DEF ReleaseDelete, Proceed, Free, Goto, history, TypeOK
  <2>2. TaskOf(w) \in Tasks /\ msg[w].items = {TaskOf(w)} /\ Leased(pc[w], msg[w])
    BY <1>t, <2>1 DEF Shape, LeaseInv, Leased
  <2>3. \A v \in Workers \ {w} : Leased(pc[v], msg[v]) /\ msg[v].items = {TaskOf(w)} => TaskOf(w) \in late
    BY <2>1, <2>2 DEF LeaseInv
  <2>4. \A u \in Tasks : u # TaskOf(w) => lease'[u] = lease[u]
    BY <2>1, <2>2 DEF TypeOK
  <2>5. ~Leased(pc'[w], msg'[w])
    BY <2>1 DEF Leased
  <2> QED BY <2>1, <2>3, <2>4, <2>5 DEF LeaseInv
<1>10. ASSUME NEW w \in Workers, Parse(w) PROVE KeepsLease(w)
  BY <1>10 DEF Parse, Goto, queues, history, TypeOK, Leased, LeaseInv, KeepsLease
<1>11. ASSUME NEW w \in Workers, RejectUnusable(w) PROVE KeepsLease(w)
  BY <1>11 DEF RejectUnusable, Free, Goto, queues, history, TypeOK, Leased, LeaseInv,
     KeepsLease
<1>12. ASSUME NEW w \in Workers, AckBatch(w) PROVE KeepsLease(w)
  BY <1>12 DEF AckBatch, Free, Goto, queues, history, TypeOK, Leased, LeaseInv,
     KeepsLease
<1>13. ASSUME NEW w \in Workers, LeaseConflict(w) PROVE KeepsLease(w)
  BY <1>13 DEF LeaseConflict, Free, Goto, history, TypeOK, Leased, LeaseInv, KeepsLease
<1>14. ASSUME NEW w \in Workers, HandlerReturns(w) PROVE KeepsLease(w)
  BY <1>14 DEF HandlerReturns, Leave, Proceed, InLease, Free, Goto, queues, history,
     TypeOK, Leased, LeaseInv, KeepsLease
<1>15. ASSUME NEW w \in Workers, HandlerAsksManualRetry(w) PROVE KeepsLease(w)
  BY <1>15 DEF HandlerAsksManualRetry, Goto, queues, history, TypeOK, Leased, LeaseInv,
     KeepsLease
<1>16. ASSUME NEW w \in Workers, PublishManualRetry(w) PROVE KeepsLease(w)
  BY <1>16 DEF PublishManualRetry, Leave, Proceed, InLease, Free, Goto, Copy, history,
     TypeOK, Leased, LeaseInv, KeepsLease
<1>17. ASSUME NEW w \in Workers, HandlerRaises(w) PROVE KeepsLease(w)
  BY <1>17 DEF HandlerRaises, Goto, queues, history, TypeOK, Leased, LeaseInv,
     KeepsLease
<1>18. ASSUME NEW w \in Workers, RejectFailed(w) PROVE KeepsLease(w)
  BY <1>18 DEF RejectFailed, Leave, Proceed, InLease, Free, Goto, history, TypeOK,
     Leased, LeaseInv, KeepsLease
<1>19. ASSUME NEW w \in Workers, PublishRetry(w) PROVE KeepsLease(w)
  BY <1>19 DEF PublishRetry, Goto, Copy, history, TypeOK, Leased, LeaseInv, KeepsLease
<1>20. ASSUME NEW w \in Workers, PublishDeadLetter(w) PROVE KeepsLease(w)
  BY <1>20 DEF PublishDeadLetter, Goto, Copy, history, TypeOK, Leased, LeaseInv,
     KeepsLease
<1>21. ASSUME NEW w \in Workers, PersistDLQRecord(w) PROVE KeepsLease(w)
  BY <1>21 DEF PersistDLQRecord, Goto, queues, history, TypeOK, Leased, LeaseInv,
     KeepsLease
<1>22. ASSUME NEW w \in Workers, AckRelocated(w) PROVE KeepsLease(w)
  BY <1>22 DEF AckRelocated, Leave, Proceed, InLease, Free, Goto, queues, history,
     TypeOK, Leased, LeaseInv, KeepsLease
<1>23. ASSUME NEW w \in Workers, ReleaseRead(w) PROVE KeepsLease(w)
  BY <1>23 DEF ReleaseRead, Proceed, Free, Goto, queues, history, TypeOK, Leased,
     LeaseInv, KeepsLease
<1>24. ASSUME NEW w \in Workers, AckProcessed(w) PROVE KeepsLease(w)
  BY <1>24 DEF AckProcessed, Free, Goto, queues, history, TypeOK, Leased, LeaseInv,
     KeepsLease
<1>25. ASSUME NEW w \in Workers, StaleDelivery(w) PROVE KeepsLease(w)
  BY <1>25 DEF StaleDelivery, Leave, Proceed, InLease, Free, Goto, queues, history,
     TypeOK, Leased, LeaseInv, KeepsLease
<1>26. ASSUME NEW w \in Workers, CloseChannel(w) PROVE KeepsLease(w)
  BY <1>26 DEF CloseChannel, Free, Goto, Requeued, history, TypeOK, Leased, LeaseInv,
     KeepsLease
<1>27. ASSUME NEW w \in Workers, Interrupt(w) PROVE KeepsLease(w)
  BY <1>27 DEF Interrupt, Leave, Proceed, InLease, Free, Goto, queues, Fault, history,
     TypeOK, Leased, LeaseInv, KeepsLease
<1>28. ASSUME NEW w \in Workers, ReleaseRaises(w) PROVE KeepsLease(w)
  BY <1>28 DEF ReleaseRaises, Proceed, Free, Goto, queues, Fault, history, TypeOK,
     Leased, LeaseInv, KeepsLease
<1>29. ASSUME NEW w \in Workers, Crash(w) PROVE KeepsLease(w)
  BY <1>29 DEF Crash, Free, Goto, Requeued, Fault, history, TypeOK, Leased, LeaseInv,
     KeepsLease
<1>30. ASSUME NEW w \in Workers, LoseChannel(w) PROVE KeepsLease(w)
  BY <1>30 DEF LoseChannel, Fault, history, TypeOK, Leased, LeaseInv, KeepsLease
<1> QED
  BY LeaseKept, <1>1, <1>2, <1>3, <1>4, <1>5, <1>6, <1>7, <1>8, <1>9, <1>10, <1>11,
     <1>12, <1>13, <1>14, <1>15, <1>16, <1>17, <1>18, <1>19, <1>20, <1>21, <1>22, <1>23,
     <1>24, <1>25, <1>26, <1>27, <1>28, <1>29, <1>30 DEF Next, WorkerStep, FaultStep

(* The lease keeps two workers from handling one task at a time, even      *)
(* after a redelivery and with owner ids that workers share, as long as it *)
(* never expired under its holder.                                         *)
THEOREM LeasesExclude == Spec => []LeaseExcludes
<1>1. TypeInv /\ LeaseInv => LeaseExcludes
  <2> SUFFICES ASSUME TypeInv, LeaseInv, NEW v \in Workers, NEW w \in Workers,
                      InLease(v), InLease(w), msg[v].items = msg[w].items, v # w
               PROVE  msg[v].items \subseteq late
    BY DEF LeaseExcludes
  <2>1. TaskOf(v) \in Tasks /\ msg[v].items = {TaskOf(v)}
    BY TaskOfType DEF InLease, TypeInv
  <2> QED BY <2>1 DEF LeaseInv, InLease, Leased
<1>2. TypeInv <=> TypeOK /\ Shape
  BY DEF TypeInv
<1> QED
  BY InitType, NextTypeOK, NextShape, InitLease, NextLease, <1>1, <1>2, PTL DEF Spec

-----------------------------------------------------------------------------
(* Single copies.                                                          *)

(* Producers submit every task once: task ids are fresh.                   *)
DistinctTasks == \A r, s \in Submissions : r # s => r.items \cap s.items = {}

(* Tasks that were completed or dropped.                                   *)
Done == completed \cup dropped

(* What each worker carries.                                               *)
Load == [w \in Workers |-> Carried(w)]

(* Task t is in one place at most: a message of Q, the load C[w] of one    *)
(* worker, or the finished tasks D.                                        *)
Sole(t, Q, C, D) ==
    /\ \A m, n \in Q : t \in m.items /\ t \in n.items => m = n
    /\ \A v, w \in Workers : t \in C[v] /\ t \in C[w] => v = w
    /\ \A m \in Q : \A w \in Workers : ~(t \in m.items /\ t \in C[w])
    /\ t \in D => (\A m \in Q : t \notin m.items) /\ (\A w \in Workers : t \notin C[w])

(* Without faults a busy worker has its delivery until it acks or rejects  *)
(* it, and nothing was raised.                                             *)
Attached ==
    /\ \A w \in Workers : pc[w] \notin {"idle", "release", "delete"} => held[w]
    /\ \A w \in Workers : pc[w] \in {"release", "delete"} /\ after[w] = "ack" => held[w]
    /\ \A w \in Workers : pc[w] # "raised" /\ after[w] # "raise"

(* No message is in two places: the broker's queues are disjoint, and a    *)
(* held delivery is in none and with one worker.                           *)
Placed ==
    /\ \A m \in Queued : m.id <= lastId
    /\ \A w \in Workers : msg[w].id <= lastId
    /\ tasksQ \cap retryQ = {} /\ tasksQ \cap dlq = {} /\ retryQ \cap dlq = {}
    /\ \A w \in Workers : held[w] => msg[w] \notin Queued
    /\ \A v, w \in Workers : held[v] /\ held[w] /\ msg[v] = msg[w] => v = w

(* What has an outcome or a message was submitted.                         *)
Known ==
    /\ \A m \in Queued : m.items \subseteq Submitted
    /\ \A w \in Workers : msg[w].items \subseteq Submitted
    /\ Done \subseteq Submitted

(* The inductive invariant of single copies.                               *)
SingleInv ==
    /\ Known
    /\ faults = 0 => Attached /\ Placed /\ \A t \in Tasks : Sole(t, Queued, Load, Done)

(* Nothing is anywhere at first.                                           *)
LEMMA InitSingle == Init => SingleInv
<1> SUFFICES ASSUME Init PROVE SingleInv
  OBVIOUS
<1>1. NoMessage.id = 0 /\ NoMessage.items = {}
  BY DEF NoMessage
<1>2. Queued = {} /\ Done = {} /\ Load = [w \in Workers |-> {}]
  BY DEF Init, Queued, Done, Load, Carried
<1>3. Known
  BY <1>1, <1>2 DEF Init, Known
<1>4. Attached
  BY DEF Init, Attached
<1>5. Placed
  BY <1>1, <1>2 DEF Init, Placed
<1>6. \A t \in Tasks : Sole(t, Queued, Load, Done)
  BY <1>2 DEF Sole
<1> QED BY <1>3, <1>4, <1>5, <1>6 DEF SingleInv

(* What a step of worker w does to its message and its load: it gives up   *)
(* the items of the messages N it publishes or returns, and of the tasks S *)
(* it finishes.                                                            *)
GivesUp(w, N, S) ==
    /\ unsent' = unsent
    /\ Queued' = Queued \cup N
    /\ Done' = Done \cup S
    /\ \A v \in Workers \ {w} : /\ pc'[v] = pc[v] /\ msg'[v] = msg[v] /\ held'[v] = held[v]
                                /\ todo'[v] = todo[v] /\ after'[v] = after[v]
    /\ msg'[w] \in {msg[w], NoMessage}
    /\ \A m \in N : m.items \subseteq Carried(w) /\ m.items \cap Load'[w] = {}
    /\ S \subseteq Carried(w) /\ S \cap Load'[w] = {}
    /\ Load'[w] \subseteq Carried(w)
    /\ \A m, n \in N : m = n
    /\ N = {} \/ S = {}

(* Such a step keeps every task in one place.                              *)
LEMMA GivesUpSole ==
    ASSUME NEW w \in Workers, NEW N, NEW S, GivesUp(w, N, S),
           \A t \in Tasks : Sole(t, Queued, Load, Done)
    PROVE  \A t \in Tasks : Sole(t, Queued', Load', Done')
<1>1. \A v \in Workers : Load[v] = Carried(v)
  BY DEF Load
<1>2. \A v \in Workers \ {w} : Load'[v] = Load[v]
  BY DEF Load, GivesUp, Carried
<1> SUFFICES ASSUME NEW t \in Tasks PROVE Sole(t, Queued', Load', Done')
  OBVIOUS
<1>3. Sole(t, Queued, Load, Done)
  OBVIOUS
<1>4. \A m \in N : t \in m.items => t \in Load[w] /\ t \notin Load'[w]
  BY <1>1 DEF GivesUp
<1>5. t \in S => t \in Load[w] /\ t \notin Load'[w]
  BY <1>1 DEF GivesUp
<1>6. t \in Load'[w] => t \in Load[w]
  BY <1>1 DEF GivesUp
<1>7. Queued' = Queued \cup N /\ Done' = Done \cup S /\ (\A m, n \in N : m = n) /\ (N = {} \/ S = {})
  BY DEF GivesUp
<1> QED BY <1>2, <1>3, <1>4, <1>5, <1>6, <1>7 DEF Sole

(* Every step without a fault of a worker is such a step.                  *)
LEMMA WorkerGivesUp ==
    ASSUME TypeInv, OpenInv, Attached, NEW w \in Workers, WorkerStep(w)
    PROVE  \E N, S : GivesUp(w, N, S)
<1> USE DEF TypeInv
<1>l. Load'[w] = Carried(w)'
  BY DEF Load
<1>1. ASSUME Parse(w) PROVE GivesUp(w, {}, {})
  BY <1>l, <1>1 DEF GivesUp, Parse, Goto, queues, history, Queued, Done, Carried,
     NoMessage, TypeOK, Attached, Shape, OpenInv
<1>2. ASSUME RejectUnusable(w) PROVE GivesUp(w, {}, msg[w].items)
  BY <1>l, <1>2 DEF GivesUp, RejectUnusable, Free, Goto, queues, history, Queued, Done,
     Carried, NoMessage, TypeOK, Attached, Shape, OpenInv
<1>3. ASSUME AckBatch(w) PROVE GivesUp(w, {}, {})
  BY <1>l, <1>3 DEF GivesUp, AckBatch, Free, Goto, queues, history, Queued, Done,
     Carried, NoMessage, TypeOK, Attached, Shape, OpenInv
<1>4. ASSUME AcquireLease(w) PROVE GivesUp(w, {}, {})
  BY <1>l, <1>4 DEF GivesUp, AcquireLease, Goto, queues, history, Queued, Done, Carried,
     NoMessage, TypeOK, Attached, Shape, OpenInv
<1>5. ASSUME LeaseConflict(w) PROVE GivesUp(w, {msg[w]}, {})
  BY <1>l, <1>5 DEF GivesUp, LeaseConflict, Free, Goto, history, Queued, Done, Carried,
     NoMessage, TypeOK, Attached, Shape, OpenInv
<1>6. ASSUME HandlerReturns(w) PROVE GivesUp(w, {}, msg[w].items)
  BY <1>l, <1>6 DEF GivesUp, HandlerReturns, Leave, Proceed, InLease, Free, Goto,
     queues, history, Queued, Done, Carried, NoMessage, TypeOK, Attached, Shape, OpenInv
<1>7. ASSUME HandlerAsksManualRetry(w) PROVE GivesUp(w, {}, {})
  BY <1>l, <1>7 DEF GivesUp, HandlerAsksManualRetry, Goto, queues, history, Queued,
     Done, Carried, NoMessage, TypeOK, Attached, Shape, OpenInv
<1>8. ASSUME PublishManualRetry(w) PROVE GivesUp(w, {Copy(msg[w], 0, msg[w].manual + 1)}, {})
  BY <1>l, <1>8 DEF GivesUp, PublishManualRetry, Leave, Proceed, InLease, Free, Goto,
     Copy, history, Queued, Done, Carried, NoMessage, TypeOK, Attached, Shape, OpenInv
<1>9. ASSUME HandlerRaises(w) PROVE GivesUp(w, {}, {})
  BY <1>l, <1>9 DEF GivesUp, HandlerRaises, Goto, queues, history, Queued, Done,
     Carried, NoMessage, TypeOK, Attached, Shape, OpenInv
<1>10. ASSUME PublishRetry(w) PROVE GivesUp(w, {Copy(msg[w], msg[w].attempt + 1, msg[w].manual)}, {})
  BY <1>l, <1>10 DEF GivesUp, PublishRetry, Goto, Copy, history, Queued, Done, Carried,
     NoMessage, TypeOK, Attached, Shape, OpenInv
<1>11. ASSUME PublishDeadLetter(w) PROVE GivesUp(w, {Copy(msg[w], msg[w].attempt, msg[w].manual)}, {})
  BY <1>l, <1>11 DEF GivesUp, PublishDeadLetter, Goto, Copy, history, Queued, Done,
     Carried, NoMessage, TypeOK, Attached, Shape, OpenInv
<1>12. ASSUME PersistDLQRecord(w) PROVE GivesUp(w, {}, {})
  BY <1>l, <1>12 DEF GivesUp, PersistDLQRecord, Goto, queues, history, Queued, Done,
     Carried, NoMessage, TypeOK, Attached, Shape, OpenInv
<1>13. ASSUME AckRelocated(w) PROVE GivesUp(w, {}, {})
  BY <1>l, <1>13 DEF GivesUp, AckRelocated, Leave, Proceed, InLease, Free, Goto, queues,
     history, Queued, Done, Carried, NoMessage, TypeOK, Attached, Shape, OpenInv
<1>14. ASSUME ReleaseRead(w) PROVE GivesUp(w, {}, {})
  BY <1>l, <1>14 DEF GivesUp, ReleaseRead, Proceed, Free, Goto, queues, history, Queued,
     Done, Carried, NoMessage, TypeOK, Attached, Shape, OpenInv
<1>15. ASSUME ReleaseDelete(w) PROVE GivesUp(w, {}, {})
  BY <1>l, <1>15 DEF GivesUp, ReleaseDelete, Proceed, Free, Goto, queues, history,
     Queued, Done, Carried, NoMessage, TypeOK, Attached, Shape, OpenInv
<1>16. ASSUME AckProcessed(w) PROVE GivesUp(w, {}, {})
  BY <1>l, <1>16 DEF GivesUp, AckProcessed, Free, Goto, queues, history, Queued, Done,
     Carried, NoMessage, TypeOK, Attached, Shape, OpenInv
<1>17. ASSUME StaleDelivery(w) PROVE GivesUp(w, {}, {})
  BY <1>17 DEF StaleDelivery, Attached
<1>18. ASSUME CloseChannel(w) PROVE GivesUp(w, {}, {})
  BY <1>18 DEF CloseChannel, Attached
<1>19. ASSUME NEW t \in Tasks, FanOut(w, t) PROVE GivesUp(w, {Copy([kind |-> "task", items |-> {t}], 0, 0)}, {})
  BY <1>l, <1>19 DEF GivesUp, FanOut, Copy, history, Queued, Done, Carried, TypeOK, Attached
<1>20. ASSUME RejectFailed(w), FailureAction[w] = "requeue" PROVE GivesUp(w, {msg[w]}, {})
  BY <1>l, <1>20 DEF GivesUp, RejectFailed, Leave, Proceed, InLease, Free, Goto, Queued,
     Done, Carried, NoMessage, TypeOK
<1>21. ASSUME RejectFailed(w), FailureAction[w] # "requeue" PROVE GivesUp(w, {}, msg[w].items)
  BY <1>l, <1>21 DEF GivesUp, RejectFailed, Leave, Proceed, InLease, Free, Goto, Queued,
     Done, Carried, NoMessage, TypeOK
<1> QED
  BY <1>1, <1>2, <1>3, <1>4, <1>5, <1>6, <1>7, <1>8, <1>9, <1>10, <1>11, <1>12, <1>13,
     <1>14, <1>15, <1>16, <1>17, <1>18, <1>19, <1>20, <1>21 DEF WorkerStep

(* Without a fault every step of a worker keeps its delivery attached.     *)
LEMMA WorkerAttached ==
    ASSUME TypeInv, Attached, NEW w \in Workers, WorkerStep(w)
    PROVE  Attached'
<1> USE DEF TypeInv, TypeOK
<1>1. ASSUME Parse(w) PROVE Attached'
  BY <1>1 DEF Parse, Goto, queues, Attached
<1>2. ASSUME RejectUnusable(w) PROVE Attached'
  BY <1>2 DEF RejectUnusable, Free, Goto, queues, Attached
<1>3. ASSUME AckBatch(w) PROVE Attached'
  BY <1>3 DEF AckBatch, Free, Goto, queues, Attached
<1>4. ASSUME AcquireLease(w) PROVE Attached'
  BY <1>4 DEF AcquireLease, Goto, queues, Attached
<1>5. ASSUME LeaseConflict(w) PROVE Attached'
  BY <1>5 DEF LeaseConflict, Free, Goto, Attached
<1>6. ASSUME HandlerReturns(w) PROVE Attached'
  BY <1>6 DEF HandlerReturns, Leave, Proceed, InLease, Free, Goto, queues, Attached
<1>7. ASSUME HandlerAsksManualRetry(w) PROVE Attached'
  BY <1>7 DEF HandlerAsksManualRetry, Goto, queues, Attached
<1>8. ASSUME PublishManualRetry(w) PROVE Attached'
  BY <1>8 DEF PublishManualRetry, Leave, Proceed, InLease, Free, Goto, Copy, Attached
<1>9. ASSUME HandlerRaises(w) PROVE Attached'
  BY <1>9 DEF HandlerRaises, Goto, queues, Attached
<1>10. ASSUME RejectFailed(w) PROVE Attached'
  BY <1>10 DEF RejectFailed, Leave, Proceed, InLease, Free, Goto, Attached
<1>11. ASSUME PublishRetry(w) PROVE Attached'
  BY <1>11 DEF PublishRetry, Goto, Copy, Attached
<1>12. ASSUME PublishDeadLetter(w) PROVE Attached'
  BY <1>12 DEF PublishDeadLetter, Goto, Copy, Attached
<1>13. ASSUME PersistDLQRecord(w) PROVE Attached'
  BY <1>13 DEF PersistDLQRecord, Goto, queues, Attached
<1>14. ASSUME AckRelocated(w) PROVE Attached'
  BY <1>14 DEF AckRelocated, Leave, Proceed, InLease, Free, Goto, queues, Attached
<1>15. ASSUME ReleaseRead(w) PROVE Attached'
  BY <1>15 DEF ReleaseRead, Proceed, Free, Goto, queues, Attached
<1>16. ASSUME ReleaseDelete(w) PROVE Attached'
  BY <1>16 DEF ReleaseDelete, Proceed, Free, Goto, queues, Attached
<1>17. ASSUME AckProcessed(w) PROVE Attached'
  BY <1>17 DEF AckProcessed, Free, Goto, queues, Attached
<1>18. ASSUME StaleDelivery(w) PROVE Attached'
  BY <1>18 DEF StaleDelivery, Leave, Proceed, InLease, Free, Goto, queues, Attached
<1>19. ASSUME CloseChannel(w) PROVE Attached'
  BY <1>19 DEF CloseChannel, Free, Goto, Requeued, Attached
<1>20. ASSUME NEW t \in Tasks, FanOut(w, t) PROVE Attached'
  BY <1>20 DEF FanOut, Attached
<1> QED
  BY <1>1, <1>2, <1>3, <1>4, <1>5, <1>6, <1>7, <1>8, <1>9, <1>10, <1>11, <1>12, <1>13,
     <1>14, <1>15, <1>16, <1>17, <1>18, <1>19, <1>20 DEF WorkerStep

(* Nor does such a step put a message in two places: a copy has a new id,  *)
(* and a message that returns to the queue is no longer held.              *)
LEMMA WorkerPlaced ==
    ASSUME TypeInv, Attached, Placed, NEW w \in Workers, WorkerStep(w)
    PROVE  Placed'
<1> USE DEF TypeInv
<1>i. /\ lastId \in Nat /\ NoMessage.id = 0
      /\ \A m \in Queued : m.id \in Nat /\ m.id <= lastId
      /\ \A v \in Workers : msg[v].id \in Nat /\ msg[v].id <= lastId
  BY DEF TypeOK, Message, Queued, Placed, NoMessage
<1>a. \A k \in Nat : k <= lastId => k <= lastId + 1 /\ k # lastId + 1
  BY <1>i
<1> DEFINE Others == \A v \in Workers \ {w} : msg'[v] = msg[v] /\ held'[v] = held[v]
           Mine == held'[w] => held[w] /\ msg'[w] = msg[w]
           Same == msg'[w] \in {msg[w], NoMessage}
<1>s. ASSUME Others, Mine, Same, lastId' = lastId, tasksQ' = tasksQ, retryQ' = retryQ, dlq' = dlq PROVE Placed'
  <2>1. Queued' = Queued
    BY <1>s DEF Queued
  <2> QED BY <1>i, <1>s, <2>1 DEF Placed
<1>r. ASSUME Others, Same, held[w], ~held'[w], lastId' = lastId, tasksQ' = tasksQ \cup {msg[w]}, retryQ' = retryQ, dlq' = dlq
      PROVE  Placed'
  <2>1. Queued' = Queued \cup {msg[w]} /\ msg[w] \notin Queued
    BY <1>r DEF Queued, Placed
  <2>2. tasksQ' \cap retryQ' = {} /\ tasksQ' \cap dlq' = {} /\ retryQ' \cap dlq' = {}
    BY <1>r, <2>1 DEF Placed, Queued
  <2> QED BY <1>i, <1>r, <2>1, <2>2 DEF Placed
<1>c. ASSUME Others, Mine, Same, NEW c, c.id = lastId + 1, lastId' = lastId + 1,
             \/ tasksQ' = tasksQ \cup {c} /\ retryQ' = retryQ /\ dlq' = dlq
             \/ tasksQ' = tasksQ /\ retryQ' = retryQ \cup {c} /\ dlq' = dlq
             \/ tasksQ' = tasksQ /\ retryQ' = retryQ /\ dlq' = dlq \cup {c}
      PROVE  Placed'
  <2>1. Queued' = Queued \cup {c} /\ c \notin Queued /\ \A v \in Workers : c # msg[v]
    BY <1>i, <1>a, <1>c DEF Queued
  <2>2. tasksQ' \cap retryQ' = {} /\ tasksQ' \cap dlq' = {} /\ retryQ' \cap dlq' = {}
    BY <1>c, <2>1 DEF Placed, Queued
  <2>3. (\A m \in Queued' : m.id <= lastId + 1) /\ (\A v \in Workers : msg'[v].id <= lastId + 1)
    BY <1>i, <1>a, <1>c, <2>1
  <2> QED BY <1>c, <2>1, <2>2, <2>3 DEF Placed
<1> HIDE DEF Others, Mine, Same
<1>1. ASSUME Parse(w) PROVE Placed'
  <2>1. Others /\ Mine /\ Same /\ lastId' = lastId
    BY <1>1 DEF Others, Mine, Same, Parse, Goto, queues, TypeOK
  <2> QED BY <1>1, <1>s, <2>1 DEF Parse, queues
<1>2. ASSUME RejectUnusable(w) PROVE Placed'
  <2>1. Others /\ Mine /\ Same /\ lastId' = lastId
    BY <1>2 DEF Others, Mine, Same, RejectUnusable, Free, Goto, queues, TypeOK
  <2> QED BY <1>2, <1>s, <2>1 DEF RejectUnusable, queues
<1>3. ASSUME AckBatch(w) PROVE Placed'
  <2>1. Others /\ Mine /\ Same /\ lastId' = lastId
    BY <1>3 DEF Others, Mine, Same, AckBatch, Free, Goto, queues, TypeOK
  <2> QED BY <1>3, <1>s, <2>1 DEF AckBatch, queues
<1>4. ASSUME AcquireLease(w) PROVE Placed'
  <2>1. Others /\ Mine /\ Same /\ lastId' = lastId
    BY <1>4 DEF Others, Mine, Same, AcquireLease, Goto, queues, TypeOK
  <2> QED BY <1>4, <1>s, <2>1 DEF AcquireLease, queues
<1>5. ASSUME LeaseConflict(w) PROVE Placed'
  <2>1. Others /\ Same /\ held[w] /\ ~held'[w] /\ lastId' = lastId
    BY <1>5 DEF Others, Mine, Same, LeaseConflict, Free, Goto, TypeOK
  <2> QED BY <1>5, <1>r, <2>1 DEF LeaseConflict
<1>6. ASSUME HandlerReturns(w) PROVE Placed'
  <2>1. Others /\ Mine /\ Same /\ lastId' = lastId
    BY <1>6 DEF Others, Mine, Same, HandlerReturns, Leave, Proceed, InLease, Free, Goto,
       queues, TypeOK
  <2> QED BY <1>6, <1>s, <2>1 DEF HandlerReturns, queues
<1>7. ASSUME HandlerAsksManualRetry(w) PROVE Placed'
  <2>1. Others /\ Mine /\ Same /\ lastId' = lastId
    BY <1>7 DEF Others, Mine, Same, HandlerAsksManualRetry, Goto, queues, TypeOK
  <2> QED BY <1>7, <1>s, <2>1 DEF HandlerAsksManualRetry, queues
<1>8. ASSUME PublishManualRetry(w) PROVE Placed'
  <2>1. Others /\ Mine /\ Same
    BY <1>8 DEF Others, Mine, Same, PublishManualRetry, Leave, Proceed, InLease, Free,
       Goto, Copy, TypeOK
  <2>2. Copy(msg[w], 0, msg[w].manual + 1).id = lastId + 1
    BY DEF Copy
  <2> QED BY <1>8, <1>c, <2>1, <2>2 DEF PublishManualRetry
<1>9. ASSUME HandlerRaises(w) PROVE Placed'
  <2>1. Others /\ Mine /\ Same /\ lastId' = lastId
    BY <1>9 DEF Others, Mine, Same, HandlerRaises, Goto, queues, TypeOK
  <2> QED BY <1>9, <1>s, <2>1 DEF HandlerRaises, queues
<1>10. ASSUME PublishRetry(w) PROVE Placed'
  <2>1. Others /\ Mine /\ Same
    BY <1>10 DEF Others, Mine, Same, PublishRetry, Goto, Copy, TypeOK
  <2>2. Copy(msg[w], msg[w].attempt + 1, msg[w].manual).id = lastId + 1
    BY DEF Copy
  <2> QED BY <1>10, <1>c, <2>1, <2>2 DEF PublishRetry
<1>11. ASSUME PublishDeadLetter(w) PROVE Placed'
  <2>1. Others /\ Mine /\ Same
    BY <1>11 DEF Others, Mine, Same, PublishDeadLetter, Goto, Copy, TypeOK
  <2>2. Copy(msg[w], msg[w].attempt, msg[w].manual).id = lastId + 1
    BY DEF Copy
  <2> QED BY <1>11, <1>c, <2>1, <2>2 DEF PublishDeadLetter
<1>12. ASSUME PersistDLQRecord(w) PROVE Placed'
  <2>1. Others /\ Mine /\ Same /\ lastId' = lastId
    BY <1>12 DEF Others, Mine, Same, PersistDLQRecord, Goto, queues, TypeOK
  <2> QED BY <1>12, <1>s, <2>1 DEF PersistDLQRecord, queues
<1>13. ASSUME AckRelocated(w) PROVE Placed'
  <2>1. Others /\ Mine /\ Same /\ lastId' = lastId
    BY <1>13 DEF Others, Mine, Same, AckRelocated, Leave, Proceed, InLease, Free, Goto,
       queues, TypeOK
  <2> QED BY <1>13, <1>s, <2>1 DEF AckRelocated, queues
<1>14. ASSUME ReleaseRead(w) PROVE Placed'
  <2>1. Others /\ Mine /\ Same /\ lastId' = lastId
    BY <1>14 DEF Others, Mine, Same, ReleaseRead, Proceed, Free, Goto, queues, TypeOK
  <2> QED BY <1>14, <1>s, <2>1 DEF ReleaseRead, queues
<1>15. ASSUME ReleaseDelete(w) PROVE Placed'
  <2>1. Others /\ Mine /\ Same /\ lastId' = lastId
    BY <1>15 DEF Others, Mine, Same, ReleaseDelete, Proceed, Free, Goto, queues, TypeOK
  <2> QED BY <1>15, <1>s, <2>1 DEF ReleaseDelete, queues
<1>16. ASSUME AckProcessed(w) PROVE Placed'
  <2>1. Others /\ Mine /\ Same /\ lastId' = lastId
    BY <1>16 DEF Others, Mine, Same, AckProcessed, Free, Goto, queues, TypeOK
  <2> QED BY <1>16, <1>s, <2>1 DEF AckProcessed, queues
<1>17. ASSUME StaleDelivery(w) PROVE Placed'
  BY <1>17 DEF StaleDelivery, Attached
<1>18. ASSUME CloseChannel(w) PROVE Placed'
  BY <1>18 DEF CloseChannel, Attached
<1>19. ASSUME NEW t \in Tasks, FanOut(w, t) PROVE Placed'
  <2>1. Others /\ Mine /\ Same
    BY <1>19 DEF Others, Mine, Same, FanOut, TypeOK
  <2>2. Copy([kind |-> "task", items |-> {t}], 0, 0).id = lastId + 1
    BY DEF Copy
  <2> QED BY <1>19, <1>c, <2>1, <2>2 DEF FanOut
<1>20. ASSUME RejectFailed(w) PROVE Placed'
  <2>1. Others /\ Mine /\ Same /\ held[w] /\ ~held'[w]
    BY <1>20 DEF Others, Mine, Same, RejectFailed, Leave, Proceed, InLease, Free, Goto, TypeOK
  <2> QED BY <1>20, <1>r, <1>s, <2>1 DEF RejectFailed
<1> QED
  BY <1>1, <1>2, <1>3, <1>4, <1>5, <1>6, <1>7, <1>8, <1>9, <1>10, <1>11, <1>12, <1>13,
     <1>14, <1>15, <1>16, <1>17, <1>18, <1>19, <1>20 DEF WorkerStep

(* A step of a worker brings in no task that was not submitted.            *)
LEMMA KnownKept ==
    ASSUME TypeInv, OpenInv, SingleInv, NEW w \in Workers, WorkerStep(w) \/ FaultStep(w)
    PROVE  Known'
<1>1. Moves(w) /\ Submitted' = Submitted
  BY WorkerMoves, MovesOpen DEF TypeInv
<1> DEFINE Brings == /\ \A m \in dlq' : m \in dlq \/ m.items = msg[w].items
                     /\ Done' \subseteq Done \cup msg[w].items
                     /\ msg'[w] \in {msg[w], NoMessage}
<1> USE DEF TypeInv, TypeOK
<1>2. Brings
  <2>1. ASSUME Parse(w) PROVE Brings
    BY <2>1 DEF Parse, Goto, queues, Done, history
  <2>2. ASSUME RejectUnusable(w) PROVE Brings
    BY <2>2 DEF RejectUnusable, Free, Goto, queues, Done, history
  <2>3. ASSUME AckBatch(w) PROVE Brings
    BY <2>3 DEF AckBatch, Free, Goto, queues, Done, history
  <2>4. ASSUME AcquireLease(w) PROVE Brings
    BY <2>4 DEF AcquireLease, Goto, queues, Done, history
  <2>5. ASSUME LeaseConflict(w) PROVE Brings
    BY <2>5 DEF LeaseConflict, Free, Goto, Done, history
  <2>6. ASSUME HandlerReturns(w) PROVE Brings
    BY <2>6 DEF HandlerReturns, Leave, Proceed, InLease, Free, Goto, queues, Done,
       history
  <2>7. ASSUME HandlerAsksManualRetry(w) PROVE Brings
    BY <2>7 DEF HandlerAsksManualRetry, Goto, queues, Done, history
  <2>8. ASSUME PublishManualRetry(w) PROVE Brings
    BY <2>8 DEF PublishManualRetry, Leave, Proceed, InLease, Free, Goto, Copy, Done,
       history
  <2>9. ASSUME HandlerRaises(w) PROVE Brings
    BY <2>9 DEF HandlerRaises, Goto, queues, Done, history
  <2>10. ASSUME RejectFailed(w) PROVE Brings
    BY <2>10 DEF RejectFailed, Leave, Proceed, InLease, Free, Goto, Done, history
  <2>11. ASSUME PublishRetry(w) PROVE Brings
    BY <2>11 DEF PublishRetry, Goto, Copy, Done, history
  <2>12. ASSUME PublishDeadLetter(w) PROVE Brings
    BY <2>12 DEF PublishDeadLetter, Goto, Copy, Done, history
  <2>13. ASSUME PersistDLQRecord(w) PROVE Brings
    BY <2>13 DEF PersistDLQRecord, Goto, queues, Done, history
  <2>14. ASSUME AckRelocated(w) PROVE Brings
    BY <2>14 DEF AckRelocated, Leave, Proceed, InLease, Free, Goto, queues, Done,
       history
  <2>15. ASSUME ReleaseRead(w) PROVE Brings
    BY <2>15 DEF ReleaseRead, Proceed, Free, Goto, queues, Done, history
  <2>16. ASSUME ReleaseDelete(w) PROVE Brings
    BY <2>16 DEF ReleaseDelete, Proceed, Free, Goto, queues, Done, history
  <2>17. ASSUME AckProcessed(w) PROVE Brings
    BY <2>17 DEF AckProcessed, Free, Goto, queues, Done, history
  <2>18. ASSUME StaleDelivery(w) PROVE Brings
    BY <2>18 DEF StaleDelivery, Leave, Proceed, InLease, Free, Goto, queues, Done,
       history
  <2>19. ASSUME CloseChannel(w) PROVE Brings
    BY <2>19 DEF CloseChannel, Free, Goto, Requeued, Done, history
  <2>20. ASSUME Interrupt(w) PROVE Brings
    BY <2>20 DEF Interrupt, Leave, Proceed, InLease, Free, Goto, queues, Done, history
  <2>21. ASSUME ReleaseRaises(w) PROVE Brings
    BY <2>21 DEF ReleaseRaises, Proceed, Free, Goto, queues, Done, history
  <2>22. ASSUME AcquireRaises(w) PROVE Brings
    BY <2>22 DEF AcquireRaises, Proceed, Free, Goto, queues, Done, history
  <2>23. ASSUME Crash(w) PROVE Brings
    BY <2>23 DEF Crash, Free, Goto, Requeued, Done, history
  <2>24. ASSUME LoseChannel(w) PROVE Brings
    BY <2>24 DEF LoseChannel, Done, history
  <2>25. ASSUME NEW t \in Tasks, FanOut(w, t) PROVE Brings
    BY <2>25 DEF FanOut, Done, history
  <2> QED
    BY <2>1, <2>2, <2>3, <2>4, <2>5, <2>6, <2>7, <2>8, <2>9, <2>10, <2>11, <2>12, <2>13,
       <2>14, <2>15, <2>16, <2>17, <2>18, <2>19, <2>20, <2>21, <2>22, <2>23, <2>24,
       <2>25 DEF WorkerStep, FaultStep
<1>3. NoMessage.items = {}
  BY DEF NoMessage
<1> HIDE DEF TypeInv, TypeOK
<1> QED BY <1>1, <1>2, <1>3 DEF Moves, Known, SingleInv, Queued

(* Every step keeps the invariant.                                         *)
LEMMA NextSingle ==
    DistinctTasks => (TypeInv /\ OpenInv /\ SingleInv /\ [Next]_vars => SingleInv')
<1> SUFFICES ASSUME DistinctTasks, TypeInv, OpenInv, SingleInv, [Next]_vars PROVE SingleInv'
  OBVIOUS
<1> USE DEF TypeInv
<1>k. Known
  BY DEF SingleInv
<1>0. faults = 0 => Attached /\ Placed /\ \A t \in Tasks : Sole(t, Queued, Load, Done)
  BY DEF SingleInv
<1>c. \A w \in Workers : Load[w] = Carried(w) /\ Load'[w] = Carried(w)' /\ Carried(w) \subseteq msg[w].items
  BY DEF Load, Carried, Shape
<1>i. /\ lastId \in Nat /\ faults \in Nat
      /\ \A m \in Queued : m.id \in Nat
      /\ \A v \in Workers : msg[v].id \in Nat
  BY DEF TypeOK, Message, Queued
<1>1. ASSUME NEW s \in Submissions, Submit(s) PROVE SingleInv'
  <2> DEFINE c == Copy(s, 0, 0)
  <2>1. c.id = lastId + 1 /\ c.items = s.items /\ c.items \subseteq Tasks
    BY SubmissionAssumption DEF Copy
  <2>2. /\ s \in unsent /\ unsent' = unsent \ {s} /\ lastId' = lastId + 1 /\ tasksQ' = tasksQ \cup {c}
        /\ retryQ' = retryQ /\ dlq' = dlq /\ pc' = pc /\ msg' = msg /\ held' = held /\ todo' = todo
        /\ after' = after /\ completed' = completed /\ dropped' = dropped /\ faults' = faults
    BY <1>1 DEF Submit, history
  <2> HIDE DEF c
  <2>3. Submitted' = Submitted \cup s.items /\ s.items \cap Submitted = {}
    BY <2>2 DEF Submitted, DistinctTasks
  <2>4. Queued' = Queued \cup {c} /\ Load' = Load /\ Done' = Done
    BY <2>2 DEF Queued, Load, Carried, Done
  <2>5. Known'
    BY <1>k, <2>1, <2>2, <2>3, <2>4 DEF Known
  <2>6. ASSUME faults = 0 PROVE Placed'
    <3>a. \A k \in Nat : k <= lastId => k <= lastId + 1 /\ k # lastId + 1
      BY <1>i
    <3>1. c \notin Queued /\ \A v \in Workers : c # msg[v]
      BY <1>0, <1>i, <2>1, <2>6, <3>a DEF Placed
    <3>2. tasksQ' \cap retryQ' = {} /\ tasksQ' \cap dlq' = {} /\ retryQ' \cap dlq' = {}
      BY <1>0, <2>2, <2>6, <3>1 DEF Placed, Queued
    <3>3. (\A m \in Queued' : m.id <= lastId + 1) /\ (\A v \in Workers : msg[v].id <= lastId + 1)
      BY <1>0, <1>i, <2>1, <2>4, <2>6, <3>a DEF Placed
    <3> QED BY <1>0, <2>2, <2>4, <2>6, <3>1, <3>2, <3>3 DEF Placed
  <2>7. ASSUME faults = 0, NEW t \in Tasks PROVE Sole(t, Queued', Load', Done')
    <3>1. t \in c.items =>
             /\ \A m \in Queued : t \notin m.items
             /\ \A w \in Workers : t \notin Load[w]
             /\ t \notin Done
      BY <1>k, <1>c, <2>1, <2>3 DEF Known
    <3>2. Sole(t, Queued, Load, Done)
      BY <1>0, <2>7
    <3> QED BY <2>4, <3>1, <3>2 DEF Sole
  <2>8. Attached' <=> Attached
    BY <2>2 DEF Attached
  <2> QED BY <1>0, <2>2, <2>5, <2>6, <2>7, <2>8 DEF SingleInv
<1>2. ASSUME NEW w \in Workers, NEW m \in tasksQ, Deliver(w, m) PROVE SingleInv'
  <2>1. /\ pc[w] = "idle" /\ unsent' = unsent /\ lastId' = lastId /\ tasksQ' = tasksQ \ {m}
        /\ retryQ' = retryQ /\ dlq' = dlq /\ todo' = todo /\ after' = after
        /\ completed' = completed /\ dropped' = dropped /\ faults' = faults
        /\ pc' = [pc EXCEPT ![w] = "received"] /\ msg' = [msg EXCEPT ![w] = m]
        /\ held' = [held EXCEPT ![w] = TRUE]
    BY <1>2 DEF Deliver, Goto, history
  <2>2. /\ pc'[w] = "received" /\ msg'[w] = m /\ held'[w]
        /\ \A v \in Workers \ {w} : pc'[v] = pc[v] /\ msg'[v] = msg[v] /\ held'[v] = held[v]
    BY <2>1 DEF TypeOK
  <2>3. m \in Queued /\ Queued' \subseteq Queued /\ Done' = Done /\ Submitted' = Submitted
    BY <2>1 DEF Queued, Done, Submitted
  <2>4. /\ Load[w] = {} /\ Load'[w] = m.items
        /\ \A v \in Workers \ {w} : Load'[v] = Load[v]
    BY <1>c, <2>1, <2>2 DEF Carried
  <2>5. Known'
    BY <1>k, <2>2, <2>3 DEF Known
  <2>6. Attached => Attached'
    BY <2>1, <2>2 DEF Attached
  <2>7. ASSUME faults = 0 PROVE Placed' /\ m \notin Queued'
    <3>1. m \notin Queued' /\ \A v \in Workers : held[v] => msg[v] # m
      BY <1>0, <2>1, <2>7 DEF Placed, Queued
    <3>2. tasksQ' \cap retryQ' = {} /\ tasksQ' \cap dlq' = {} /\ retryQ' \cap dlq' = {}
      BY <1>0, <2>1, <2>7 DEF Placed
    <3> QED BY <1>0, <2>1, <2>2, <2>3, <2>7, <3>1, <3>2 DEF Placed
  <2>8. ASSUME faults = 0, NEW t \in Tasks PROVE Sole(t, Queued', Load', Done')
    BY <1>0, <2>3, <2>4, <2>7, <2>8 DEF Sole
  <2> QED BY <1>0, <2>1, <2>5, <2>6, <2>7, <2>8 DEF SingleInv
<1>3. ASSUME NEW m \in retryQ, RetryDelayElapsed(m) PROVE SingleInv'
  <2>1. /\ unsent' = unsent /\ lastId' = lastId /\ Queued' = Queued /\ Load' = Load /\ Done' = Done
        /\ Submitted' = Submitted /\ pc' = pc /\ msg' = msg /\ held' = held /\ after' = after /\ faults' = faults
    BY <1>3 DEF RetryDelayElapsed, Queued, Load, Carried, Done, Submitted, history
  <2>2. Placed => tasksQ' \cap retryQ' = {} /\ tasksQ' \cap dlq' = {} /\ retryQ' \cap dlq' = {}
    BY <1>3 DEF RetryDelayElapsed, Placed
  <2>3. Placed => Placed'
    BY <2>1, <2>2 DEF Placed
  <2> QED BY <2>1, <2>3 DEF SingleInv, Known, Attached
<1>4. ASSUME NEW w \in Workers, WorkerStep(w) PROVE SingleInv'
  <2>1. Moves(w) /\ Submitted' = Submitted
    BY <1>4, WorkerMoves, MovesOpen
  <2>2. faults' = faults
    BY <1>4 DEF WorkerStep, Parse, RejectUnusable, FanOut, AckBatch, AcquireLease, LeaseConflict,
       HandlerReturns, HandlerAsksManualRetry, PublishManualRetry, HandlerRaises, RejectFailed,
       PublishRetry, PublishDeadLetter, PersistDLQRecord, AckRelocated, ReleaseRead, ReleaseDelete,
       AckProcessed, StaleDelivery, CloseChannel
  <2>3. Known'
    BY <1>4, <2>1, KnownKept
  <2>4. ASSUME faults = 0 PROVE Attached' /\ Placed' /\ \A t \in Tasks : Sole(t, Queued', Load', Done')
    BY <1>0, <1>4, <2>4, WorkerAttached, WorkerPlaced, WorkerGivesUp, GivesUpSole
  <2> QED BY <2>2, <2>3, <2>4 DEF SingleInv
<1>5. ASSUME NEW w \in Workers, FaultStep(w) PROVE SingleInv'
  <2>1. faults' = faults + 1
    BY <1>5 DEF FaultStep, Interrupt, ReleaseRaises, AcquireRaises, Crash, LoseChannel, Fault
  <2>2. Known'
    BY <1>5, KnownKept
  <2> QED BY <1>i, <2>1, <2>2 DEF SingleInv
<1>6. ASSUME NEW t \in Tasks, ExpireOrphan(t) PROVE SingleInv'
  BY <1>6 DEF ExpireOrphan, SingleInv, Known, Attached, Placed, Queued, Load, Carried,
     Done, Submitted, queues, history
<1>7. ASSUME NEW t \in Tasks, ExpireUnderOwner(t) PROVE SingleInv'
  <2>1. faults' = faults + 1
    BY <1>7 DEF ExpireUnderOwner, Fault
  <2>2. Known'
    BY <1>7 DEF ExpireUnderOwner, SingleInv, Known, Queued, Done, Submitted, queues
  <2> QED BY <1>i, <2>1, <2>2 DEF SingleInv
<1>8. CASE UNCHANGED vars
  BY <1>8 DEF vars, SingleInv, Known, Attached, Placed, Queued, Load, Carried, Done,
     Submitted, queues, history
<1> QED BY <1>1, <1>2, <1>3, <1>4, <1>5, <1>6, <1>7, <1>8 DEF Next

(* In one place, and lost from none: exactly one.                          *)
LEMMA ExactlyOne ==
    ASSUME TypeInv, NoTaskLost, SingleInv, faults = 0, NEW t \in Submitted
    PROVE  Cardinality({m \in Queued : t \in m.items})
           + Cardinality({w \in Workers : t \in Carried(w)})
           + (IF t \in completed \cup dropped THEN 1 ELSE 0) = 1
<1> DEFINE M == {m \in Queued : t \in m.items}
           W == {w \in Workers : t \in Carried(w)}
           D == IF t \in completed \cup dropped THEN 1 ELSE 0
<1> SUFFICES Cardinality(M) + Cardinality(W) + D = 1
  OBVIOUS
<1>1. t \in Tasks
  BY SubmissionAssumption DEF Submitted, TypeInv, TypeOK
<1>2. Sole(t, Queued, Load, Done)
  BY <1>1 DEF SingleInv
<1>3. \A w \in Workers : Load[w] = Carried(w)
  BY DEF Load
<1>4. Cardinality({}) = 0 /\ \A x : Cardinality({x}) = 1
  BY FS_EmptySet, FS_Singleton
<1>5. CASE \E m \in Queued : t \in m.items
  <2>1. PICK m \in Queued : t \in m.items
    BY <1>5
  <2>2. M = {m} /\ W = {} /\ t \notin Done
    BY <1>2, <1>3, <2>1 DEF Sole
  <2>3. Cardinality(M) = 1 /\ Cardinality(W) = 0 /\ D = 0
    BY <1>4, <2>2 DEF Done
  <2> QED BY <2>3
<1>6. CASE \E w \in Workers : t \in Carried(w)
  <2>1. PICK w \in Workers : t \in Carried(w)
    BY <1>6
  <2>2. M = {} /\ W = {w} /\ t \notin Done
    BY <1>2, <1>3, <2>1 DEF Sole
  <2>3. Cardinality(M) = 0 /\ Cardinality(W) = 1 /\ D = 0
    BY <1>4, <2>2 DEF Done
  <2> QED BY <2>3
<1>7. CASE t \in Done
  <2>1. M = {} /\ W = {}
    BY <1>2, <1>3, <1>7 DEF Sole
  <2>2. Cardinality(M) = 0 /\ Cardinality(W) = 0 /\ D = 1
    BY <1>4, <1>7, <2>1 DEF Done
  <2> QED BY <2>2
<1> QED BY <1>5, <1>6, <1>7 DEF NoTaskLost, Done

(* Duplicates come from faults alone: with fresh task ids, and until the   *)
(* first fault, every submitted task has exactly one copy or outcome.      *)
THEOREM CopiesSingle == DistinctTasks => (Spec => []SingleCopyWithoutFaults)
<1> SUFFICES ASSUME DistinctTasks PROVE Spec => []SingleCopyWithoutFaults
  OBVIOUS
<1>1. Init => NoTaskLost
  BY DEF Init, NoTaskLost, Submitted
<1>2. TypeInv <=> TypeOK /\ Shape
  BY DEF TypeInv
<1>3. TypeInv /\ NoTaskLost /\ SingleInv => SingleCopyWithoutFaults
  BY ExactlyOne DEF SingleCopyWithoutFaults
<1>4. TypeInv /\ OpenInv /\ SingleInv /\ [Next]_vars => SingleInv'
  BY NextSingle
<1> QED
  BY InitType, NextTypeOK, NextShape, NextNoTaskLost, InitOpen, NextOpen, InitSingle, <1>1, <1>2,
     <1>3, <1>4, PTL DEF Spec
=============================================================================
