-------------------------- MODULE BoundedDispatch --------------------------
(* run_bounded_iterator (src/relayna/_async.py) inside the run_forever     *)
(* loop of a consumer (src/relayna/consumer/task_consumer.py): one         *)
(* dispatcher that takes deliveries from the queue iterator, at most       *)
(* Concurrency handler tasks, stop() and task cancellation.                *)
(*                                                                         *)
(* Everything between two awaits is one step.  A handler task ends in two: *)
(* it releases the semaphore, and a later turn of the event loop runs its  *)
(* done callback.                                                          *)
EXTENDS Naturals, FiniteSets

CONSTANTS
    Items,          \* deliveries
    Concurrency,    \* the effective prefetch
    Timeout,        \* consume_timeout_seconds is set
    MayStop,        \* stop() may be called
    MayCancel,      \* the consumer's task may be cancelled
    MaxErrors,      \* bound on handlers that raise
    MaxLosses       \* bound on iterators that fail or end

ASSUME DispatchAssumption ==
    /\ Concurrency \in Nat \ {0}
    /\ {Timeout, MayStop, MayCancel} \subseteq BOOLEAN
    /\ MaxErrors \in Nat /\ MaxLosses \in Nat
    /\ IsFiniteSet(Items)

VARIABLES
    pc,             \* the dispatcher
    permits,        \* free permits of the semaphore
    task,           \* per item: where its delivery and handler task are
    inFlight,       \* in_flight
    firstError,     \* first_error is set
    exit,           \* how the dispatch loop was left
    stop, cancelled,
    errors, losses

vars == <<pc, permits, task, inFlight, firstError, exit, stop, cancelled, errors, losses>>

Outcomes == {"finished", "failed", "dropped"}

TypeOK ==
    /\ pc \in {"open", "loop", "next", "gather", "drain", "abandon", "close", "returned"}
    /\ permits \in 0 .. Concurrency
    /\ task \in [Items -> {"queued", "running", "done"} \cup Outcomes]
    /\ inFlight \subseteq Items
    /\ firstError \in BOOLEAN
    /\ exit \in {"none", "normal", "timeout", "error", "cancelled"}
    /\ stop \in BOOLEAN /\ cancelled \in BOOLEAN
    /\ errors \in 0 .. MaxErrors /\ losses \in 0 .. MaxLosses

Init ==
    /\ pc = "open" /\ permits = Concurrency
    /\ task = [i \in Items |-> "queued"]
    /\ inFlight = {} /\ firstError = FALSE /\ exit = "none"
    /\ stop = FALSE /\ cancelled = FALSE
    /\ errors = 0 /\ losses = 0

Running == {i \in Items : task[i] = "running"}

-----------------------------------------------------------------------------
(* Seeded fault: the loop of run_forever does not look at stop.            *)
MutantOpenAlways ==
    /\ pc = "open"
    /\ pc' = "loop" /\ permits' = Concurrency /\ firstError' = FALSE /\ exit' = "none"
    /\ UNCHANGED <<task, inFlight, stop, cancelled, errors, losses>>

(* run_forever: a new channel and iterator, unless stop is set.            *)
Open ==
    /\ pc = "open"
    /\ IF stop
       THEN pc' = "returned" /\ UNCHANGED <<permits, firstError, exit>>
       ELSE pc' = "loop" /\ permits' = Concurrency /\ firstError' = FALSE /\ exit' = "none"
    /\ UNCHANGED <<task, inFlight, stop, cancelled, errors, losses>>

Exit(how) == pc' = "drain" /\ exit' = how

(* The head of the loop: the stop test, the permit, then the error test.   *)
Acquire ==
    /\ pc = "loop"
    /\ IF stop
       THEN Exit("normal") /\ UNCHANGED permits
       ELSE /\ permits > 0
            /\ IF firstError
               THEN Exit("error") /\ UNCHANGED permits
               ELSE pc' = "next" /\ permits' = permits - 1 /\ UNCHANGED exit
    /\ UNCHANGED <<task, inFlight, firstError, stop, cancelled, errors, losses>>

(* anext returns a delivery; its handler task is created.                  *)
Dispatch(i) ==
    /\ pc = "next"
    /\ task[i] = "queued"
    /\ task' = [task EXCEPT ![i] = "running"]
    /\ inFlight' = inFlight \cup {i}
    /\ pc' = "loop"
    /\ UNCHANGED <<permits, firstError, exit, stop, cancelled, errors, losses>>

(* anext times out: back to the loop while handlers run, else leave.       *)
IteratorTimeout ==
    /\ pc = "next" /\ Timeout
    /\ \A i \in Items : task[i] # "queued"
    /\ permits' = permits + 1
    /\ IF inFlight # {}
       THEN pc' = "loop" /\ UNCHANGED exit
       ELSE Exit("timeout")
    /\ UNCHANGED <<task, inFlight, firstError, stop, cancelled, errors, losses>>

(* anext raises, or the iterator ends.                                     *)
IteratorFails ==
    /\ pc = "next" /\ losses < MaxLosses
    /\ losses' = losses + 1
    /\ permits' = permits + 1
    /\ \E how \in {"error", "normal"} : Exit(how)
    /\ UNCHANGED <<task, inFlight, firstError, stop, cancelled, errors>>

-----------------------------------------------------------------------------
(* run_item: the handler returns (it has acked) or raises; either way its  *)
(* finally block releases the permit.                                      *)
HandlerReturns(i) ==
    /\ task[i] = "running"
    /\ task' = [task EXCEPT ![i] = "finished"]
    /\ permits' = permits + 1
    /\ UNCHANGED <<pc, inFlight, firstError, exit, stop, cancelled, errors, losses>>

HandlerRaises(i) ==
    /\ task[i] = "running" /\ errors < MaxErrors
    /\ errors' = errors + 1
    /\ task' = [task EXCEPT ![i] = "failed"]
    /\ permits' = permits + 1
    /\ UNCHANGED <<pc, inFlight, firstError, exit, stop, cancelled, losses>>

HandlerCancelled(i) ==
    /\ task[i] = "running" /\ pc \in {"gather", "abandon"}
    /\ task' = [task EXCEPT ![i] = "dropped"]
    /\ permits' = permits + 1
    /\ UNCHANGED <<pc, inFlight, firstError, exit, stop, cancelled, errors, losses>>

(* Seeded fault: the exception of a task that ended is not looked at.      *)
MutantCompletionIgnored(i) ==
    /\ i \in inFlight /\ task[i] \in Outcomes
    /\ inFlight' = inFlight \ {i}
    /\ UNCHANGED <<pc, permits, task, firstError, exit, stop, cancelled, errors, losses>>

(* record_completion.                                                      *)
RecordCompletion(i) ==
    /\ i \in inFlight /\ task[i] \in Outcomes
    /\ inFlight' = inFlight \ {i}
    /\ firstError' = (firstError \/ task[i] = "failed")
    /\ UNCHANGED <<pc, permits, task, exit, stop, cancelled, errors, losses>>

-----------------------------------------------------------------------------
(* Cancellation reaches the dispatcher at an await of the loop: it cancels *)
(* and gathers the handlers.                                               *)
CancelLoop ==
    /\ pc \in {"loop", "next"}
    /\ permits' = IF pc = "next" THEN permits + 1 ELSE permits
    /\ pc' = "gather" /\ exit' = "cancelled"

(* It reaches the gather of the finally block, which cancels the handlers, *)
(* waits for them and raises.                                              *)
CancelDrain ==
    /\ pc = "drain" /\ inFlight # {}
    /\ pc' = "abandon" /\ exit' = "cancelled"
    /\ UNCHANGED permits

(* It reaches run_forever between two iterators.                           *)
CancelIdle ==
    /\ pc = "open"
    /\ pc' = "returned" /\ exit' = "cancelled"
    /\ UNCHANGED permits

Cancel ==
    /\ MayCancel /\ ~cancelled
    /\ cancelled' = TRUE
    /\ CancelLoop \/ CancelDrain \/ CancelIdle
    /\ UNCHANGED <<task, inFlight, firstError, stop, errors, losses>>

Abandoned ==
    /\ pc = "abandon" /\ inFlight = {}
    /\ pc' = "close"
    /\ UNCHANGED <<permits, task, inFlight, firstError, exit, stop, cancelled, errors, losses>>

Gathered ==
    /\ pc = "gather" /\ inFlight = {}
    /\ pc' = "drain"
    /\ UNCHANGED <<permits, task, inFlight, firstError, exit, stop, cancelled, errors, losses>>

(* The finally block: all handlers have ended, and the first error of one  *)
(* replaces whatever the loop was left with.                               *)
Drained ==
    /\ pc = "drain" /\ inFlight = {}
    /\ exit' = IF firstError THEN "error" ELSE exit
    /\ pc' = "close"
    /\ UNCHANGED <<permits, task, inFlight, firstError, stop, cancelled, errors, losses>>

(* run_forever: the channel is closed, which gives unacked deliveries back *)
(* to the queue; then the loop goes on, returns or is cancelled.           *)
Close ==
    /\ pc = "close"
    /\ task' = [i \in Items |-> IF task[i] \in {"failed", "dropped"} THEN "queued"
                                ELSE IF task[i] = "finished" THEN "done" ELSE task[i]]
    /\ pc' = IF exit = "cancelled" \/ (stop /\ exit \in {"timeout", "error"})
             THEN "returned" ELSE "open"
    /\ UNCHANGED <<permits, inFlight, firstError, exit, stop, cancelled, errors, losses>>

Stop ==
    /\ MayStop /\ ~stop /\ pc # "returned"
    /\ stop' = TRUE
    /\ UNCHANGED <<pc, permits, task, inFlight, firstError, exit, cancelled, errors, losses>>

Dispatcher ==
    \/ Open \/ Acquire \/ (\E i \in Items : Dispatch(i)) \/ IteratorTimeout
    \/ Gathered \/ Abandoned \/ Drained \/ Close

Handler(i) == HandlerReturns(i) \/ HandlerCancelled(i) \/ RecordCompletion(i)

Next ==
    \/ Dispatcher \/ IteratorFails \/ Cancel \/ Stop
    \/ \E i \in Items : Handler(i) \/ HandlerRaises(i)

Spec == Init /\ [][Next]_vars

(* The event loop runs what is ready, the broker delivers, handlers end.   *)
Fairness ==
    /\ WF_vars(Dispatcher)
    /\ \A i \in Items : WF_vars(Handler(i))

FairSpec == Spec /\ Fairness

-----------------------------------------------------------------------------
(* Permits are neither lost nor invented, whichever way an iteration goes: *)
(* every one is free, held by the dispatcher, or held by a running handler,*)
(* and so no more than the prefetch count run at once.                     *)
PermitsBalance ==
    pc # "open" => permits + Cardinality(Running) + (IF pc = "next" THEN 1 ELSE 0) = Concurrency

(* Dispatched messages finish before the channel closes.                   *)
DrainedBeforeClose == pc \in {"close", "open", "returned"} => Running = {} /\ inFlight = {}

(* A handler's failure is never swallowed: the dispatch does not end in    *)
(* peace, nor with an idle timeout, when a delivery of it has failed.      *)
ErrorSurfaces == pc = "close" /\ (\E i \in Items : task[i] = "failed") => exit \in {"error", "cancelled"}

(* Every delivery is handled in the end, failed ones after a new delivery, *)
(* unless the consumer is told to end.                                     *)
AllHandled == <>[](pc = "returned" \/ \A i \in Items : task[i] \in {"finished", "done"})

(* After stop() the consumer returns.                                      *)
StopReturns == stop ~> pc = "returned"

(* A cancelled consumer ends, unless a handler fails on the way: its error *)
(* then replaces the cancellation and the loop goes on.                    *)
CancelEnds == cancelled ~> (pc = "returned" \/ errors > 0)

(* All of it: permits are neither lost nor invented, and the loop is left  *)
(* with its error and after its handlers.                                  *)
DispatchSound == TypeOK /\ PermitsBalance /\ DrainedBeforeClose /\ ErrorSurfaces

(* All three: messages are handled, stop() and a cancellation end the loop.*)
DispatchEnds == AllHandled /\ StopReturns /\ CancelEnds
=============================================================================
