----------------------- MODULE WorkflowConsumerProofs -----------------------
(* The dedup key of a workflow stage excludes, no message of it is lost,   *)
(* and before the first fault none is turned away for a key of its own,    *)
(* for any number of workers, messages, signatures, retries and faults.    *)
EXTENDS WorkflowConsumer, FiniteSetTheorems, TLAPS

(* A worker between taking a dedup key and giving it back finds its key in *)
(* Redis, and shares it with no other such worker.                         *)
KeyStored == \A w \in Workers : HasKey(w) => Key(w) \in dedup

KeyUnshared ==
    \A v, w \in Workers : v # w /\ HasKey(v) /\ HasKey(w) => Key(v) # Key(w)

Slots ==
    /\ pc = [w \in Workers |-> pc[w]]
    /\ msg = [w \in Workers |-> msg[w]]

KeyInv == Slots /\ KeyStored /\ KeyUnshared

(* A step that leaves the dedup keys alone, takes no worker into its key   *)
(* section and changes no message there keeps the invariant.               *)
LEMMA NoKeyTaken ==
    ASSUME KeyInv, Slots',
           \A w \in Workers : HasKey(w)' => HasKey(w) /\ Key(w)' = Key(w),
           \A w \in Workers : HasKey(w)' => (Key(w) \in dedup => Key(w) \in dedup')
    PROVE  KeyInv'
<1>1. KeyStored'
  BY DEF KeyInv, KeyStored
<1>2. KeyUnshared'
  BY DEF KeyInv, KeyUnshared
<1> QED
  BY <1>1, <1>2 DEF KeyInv

(* Leaving the try block, or freeing the slot, never enters a key section. *)
LEMMA FinallyKeeps ==
    ASSUME Slots, NEW w \in Workers, NEW how, pc[w] \in {"handler", "failed"}, Finally(w, how)
    PROVE  Slots' /\ \A v \in Workers : HasKey(v)' => HasKey(v) /\ Key(v)' = Key(v)
<1> QED BY DEF Slots, Finally, Goto, HasKey, Key, Body

(* Freeing the slot gives up its key and no other.                         *)
LEMMA FreeKeeps ==
    ASSUME Slots, NEW w \in Workers, Free(w)
    PROVE  Slots' /\ \A v \in Workers : HasKey(v)' => v # w /\ HasKey(v) /\ Key(v)' = Key(v)
<1> QED BY DEF Slots, Free, Goto, HasKey, Key, Body

(* Going on within a section keeps the keys.                               *)
LEMMA GotoKeeps ==
    ASSUME Slots, NEW w \in Workers, NEW step, Goto(w, step), UNCHANGED msg
    PROVE  /\ Slots'
           /\ \A v \in Workers : v # w => (HasKey(v)' <=> HasKey(v))
           /\ \A v \in Workers : Key(v)' = Key(v)
           /\ pc'[w] = step
<1> QED BY DEF Slots, Goto, HasKey, Key, Body

(* No key is held in the beginning.                                        *)
LEMMA InitKeys == Init => KeyInv
<1> QED BY DEF Init, KeyInv, Slots, KeyStored, KeyUnshared, HasKey

(* Every step keeps the invariant.                                         *)
LEMMA NextKeys == KeyInv /\ [Next]_vars => KeyInv'
<1> SUFFICES ASSUME KeyInv, [Next]_vars
             PROVE  KeyInv'
  OBVIOUS
<1>0. Slots
  BY DEF KeyInv
<1> DEFINE KeysKept == \A w \in Workers : HasKey(w)' => HasKey(w) /\ Key(w)' = Key(w)
<1>s. ASSUME NEW b \in Messages, Submit(b)
      PROVE  KeyInv'
  BY <1>0, <1>s, NoKeyTaken DEF Submit, control, redis, Slots, HasKey, Key, Body
<1>xl. ASSUME NEW b \in Messages, ExpireLease(b)
      PROVE  KeyInv'
  BY <1>0, <1>xl, NoKeyTaken DEF ExpireLease, control, Slots, HasKey, Key, Body
<1>xi. CASE ExpireInflight
  BY <1>0, <1>xi, NoKeyTaken DEF ExpireInflight, control, Slots, HasKey, Key, Body
<1>xk. ASSUME NEW s \in Signatures, ExpireKey(s)
      PROVE  KeyInv'
  <2>1. Slots' /\ KeysKept
    BY <1>0, <1>xk DEF ExpireKey, control, Slots, HasKey, Key, Body
  <2>2. \A w \in Workers : HasKey(w)' => (Key(w) \in dedup => Key(w) \in dedup')
    BY <1>xk, <2>1 DEF ExpireKey
  <2> QED BY <2>1, <2>2, NoKeyTaken
<1>r. ASSUME NEW m \in retryQ, RetryDelayElapsed(m)
      PROVE  KeyInv'
  BY <1>0, <1>r, NoKeyTaken DEF RetryDelayElapsed, control, redis, Slots, HasKey, Key, Body
<1>d. ASSUME NEW w \in Workers, NEW m \in queue, Deliver(w, m)
      PROVE  KeyInv'
  <2>1. Slots' /\ KeysKept
    BY <1>0, <1>d DEF Deliver, Validated, Goto, Slots, HasKey, Key, Body
  <2>2. UNCHANGED dedup
    BY <1>d DEF Deliver, redis
  <2> QED BY <2>1, <2>2, NoKeyTaken
<1>w. ASSUME NEW w \in Workers,
             \/ WorkerStep(w) \/ Interrupt(w) \/ CleanupFails(w) \/ Crash(w) \/ LoseChannel(w)
      PROVE  KeyInv'
  <2>1. CASE AcquireDedup(w)
    <3>1. CASE Key(w) \in dedup
      <4>1. Goto(w, "turned") /\ UNCHANGED msg /\ dedup' = dedup \cup {Key(w)}
        BY <2>1, <3>1 DEF AcquireDedup
      <4>2. Slots' /\ KeysKept
        BY <1>0, <4>1, GotoKeeps DEF HasKey
      <4> QED BY <4>1, <4>2, NoKeyTaken
    <3>2. CASE Key(w) \notin dedup
      <4>1. Goto(w, "mark") /\ UNCHANGED msg /\ dedup' = dedup \cup {Key(w)}
        BY <2>1, <3>2 DEF AcquireDedup
      <4>2. /\ Slots'
            /\ \A v \in Workers : v # w => (HasKey(v)' <=> HasKey(v))
            /\ \A v \in Workers : Key(v)' = Key(v)
        BY <1>0, <4>1, GotoKeeps
      <4>3. KeyStored'
        BY <4>1, <4>2 DEF KeyInv, KeyStored
      <4>4. \A v \in Workers : v # w /\ HasKey(v) => Key(v) # Key(w)
        BY <3>2 DEF KeyInv, KeyStored
      <4>5. KeyUnshared'
        BY <4>2, <4>4 DEF KeyInv, KeyUnshared
      <4> QED BY <4>2, <4>3, <4>5 DEF KeyInv
    <3> QED BY <3>1, <3>2
  <2>2. CASE \/ MarkInflight(w) \/ ExpireMark(w) \/ AcquireLease(w) \/ HandlerFails(w)
             \/ ClearInflight(w)
    <3>1. UNCHANGED <<msg, dedup>> /\ (Dedup => HasKey(w))
      BY <2>2 DEF MarkInflight, ExpireMark, AcquireLease, HandlerFails, ClearInflight, redis, HasKey
    <3>2. PICK step \in Steps : Goto(w, step)
      BY <2>2 DEF MarkInflight, ExpireMark, AcquireLease, HandlerFails, ClearInflight, Steps
    <3>3. Slots' /\ KeysKept
      BY <1>0, <3>1, <3>2, GotoKeeps DEF HasKey
    <3> QED BY <3>1, <3>3, NoKeyTaken
  <2>3. CASE UndoDedup(w)
    <3>1. Goto(w, "raised") /\ UNCHANGED msg /\ dedup' = dedup \ {Key(w)} /\ pc[w] = "undo"
      BY <2>3 DEF UndoDedup
    <3>2. Slots' /\ KeysKept /\ ~HasKey(w)'
      BY <1>0, <3>1, GotoKeeps DEF HasKey
    <3>3. Dedup => HasKey(w)
      BY <3>1 DEF HasKey
    <3>4. \A v \in Workers : HasKey(v)' => Key(v) # Key(w)
      BY <3>2, <3>3 DEF KeyInv, KeyUnshared, HasKey
    <3> QED BY <3>1, <3>2, <3>4, NoKeyTaken
  <2>4. CASE RejectTurned(w) \/ Ack(w) \/ CloseChannel(w) \/ Crash(w)
    <3>1. Free(w) /\ UNCHANGED dedup
      BY <2>4 DEF RejectTurned, Ack, CloseChannel, Crash, redis
    <3> QED BY <1>0, <3>1, FreeKeeps, NoKeyTaken
  <2>5. CASE BuryTurned(w)
    <3>1. Goto(w, "ack") /\ UNCHANGED <<msg, dedup>>
      BY <2>5 DEF BuryTurned, redis
    <3>2. Slots' /\ KeysKept
      BY <1>0, <3>1, GotoKeeps DEF HasKey
    <3> QED BY <3>1, <3>2, NoKeyTaken
  <2>6. CASE LeaseConflict(w)
    <3>1. Slots' /\ KeysKept /\ UNCHANGED dedup
      BY <1>0, <2>6 DEF LeaseConflict, Goto, redis, Slots, HasKey, Key, Body
    <3> QED BY <3>1, NoKeyTaken
  <2>7. CASE HandlerReturns(w) \/ RejectFailed(w) \/ PublishRetry(w) \/ PublishDeadLetter(w)
    <3>1. /\ pc[w] \in {"handler", "failed"} /\ UNCHANGED dedup
          /\ Finally(w, "ack") \/ Finally(w, "done")
      BY <2>7 DEF HandlerReturns, RejectFailed, PublishRetry, PublishDeadLetter, redis
    <3> QED BY <1>0, <3>1, FinallyKeeps, NoKeyTaken
  <2>8. CASE ReleaseDedup(w)
    <3>1. pc[w] = "release" /\ dedup' = dedup \ {Key(w)}
      BY <2>8 DEF ReleaseDedup
    <3>2. Slots' /\ KeysKept /\ ~HasKey(w)'
      <4>1. CASE Free(w)
        BY <1>0, <4>1, FreeKeeps
      <4>2. CASE Goto(w, "unlease") /\ UNCHANGED msg
        BY <1>0, <4>2, GotoKeeps DEF HasKey
      <4> QED BY <2>8, <4>1, <4>2 DEF ReleaseDedup
    <3>3. Dedup => HasKey(w)
      BY <3>1 DEF HasKey
    <3>4. \A v \in Workers : HasKey(v)' => Key(v) # Key(w)
      BY <3>2, <3>3 DEF KeyInv, KeyUnshared, HasKey
    <3> QED BY <3>1, <3>2, <3>4, NoKeyTaken
  <2>9. CASE ReleaseLease(w)
    <3>1. UNCHANGED dedup
      BY <2>9 DEF ReleaseLease
    <3>2. Slots' /\ KeysKept
      <4>1. CASE Free(w)
        BY <1>0, <4>1, FreeKeeps
      <4>2. CASE /\ \E step \in {"ack", "raised"} : Goto(w, step)
                 /\ UNCHANGED msg
        BY <1>0, <4>2, GotoKeeps DEF HasKey
      <4> QED BY <2>9, <4>1, <4>2 DEF ReleaseLease, Proceed
    <3> QED BY <3>1, <3>2, NoKeyTaken
  <2>10. CASE StaleDelivery(w)
    <3>1. UNCHANGED dedup
      BY <2>10 DEF StaleDelivery, redis
    <3>2. Slots' /\ KeysKept
      <4>1. CASE Goto(w, "raised") /\ UNCHANGED msg
        BY <1>0, <4>1, GotoKeeps DEF HasKey
      <4>2. CASE pc[w] = "failed" /\ Finally(w, "raise")
        BY <1>0, <4>2, FinallyKeeps
      <4> QED BY <2>10, <4>1, <4>2 DEF StaleDelivery
    <3> QED BY <3>1, <3>2, NoKeyTaken
  <2>11. CASE Interrupt(w)
    <3>1. UNCHANGED dedup
      BY <2>11 DEF Interrupt, redis
    <3>2. Slots' /\ KeysKept
      <4>1. CASE Goto(w, "raised") /\ UNCHANGED msg
        BY <1>0, <4>1, GotoKeeps DEF HasKey
      <4>2. CASE pc[w] \in {"mark", "expire"} /\ Goto(w, "undo") /\ UNCHANGED msg
        BY <1>0, <4>2, GotoKeeps DEF HasKey
      <4>3. CASE pc[w] \in {"handler", "failed"} /\ Finally(w, "raise")
        BY <1>0, <4>3, FinallyKeeps
      <4> QED BY <2>11, <4>1, <4>2, <4>3 DEF Interrupt
    <3> QED BY <3>1, <3>2, NoKeyTaken
  <2>12. CASE CleanupFails(w)
    <3>1. UNCHANGED dedup
      BY <2>12 DEF CleanupFails, redis
    <3>2. Slots' /\ KeysKept
      <4>1. CASE Free(w)
        BY <1>0, <4>1, FreeKeeps
      <4>2. CASE pc[w] = "clear" /\ Goto(w, "release") /\ UNCHANGED msg
        BY <1>0, <4>2, GotoKeeps DEF HasKey
      <4>3. CASE Goto(w, "unlease") /\ UNCHANGED msg
        BY <1>0, <4>3, GotoKeeps DEF HasKey
      <4> QED BY <2>12, <4>1, <4>2, <4>3 DEF CleanupFails
    <3> QED BY <3>1, <3>2, NoKeyTaken
  <2>13. CASE LoseChannel(w)
    BY <1>0, <2>13, NoKeyTaken DEF LoseChannel, redis, Slots, HasKey, Key, Body
  <2> QED
    BY <1>w, <2>1, <2>2, <2>3, <2>4, <2>5, <2>6, <2>7, <2>8, <2>9, <2>10, <2>11, <2>12, <2>13
       DEF WorkerStep
<1>u. CASE UNCHANGED vars
  BY <1>0, <1>u, NoKeyTaken DEF vars, control, redis, Slots, HasKey, Key, Body
<1> QED
  BY <1>s, <1>xl, <1>xi, <1>xk, <1>r, <1>d, <1>w, <1>u DEF Next

(* Two workers never run the stage handler for one dedup signature at the  *)
(* same time: acquire_dedup admits one, and every way out of               *)
(* _handle_message_impl, with or without cleanup, leaves the key to it.    *)
THEOREM HandlersExcluded == Spec => []DedupExcludes
<1>1. KeyInv => DedupExcludes
  BY DEF KeyInv, KeyUnshared, DedupExcludes, HasKey
<1> QED
  BY <1>1, InitKeys, NextKeys, PTL DEF Spec
-----------------------------------------------------------------------------
(* Types, and what the provers need with them: the copies can be counted,  *)
(* and a worker that cleans up after giving its delivery back holds none.  *)
Busy == {w \in Workers : msg[w] # NoCopy}

Counted == IsFiniteSet(queue) /\ IsFiniteSet(retryQ) /\ IsFiniteSet(Busy)

Cleanup == {"clear", "release", "unlease"}

GivenBack ==
    /\ held \subseteq Busy
    /\ \A w \in Workers : pc[w] \in Cleanup /\ after[w] \in {"done", "conflict"} => w \notin held

StageInv == TypeOK /\ Counted /\ GivenBack

(* The worker is about to ack: what it was given is elsewhere.             *)
Acking(w) == pc[w] = "ack" \/ (pc[w] \in Cleanup /\ after[w] = "ack")

(* The deliveries that stand for their message.                            *)
Bearers == {w \in held : ~Acking(w)}

Borne ==
    \A b \in Messages \ unsent :
        \/ \E m \in queue \cup retryQ : m.body = b
        \/ \E w \in Bearers : msg[w].body = b
        \/ b \in dlq \cup settled

(* Until the first fault a message is in one place; a worker that has      *)
(* published its retry cleans up or acks.                                  *)
OnePlace ==
    /\ \A m, n \in queue \cup retryQ : m.body = n.body => m = n
    /\ queue \cap retryQ = {}
    /\ \A m \in queue : \A w \in Busy : msg[w].body = m.body => pc[w] = "ack"
    /\ \A m \in retryQ : \A w \in Busy : msg[w].body = m.body => pc[w] \in Cleanup \cup {"ack"}
    /\ \A v, w \in Busy : v # w /\ msg[v].body = msg[w].body => pc[v] = "ack" \/ pc[w] = "ack"
    /\ \A m \in queue \cup retryQ : m.body \notin unsent
    /\ \A w \in Busy : msg[w].body \notin unsent

(* Until the first fault every key and lease has its worker, no delivery   *)
(* is lost and nothing raises.                                             *)
Owned ==
    /\ \A s \in dedup : \E w \in Workers : HasKey(w) /\ Key(w) = s
    /\ \A b \in leases : \E w \in Workers : HasLease(w) /\ Body(w) = b
    /\ \A w \in Workers : pc[w] \notin Cleanup \cup {"idle"} => w \in held
    /\ \A w \in Workers : pc[w] \in Cleanup /\ after[w] = "ack" => w \in held
    /\ \A w \in Workers : pc[w] \notin {"raised", "undo"} /\ after[w] \in {"ack", "done"}

(* The steps of dedup and lease happen only where they are configured.     *)
Configured ==
    /\ \A w \in Workers : pc[w] \in {"dedup", "mark", "expire", "undo", "clear", "release"} => Dedup
    /\ \A w \in Workers : pc[w] = "acquire" => LeaseEnabled

KeptInv == Configured /\ lonely = {} /\ (faults = 0 => OnePlace /\ Owned)

(* Ids never run out: some id is on no copy in a queue or with a worker.   *)
LEMMA FreshIdType == StageInv => FreshId \in Nat
<1> SUFFICES ASSUME StageInv PROVE FreshId \in Nat
  OBVIOUS
<1> DEFINE carried == {msg[w] : w \in Busy}
           live == queue \cup retryQ \cup carried
           n == Cardinality(live)
<1>1. IsFiniteSet(carried)
  <2> DEFINE f == [w \in Busy |-> msg[w]]
  <2>1. f \in Surjection(Busy, carried)
    BY DEF Surjection
  <2>2. IsFiniteSet(Busy)
    BY DEF StageInv, Counted
  <2> QED BY <2>1, <2>2, FS_Surjection
<1>2. IsFiniteSet(live)
  <2>1. IsFiniteSet(queue \cup retryQ)
    BY FS_Union DEF StageInv, Counted
  <2> QED BY <1>1, <2>1, FS_Union
<1>3. n \in Nat
  BY <1>2, FS_CardinalityType
<1>4. \E i \in 1 .. n + 1 : \A m \in live : m.id # i
  <2> DEFINE S == 1 .. n + 1
  <2>1. IsFiniteSet(S) /\ Cardinality(S) = n + 1
    BY <1>3, FS_Interval
  <2>2. Cardinality(live) < Cardinality(S)
    BY <1>3, <2>1
  <2> HIDE DEF S, n, live
  <2>3. ASSUME \A i \in S : \E m \in live : m.id = i PROVE FALSE
    <3> DEFINE f == [i \in S |-> CHOOSE m \in live : m.id = i]
    <3>1. \A i \in S : f[i] \in live /\ f[i].id = i
      BY <2>3
    <3>2. f \in [S -> live]
      BY <3>1
    <3> HIDE DEF f
    <3>3. \E i, j \in S : i # j /\ f[i] = f[j]
      BY <1>2, <2>1, <2>2, <3>2, FS_PigeonHole
    <3> QED BY <3>1, <3>3
  <2> QED BY <2>3 DEF S
<1>5. live = queue \cup retryQ \cup {msg[w] : w \in {v \in Workers : msg[v] # NoCopy}}
  BY DEF Busy
<1>6. FreshId = CHOOSE i \in 1 .. n + 1 : \A m \in live : m.id # i
  BY <1>5 DEF FreshId
<1> HIDE DEF n, live
<1>7. FreshId \in 1 .. n + 1
  BY <1>4, <1>6
<1> QED BY <1>3, <1>7

(* The copy a retry publishes.                                             *)
LEMMA RetryCopy ==
    ASSUME StageInv, NEW w \in Workers, msg[w] # NoCopy, msg[w].attempt < MaxRetries
    PROVE  [id |-> FreshId, body |-> Body(w), attempt |-> msg[w].attempt + 1] \in Copies
<1>1. msg[w] \in Copies
  BY DEF StageInv, TypeOK
<1>2. msg[w].body \in Messages /\ msg[w].attempt \in 0 .. MaxRetries
  BY <1>1 DEF Copies
<1>3. msg[w].attempt + 1 \in 0 .. MaxRetries
  BY <1>2, WorkflowAssumption
<1> QED BY <1>2, <1>3, FreshIdType DEF Copies, Body

(* Nothing is anywhere at first.                                           *)
LEMMA InitStage == Init => StageInv /\ Borne /\ KeptInv
<1> SUFFICES ASSUME Init PROVE StageInv /\ Borne /\ KeptInv
  OBVIOUS
<1>1. Busy = {}
  BY DEF Init, Busy
<1>2. TypeOK
  <2>1. mortal \in BOOLEAN /\ ~mortal
    BY DEF Init
  <2>2. pc \in [Workers -> Steps] /\ msg \in [Workers -> Copies \cup {NoCopy}]
    BY DEF Init, Steps
  <2>3. \A w \in Workers : pc[w] = "idle" /\ msg[w] = NoCopy
    BY DEF Init
  <2> QED BY WorkflowAssumption, <2>1, <2>2, <2>3 DEF Init, TypeOK
<1>3. Counted /\ GivenBack
  BY <1>1, FS_EmptySet DEF Init, Counted, GivenBack, Cleanup
<1>4. Borne
  BY DEF Init, Borne
<1>5. KeptInv
  BY <1>1 DEF Init, KeptInv, Configured, OnePlace, Owned, Cleanup
<1> QED BY <1>2, <1>3, <1>4, <1>5 DEF StageInv

(* Every step keeps the types.                                             *)
LEMMA NextStageType == StageInv /\ [Next]_vars => TypeOK'
<1> SUFFICES ASSUME StageInv, [Next]_vars PROVE TypeOK'
  OBVIOUS
<1>t. TypeOK /\ GivenBack
  BY DEF StageInv
<1>m. \A w \in Workers : msg[w] # NoCopy => /\ msg[w] \in Copies /\ Body(w) \in Messages
                                            /\ Key(w) \in Signatures
  BY <1>t, WorkflowAssumption DEF TypeOK, Copies, Body, Key
<1> USE WorkflowAssumption, NoCopyAssumption DEF Steps
<1>1. ASSUME NEW b \in Messages, Submit(b) PROVE TypeOK'
  <2>1. [id |-> FreshId, body |-> b, attempt |-> 0] \in Copies
    BY FreshIdType DEF Copies
  <2> QED BY <1>1, <1>t, <2>1 DEF Submit, TypeOK, redis, control, history
<1>2. ASSUME NEW b \in Messages, ExpireLease(b) PROVE TypeOK'
  BY <1>2, <1>t DEF ExpireLease, TypeOK, broker, control, history
<1>3. CASE ExpireInflight
  BY <1>3, <1>t DEF ExpireInflight, TypeOK, broker, control, history
<1>4. ASSUME NEW s \in Signatures, ExpireKey(s) PROVE TypeOK'
  BY <1>4, <1>t DEF ExpireKey, TypeOK, broker, control, history
<1>5. ASSUME NEW m \in retryQ, RetryDelayElapsed(m) PROVE TypeOK'
  BY <1>5, <1>t DEF RetryDelayElapsed, TypeOK, redis, control, history
<1>6. ASSUME NEW w \in Workers, NEW m \in queue, Deliver(w, m) PROVE TypeOK'
  <2>1. Validated(m.body) \in Steps \ {"idle"} /\ m \in Copies
    BY <1>t DEF Validated, TypeOK
  <2> QED BY <1>6, <1>t, <2>1 DEF Deliver, Goto, TypeOK, redis, history
<1>7. ASSUME NEW w \in Workers, AcquireDedup(w) PROVE TypeOK'
  BY <1>7, <1>m, <1>t DEF AcquireDedup, Goto, broker, TypeOK, history, GivenBack, Busy
<1>8. ASSUME NEW w \in Workers, MarkInflight(w) PROVE TypeOK'
  BY <1>8, <1>m, <1>t DEF MarkInflight, Goto, broker, TypeOK, history, GivenBack, Busy
<1>9. ASSUME NEW w \in Workers, ExpireMark(w) PROVE TypeOK'
  BY <1>9, <1>m, <1>t DEF ExpireMark, Goto, broker, TypeOK, history, GivenBack, Busy
<1>10. ASSUME NEW w \in Workers, UndoDedup(w) PROVE TypeOK'
  BY <1>10, <1>m, <1>t DEF UndoDedup, Goto, broker, TypeOK, history, GivenBack, Busy
<1>11. ASSUME NEW w \in Workers, RejectTurned(w) PROVE TypeOK'
  BY <1>11, <1>m, <1>t DEF RejectTurned, Free, Goto, broker, redis, TypeOK, history,
     GivenBack, Busy
<1>12. ASSUME NEW w \in Workers, BuryTurned(w) PROVE TypeOK'
  BY <1>12, <1>m, <1>t DEF BuryTurned, Goto, redis, TypeOK, history, GivenBack, Busy
<1>13. ASSUME NEW w \in Workers, AcquireLease(w) PROVE TypeOK'
  BY <1>13, <1>m, <1>t DEF AcquireLease, Goto, broker, TypeOK, history, GivenBack, Busy
<1>14. ASSUME NEW w \in Workers, LeaseConflict(w) PROVE TypeOK'
  BY <1>14, <1>m, <1>t DEF LeaseConflict, Goto, redis, TypeOK, history, GivenBack, Busy
<1>15. ASSUME NEW w \in Workers, HandlerReturns(w) PROVE TypeOK'
  BY <1>15, <1>m, <1>t DEF HandlerReturns, Finally, Goto, broker, redis, TypeOK,
     history, GivenBack, Busy
<1>16. ASSUME NEW w \in Workers, HandlerFails(w) PROVE TypeOK'
  BY <1>16, <1>m, <1>t DEF HandlerFails, Goto, broker, redis, TypeOK, history,
     GivenBack, Busy
<1>17. ASSUME NEW w \in Workers, RejectFailed(w) PROVE TypeOK'
  BY <1>17, <1>m, <1>t DEF RejectFailed, Finally, Goto, broker, redis, TypeOK, history,
     GivenBack, Busy
<1>18. ASSUME NEW w \in Workers, PublishRetry(w) PROVE TypeOK'
  <2>1. [id |-> FreshId, body |-> Body(w), attempt |-> msg[w].attempt + 1] \in Copies
    BY <1>18, <1>t, RetryCopy DEF PublishRetry, TypeOK
  <2> QED BY <1>18, <1>m, <1>t, <2>1 DEF PublishRetry, Finally, Goto, redis, TypeOK, history
<1>19. ASSUME NEW w \in Workers, PublishDeadLetter(w) PROVE TypeOK'
  BY <1>19, <1>m, <1>t DEF PublishDeadLetter, Finally, Goto, redis, TypeOK, history,
     GivenBack, Busy
<1>20. ASSUME NEW w \in Workers, ClearInflight(w) PROVE TypeOK'
  BY <1>20, <1>m, <1>t DEF ClearInflight, Goto, broker, TypeOK, history, GivenBack, Busy
<1>21. ASSUME NEW w \in Workers, ReleaseDedup(w) PROVE TypeOK'
  BY <1>21, <1>m, <1>t DEF ReleaseDedup, Free, Goto, broker, TypeOK, history, GivenBack,
     Busy
<1>22. ASSUME NEW w \in Workers, ReleaseLease(w) PROVE TypeOK'
  BY <1>22, <1>m, <1>t DEF ReleaseLease, Proceed, Free, Goto, broker, TypeOK, history,
     GivenBack, Busy
<1>23. ASSUME NEW w \in Workers, Ack(w) PROVE TypeOK'
  BY <1>23, <1>m, <1>t DEF Ack, Free, Goto, broker, redis, TypeOK, history, GivenBack,
     Busy
<1>24. ASSUME NEW w \in Workers, StaleDelivery(w) PROVE TypeOK'
  BY <1>24, <1>m, <1>t DEF StaleDelivery, Finally, Goto, broker, redis, TypeOK, history,
     GivenBack, Busy
<1>25. ASSUME NEW w \in Workers, CloseChannel(w) PROVE TypeOK'
  BY <1>25, <1>m, <1>t DEF CloseChannel, Free, Goto, Returned, redis, TypeOK, history,
     GivenBack, Busy
<1>26. ASSUME NEW w \in Workers, Interrupt(w) PROVE TypeOK'
  BY <1>26, <1>m, <1>t DEF Interrupt, Fault, Finally, Goto, broker, redis, TypeOK,
     history, GivenBack, Busy
<1>27. ASSUME NEW w \in Workers, CleanupFails(w) PROVE TypeOK'
  BY <1>27, <1>m, <1>t DEF CleanupFails, Fault, Free, Goto, broker, redis, TypeOK,
     history, GivenBack, Busy
<1>28. ASSUME NEW w \in Workers, Crash(w) PROVE TypeOK'
  BY <1>28, <1>m, <1>t DEF Crash, Fault, Free, Goto, Returned, redis, TypeOK, history,
     GivenBack, Busy
<1>29. ASSUME NEW w \in Workers, LoseChannel(w) PROVE TypeOK'
  BY <1>29, <1>m, <1>t DEF LoseChannel, Fault, redis, TypeOK, history, GivenBack, Busy
<1>30. CASE UNCHANGED vars
  BY <1>30, <1>t DEF vars, broker, redis, control, history, TypeOK
<1> QED
  BY <1>1, <1>2, <1>3, <1>4, <1>5, <1>6, <1>7, <1>8, <1>9, <1>10, <1>11, <1>12, <1>13,
     <1>14, <1>15, <1>16, <1>17, <1>18, <1>19, <1>20, <1>21, <1>22, <1>23, <1>24, <1>25,
     <1>26, <1>27, <1>28, <1>29, <1>30 DEF Next, WorkerStep

(* Every step leaves finitely many copies: it adds one at most.            *)
LEMMA NextCounted == StageInv /\ [Next]_vars => Counted'
<1> SUFFICES ASSUME StageInv, [Next]_vars PROVE Counted'
  OBVIOUS
<1>c. Counted /\ TypeOK
  BY DEF StageInv
<1> DEFINE Grows(S, T) == \E x : T \subseteq S \cup {x}
           AddsOne == Grows(queue, queue') /\ Grows(retryQ, retryQ') /\ Grows(Busy, Busy')
<1>g. ASSUME NEW S, NEW T, IsFiniteSet(S), Grows(S, T) PROVE IsFiniteSet(T)
  <2>1. PICK x : T \subseteq S \cup {x}
    BY <1>g
  <2>2. IsFiniteSet(S \cup {x})
    BY <1>g, FS_AddElement
  <2> QED BY <2>1, <2>2, FS_Subset
<1>a. ASSUME AddsOne PROVE Counted'
  BY <1>a, <1>c, <1>g DEF Counted
<1>n. \A S : Grows(S, S)
  OBVIOUS
<1>1. ASSUME NEW b \in Messages, Submit(b) PROVE AddsOne
  BY <1>1, <1>c, <1>n DEF Submit, redis, control, Busy, TypeOK
<1>2. ASSUME NEW b \in Messages, ExpireLease(b) PROVE AddsOne
  BY <1>2, <1>c, <1>n DEF ExpireLease, broker, control, Busy, TypeOK
<1>3. ASSUME ExpireInflight PROVE AddsOne
  BY <1>3, <1>c, <1>n DEF ExpireInflight, broker, control, Busy, TypeOK
<1>4. ASSUME NEW s \in Signatures, ExpireKey(s) PROVE AddsOne
  BY <1>4, <1>c, <1>n DEF ExpireKey, broker, control, Busy, TypeOK
<1>5. ASSUME NEW m \in retryQ, RetryDelayElapsed(m) PROVE AddsOne
  BY <1>5, <1>c, <1>n DEF RetryDelayElapsed, redis, control, Busy, TypeOK
<1>6. ASSUME NEW w \in Workers, NEW m \in queue, Deliver(w, m) PROVE AddsOne
  BY <1>6, <1>c, <1>n DEF Deliver, Goto, redis, Busy, TypeOK
<1>7. ASSUME NEW w \in Workers, AcquireDedup(w) PROVE AddsOne
  BY <1>7, <1>c, <1>n DEF AcquireDedup, Goto, broker, Busy, TypeOK
<1>8. ASSUME NEW w \in Workers, MarkInflight(w) PROVE AddsOne
  BY <1>8, <1>c, <1>n DEF MarkInflight, Goto, broker, Busy, TypeOK
<1>9. ASSUME NEW w \in Workers, ExpireMark(w) PROVE AddsOne
  BY <1>9, <1>c, <1>n DEF ExpireMark, Goto, broker, Busy, TypeOK
<1>10. ASSUME NEW w \in Workers, UndoDedup(w) PROVE AddsOne
  BY <1>10, <1>c, <1>n DEF UndoDedup, Goto, broker, Busy, TypeOK
<1>11. ASSUME NEW w \in Workers, RejectTurned(w) PROVE AddsOne
  BY <1>11, <1>c, <1>n DEF RejectTurned, Free, Goto, broker, redis, Busy, TypeOK
<1>12. ASSUME NEW w \in Workers, BuryTurned(w) PROVE AddsOne
  BY <1>12, <1>c, <1>n DEF BuryTurned, Goto, redis, Busy, TypeOK
<1>13. ASSUME NEW w \in Workers, AcquireLease(w) PROVE AddsOne
  BY <1>13, <1>c, <1>n DEF AcquireLease, Goto, broker, Busy, TypeOK
<1>14. ASSUME NEW w \in Workers, LeaseConflict(w) PROVE AddsOne
  BY <1>14, <1>c, <1>n DEF LeaseConflict, Goto, redis, Busy, TypeOK
<1>15. ASSUME NEW w \in Workers, HandlerReturns(w) PROVE AddsOne
  BY <1>15, <1>c, <1>n DEF HandlerReturns, Finally, Goto, broker, redis, Busy, TypeOK
<1>16. ASSUME NEW w \in Workers, HandlerFails(w) PROVE AddsOne
  BY <1>16, <1>c, <1>n DEF HandlerFails, Goto, broker, redis, Busy, TypeOK
<1>17. ASSUME NEW w \in Workers, RejectFailed(w) PROVE AddsOne
  BY <1>17, <1>c, <1>n DEF RejectFailed, Finally, Goto, broker, redis, Busy, TypeOK
<1>18. ASSUME NEW w \in Workers, PublishRetry(w) PROVE AddsOne
  BY <1>18, <1>c, <1>n DEF PublishRetry, Finally, Goto, redis, Busy, TypeOK
<1>19. ASSUME NEW w \in Workers, PublishDeadLetter(w) PROVE AddsOne
  BY <1>19, <1>c, <1>n DEF PublishDeadLetter, Finally, Goto, redis, Busy, TypeOK
<1>20. ASSUME NEW w \in Workers, ClearInflight(w) PROVE AddsOne
  BY <1>20, <1>c, <1>n DEF ClearInflight, Goto, broker, Busy, TypeOK
<1>21. ASSUME NEW w \in Workers, ReleaseDedup(w) PROVE AddsOne
  BY <1>21, <1>c, <1>n DEF ReleaseDedup, Free, Goto, broker, Busy, TypeOK
<1>22. ASSUME NEW w \in Workers, ReleaseLease(w) PROVE AddsOne
  BY <1>22, <1>c, <1>n DEF ReleaseLease, Proceed, Free, Goto, broker, Busy, TypeOK
<1>23. ASSUME NEW w \in Workers, Ack(w) PROVE AddsOne
  BY <1>23, <1>c, <1>n DEF Ack, Free, Goto, broker, redis, Busy, TypeOK
<1>24. ASSUME NEW w \in Workers, StaleDelivery(w) PROVE AddsOne
  BY <1>24, <1>c, <1>n DEF StaleDelivery, Finally, Goto, broker, redis, Busy, TypeOK
<1>25. ASSUME NEW w \in Workers, CloseChannel(w) PROVE AddsOne
  BY <1>25, <1>c, <1>n DEF CloseChannel, Free, Goto, Returned, redis, Busy, TypeOK
<1>26. ASSUME NEW w \in Workers, Interrupt(w) PROVE AddsOne
  BY <1>26, <1>c, <1>n DEF Interrupt, Fault, Finally, Goto, broker, redis, Busy, TypeOK
<1>27. ASSUME NEW w \in Workers, CleanupFails(w) PROVE AddsOne
  BY <1>27, <1>c, <1>n DEF CleanupFails, Fault, Free, Goto, broker, redis, Busy, TypeOK
<1>28. ASSUME NEW w \in Workers, Crash(w) PROVE AddsOne
  BY <1>28, <1>c, <1>n DEF Crash, Fault, Free, Goto, Returned, redis, Busy, TypeOK
<1>29. ASSUME NEW w \in Workers, LoseChannel(w) PROVE AddsOne
  BY <1>29, <1>c, <1>n DEF LoseChannel, Fault, redis, Busy, TypeOK
<1>30. ASSUME UNCHANGED vars PROVE AddsOne
  BY <1>30, <1>n DEF vars, broker, control, Busy
<1> HIDE DEF AddsOne
<1> QED
  BY <1>a, <1>1, <1>2, <1>3, <1>4, <1>5, <1>6, <1>7, <1>8, <1>9, <1>10, <1>11, <1>12,
     <1>13, <1>14, <1>15, <1>16, <1>17, <1>18, <1>19, <1>20, <1>21, <1>22, <1>23, <1>24,
     <1>25, <1>26, <1>27, <1>28, <1>29, <1>30 DEF Next, WorkerStep

(* Every step keeps a delivery with a busy worker until it is given back.  *)
LEMMA NextGivenBack == StageInv /\ [Next]_vars => GivenBack'
<1> SUFFICES ASSUME StageInv, [Next]_vars PROVE GivenBack'
  OBVIOUS
<1> USE NoCopyAssumption DEF StageInv, TypeOK, GivenBack, Busy, Cleanup
<1>1. ASSUME NEW b \in Messages, Submit(b) PROVE GivenBack'
  BY <1>1 DEF Submit, redis, control
<1>2. ASSUME NEW b \in Messages, ExpireLease(b) PROVE GivenBack'
  BY <1>2 DEF ExpireLease, broker, control
<1>3. CASE ExpireInflight
  BY <1>3 DEF ExpireInflight, broker, control
<1>4. ASSUME NEW s \in Signatures, ExpireKey(s) PROVE GivenBack'
  BY <1>4 DEF ExpireKey, broker, control
<1>5. ASSUME NEW m \in retryQ, RetryDelayElapsed(m) PROVE GivenBack'
  BY <1>5 DEF RetryDelayElapsed, redis, control
<1>6. ASSUME NEW w \in Workers, NEW m \in queue, Deliver(w, m) PROVE GivenBack'
  BY <1>6 DEF Deliver, Goto, redis, Validated
<1>7. ASSUME NEW w \in Workers, AcquireDedup(w) PROVE GivenBack'
  BY <1>7 DEF AcquireDedup, Goto, broker
<1>8. ASSUME NEW w \in Workers, MarkInflight(w) PROVE GivenBack'
  BY <1>8 DEF MarkInflight, Goto, broker
<1>9. ASSUME NEW w \in Workers, ExpireMark(w) PROVE GivenBack'
  BY <1>9 DEF ExpireMark, Goto, broker
<1>10. ASSUME NEW w \in Workers, UndoDedup(w) PROVE GivenBack'
  BY <1>10 DEF UndoDedup, Goto, broker
<1>11. ASSUME NEW w \in Workers, RejectTurned(w) PROVE GivenBack'
  BY <1>11 DEF RejectTurned, Free, Goto, broker, redis
<1>12. ASSUME NEW w \in Workers, BuryTurned(w) PROVE GivenBack'
  BY <1>12 DEF BuryTurned, Goto, redis
<1>13. ASSUME NEW w \in Workers, AcquireLease(w) PROVE GivenBack'
  BY <1>13 DEF AcquireLease, Goto, broker
<1>14. ASSUME NEW w \in Workers, LeaseConflict(w) PROVE GivenBack'
  BY <1>14 DEF LeaseConflict, Goto, redis
<1>15. ASSUME NEW w \in Workers, HandlerReturns(w) PROVE GivenBack'
  BY <1>15 DEF HandlerReturns, Finally, Goto, broker, redis
<1>16. ASSUME NEW w \in Workers, HandlerFails(w) PROVE GivenBack'
  BY <1>16 DEF HandlerFails, Goto, broker, redis
<1>17. ASSUME NEW w \in Workers, RejectFailed(w) PROVE GivenBack'
  BY <1>17 DEF RejectFailed, Finally, Goto, broker, redis
<1>18. ASSUME NEW w \in Workers, PublishRetry(w) PROVE GivenBack'
  BY <1>18 DEF PublishRetry, Finally, Goto, redis
<1>19. ASSUME NEW w \in Workers, PublishDeadLetter(w) PROVE GivenBack'
  BY <1>19 DEF PublishDeadLetter, Finally, Goto, redis
<1>20. ASSUME NEW w \in Workers, ClearInflight(w) PROVE GivenBack'
  BY <1>20 DEF ClearInflight, Goto, broker
<1>21. ASSUME NEW w \in Workers, ReleaseDedup(w) PROVE GivenBack'
  BY <1>21 DEF ReleaseDedup, Free, Goto, broker
<1>22. ASSUME NEW w \in Workers, ReleaseLease(w) PROVE GivenBack'
  BY <1>22 DEF ReleaseLease, Proceed, Free, Goto, broker
<1>23. ASSUME NEW w \in Workers, Ack(w) PROVE GivenBack'
  BY <1>23 DEF Ack, Free, Goto, broker, redis
<1>24. ASSUME NEW w \in Workers, StaleDelivery(w) PROVE GivenBack'
  BY <1>24 DEF StaleDelivery, Finally, Goto, broker, redis
<1>25. ASSUME NEW w \in Workers, CloseChannel(w) PROVE GivenBack'
  BY <1>25 DEF CloseChannel, Free, Goto, Returned, redis
<1>26. ASSUME NEW w \in Workers, Interrupt(w) PROVE GivenBack'
  BY <1>26 DEF Interrupt, Fault, Finally, Goto, broker, redis
<1>27. ASSUME NEW w \in Workers, CleanupFails(w) PROVE GivenBack'
  BY <1>27 DEF CleanupFails, Fault, Free, Goto, broker, redis
<1>28. ASSUME NEW w \in Workers, Crash(w) PROVE GivenBack'
  BY <1>28 DEF Crash, Fault, Free, Goto, Returned, redis
<1>29. ASSUME NEW w \in Workers, LoseChannel(w) PROVE GivenBack'
  BY <1>29 DEF LoseChannel, Fault, redis
<1>30. CASE UNCHANGED vars
  BY <1>30 DEF vars, control
<1> QED
  BY <1>1, <1>2, <1>3, <1>4, <1>5, <1>6, <1>7, <1>8, <1>9, <1>10, <1>11, <1>12, <1>13,
     <1>14, <1>15, <1>16, <1>17, <1>18, <1>19, <1>20, <1>21, <1>22, <1>23, <1>24, <1>25,
     <1>26, <1>27, <1>28, <1>29, <1>30 DEF Next, WorkerStep

(* A step of worker w that loses no copy and no outcome, and still bears   *)
(* its message or leaves it in a queue or with an outcome.                 *)
PassesOn(w) ==
    /\ unsent' = unsent
    /\ queue \cup retryQ \subseteq queue' \cup retryQ'
    /\ dlq \cup settled \subseteq dlq' \cup settled'
    /\ \A v \in Workers \ {w} : /\ pc'[v] = pc[v] /\ msg'[v] = msg[v] /\ after'[v] = after[v]
                                /\ v \in held' <=> v \in held
    /\ \/ w \notin Bearers
       \/ w \in Bearers' /\ msg'[w] = msg[w]
       \/ \E m \in queue' \cup retryQ' : m.body = msg[w].body
       \/ msg[w].body \in dlq' \cup settled'

(* Such a step loses no message.                                           *)
LEMMA PassedOn ==
    ASSUME StageInv, Borne, NEW w \in Workers, PassesOn(w)
    PROVE  Borne'
<1> SUFFICES ASSUME NEW b \in Messages \ unsent
             PROVE  \/ \E m \in queue' \cup retryQ' : m.body = b
                    \/ \E v \in Bearers' : msg'[v].body = b
                    \/ b \in dlq' \cup settled'
  BY DEF Borne, PassesOn
<1>1. \A v \in Workers \ {w} : v \in Bearers => v \in Bearers' /\ msg'[v] = msg[v]
  BY DEF PassesOn, Bearers, Acking
<1>2. CASE \E m \in queue \cup retryQ : m.body = b
  BY <1>2 DEF PassesOn
<1>3. CASE b \in dlq \cup settled
  BY <1>3 DEF PassesOn
<1>4. ASSUME NEW v \in Bearers, msg[v].body = b
      PROVE  \/ \E m \in queue' \cup retryQ' : m.body = b
             \/ \E u \in Bearers' : msg'[u].body = b
             \/ b \in dlq' \cup settled'
  <2>1. v \in Workers
    BY DEF Bearers, StageInv, TypeOK
  <2>2. CASE v # w
    BY <1>1, <1>4, <2>1, <2>2
  <2>3. CASE v = w
    BY <1>4, <2>3 DEF PassesOn
  <2> QED BY <2>2, <2>3
<1> QED BY <1>2, <1>3, <1>4 DEF Borne

(* Every step keeps every message borne.                                   *)
LEMMA NextBorne == StageInv /\ Borne /\ [Next]_vars => Borne'
<1> SUFFICES ASSUME StageInv, Borne, [Next]_vars PROVE Borne'
  OBVIOUS
<1>t. TypeOK /\ GivenBack
  BY DEF StageInv
<1>1. ASSUME NEW b \in Messages, Submit(b) PROVE Borne'
  <2> DEFINE c == [id |-> FreshId, body |-> b, attempt |-> 0]
  <2>1. c.body = b
    OBVIOUS
  <2>2. /\ unsent' = unsent \ {b} /\ queue' = queue \cup {c} /\ retryQ' = retryQ
        /\ dlq' = dlq /\ settled' = settled /\ msg' = msg /\ Bearers' = Bearers
    BY <1>1 DEF Submit, control, history, Bearers, Acking
  <2> HIDE DEF c
  <2> QED BY <2>1, <2>2 DEF Borne
<1>2. ASSUME NEW b \in Messages, ExpireLease(b) PROVE Borne'
  BY <1>2 DEF ExpireLease, broker, control, history, Borne, Bearers, Acking
<1>3. CASE ExpireInflight
  BY <1>3 DEF ExpireInflight, broker, control, history, Borne, Bearers, Acking
<1>4. ASSUME NEW s \in Signatures, ExpireKey(s) PROVE Borne'
  BY <1>4 DEF ExpireKey, broker, control, history, Borne, Bearers, Acking
<1>5. ASSUME NEW m \in retryQ, RetryDelayElapsed(m) PROVE Borne'
  <2>1. queue' \cup retryQ' = queue \cup retryQ
    BY <1>5 DEF RetryDelayElapsed
  <2> QED BY <1>5, <2>1 DEF RetryDelayElapsed, control, history, Borne, Bearers, Acking
<1>6. ASSUME NEW w \in Workers, NEW m \in queue, Deliver(w, m) PROVE Borne'
  <2>1. w \in Bearers' /\ msg'[w].body = m.body
    BY <1>6, <1>t DEF Deliver, Validated, Goto, Bearers, Acking, Cleanup, TypeOK
  <2>2. \A v \in Bearers : v \in Bearers' /\ msg'[v] = msg[v]
    BY <1>6, <1>t DEF Deliver, Goto, Bearers, Acking, Cleanup, TypeOK, GivenBack, Busy
  <2>3. /\ unsent' = unsent /\ dlq' = dlq /\ settled' = settled
        /\ \A n \in queue \cup retryQ : n = m \/ n \in queue' \cup retryQ'
    BY <1>6 DEF Deliver, history
  <2> QED BY <2>1, <2>2, <2>3 DEF Borne
<1>7. ASSUME NEW w \in Workers, AcquireDedup(w) PROVE PassesOn(w)
  BY <1>7, <1>t DEF AcquireDedup, Goto, broker, history, PassesOn, Bearers, Acking,
     Cleanup, Body, TypeOK, GivenBack
<1>8. ASSUME NEW w \in Workers, MarkInflight(w) PROVE PassesOn(w)
  BY <1>8, <1>t DEF MarkInflight, Goto, broker, history, PassesOn, Bearers, Acking,
     Cleanup, Body, TypeOK, GivenBack
<1>9. ASSUME NEW w \in Workers, ExpireMark(w) PROVE PassesOn(w)
  BY <1>9, <1>t DEF ExpireMark, Goto, broker, history, PassesOn, Bearers, Acking,
     Cleanup, Body, TypeOK, GivenBack
<1>10. ASSUME NEW w \in Workers, UndoDedup(w) PROVE PassesOn(w)
  BY <1>10, <1>t DEF UndoDedup, Goto, broker, history, PassesOn, Bearers, Acking,
     Cleanup, Body, TypeOK, GivenBack
<1>11. ASSUME NEW w \in Workers, RejectTurned(w) PROVE PassesOn(w)
  BY <1>11, <1>t DEF RejectTurned, Free, Goto, broker, redis, history, PassesOn,
     Bearers, Acking, Cleanup, Body, TypeOK, GivenBack
<1>12. ASSUME NEW w \in Workers, BuryTurned(w) PROVE PassesOn(w)
  BY <1>12, <1>t DEF BuryTurned, Goto, redis, history, PassesOn, Bearers, Acking,
     Cleanup, Body, TypeOK, GivenBack
<1>13. ASSUME NEW w \in Workers, AcquireLease(w) PROVE PassesOn(w)
  BY <1>13, <1>t DEF AcquireLease, Goto, broker, history, PassesOn, Bearers, Acking,
     Cleanup, Body, TypeOK, GivenBack
<1>14. ASSUME NEW w \in Workers, LeaseConflict(w) PROVE PassesOn(w)
  BY <1>14, <1>t DEF LeaseConflict, Goto, redis, history, PassesOn, Bearers, Acking,
     Cleanup, Body, TypeOK, GivenBack
<1>15. ASSUME NEW w \in Workers, HandlerReturns(w) PROVE PassesOn(w)
  BY <1>15, <1>t DEF HandlerReturns, Finally, Goto, broker, redis, history, PassesOn,
     Bearers, Acking, Cleanup, Body, TypeOK, GivenBack
<1>16. ASSUME NEW w \in Workers, HandlerFails(w) PROVE PassesOn(w)
  BY <1>16, <1>t DEF HandlerFails, Goto, broker, redis, history, PassesOn, Bearers,
     Acking, Cleanup, Body, TypeOK, GivenBack
<1>17. ASSUME NEW w \in Workers, RejectFailed(w) PROVE PassesOn(w)
  BY <1>17, <1>t DEF RejectFailed, Finally, Goto, broker, redis, history, PassesOn,
     Bearers, Acking, Cleanup, Body, TypeOK, GivenBack
<1>18. ASSUME NEW w \in Workers, PublishRetry(w) PROVE PassesOn(w)
  <2> DEFINE c == [id |-> FreshId, body |-> Body(w), attempt |-> msg[w].attempt + 1]
  <2>1. c.body = msg[w].body
    BY DEF Body
  <2>2. /\ unsent' = unsent /\ queue' = queue /\ retryQ' = retryQ \cup {c}
        /\ dlq' = dlq /\ settled' = settled /\ held' = held
        /\ \A v \in Workers \ {w} : pc'[v] = pc[v] /\ msg'[v] = msg[v] /\ after'[v] = after[v]
    BY <1>18, <1>t DEF PublishRetry, Finally, Goto, history, TypeOK
  <2> HIDE DEF c
  <2> QED BY <2>1, <2>2 DEF PassesOn
<1>19. ASSUME NEW w \in Workers, PublishDeadLetter(w) PROVE PassesOn(w)
  BY <1>19, <1>t DEF PublishDeadLetter, Finally, Goto, redis, history, PassesOn,
     Bearers, Acking, Cleanup, Body, TypeOK, GivenBack
<1>20. ASSUME NEW w \in Workers, ClearInflight(w) PROVE PassesOn(w)
  BY <1>20, <1>t DEF ClearInflight, Goto, broker, history, PassesOn, Bearers, Acking,
     Cleanup, Body, TypeOK, GivenBack
<1>21. ASSUME NEW w \in Workers, ReleaseDedup(w) PROVE PassesOn(w)
  BY <1>21, <1>t DEF ReleaseDedup, Free, Goto, broker, history, PassesOn, Bearers,
     Acking, Cleanup, Body, TypeOK, GivenBack
<1>22. ASSUME NEW w \in Workers, ReleaseLease(w) PROVE PassesOn(w)
  BY <1>22, <1>t DEF ReleaseLease, Proceed, Free, Goto, broker, history, PassesOn,
     Bearers, Acking, Cleanup, Body, TypeOK, GivenBack
<1>23. ASSUME NEW w \in Workers, Ack(w) PROVE PassesOn(w)
  BY <1>23, <1>t DEF Ack, Free, Goto, broker, redis, history, PassesOn, Bearers, Acking,
     Cleanup, Body, TypeOK, GivenBack
<1>24. ASSUME NEW w \in Workers, StaleDelivery(w) PROVE PassesOn(w)
  BY <1>24, <1>t DEF StaleDelivery, Finally, Goto, broker, redis, history, PassesOn,
     Bearers, Acking, Cleanup, Body, TypeOK, GivenBack
<1>25. ASSUME NEW w \in Workers, CloseChannel(w) PROVE PassesOn(w)
  BY <1>25, <1>t DEF CloseChannel, Free, Goto, Returned, redis, history, PassesOn,
     Bearers, Acking, Cleanup, Body, TypeOK, GivenBack
<1>26. ASSUME NEW w \in Workers, Interrupt(w) PROVE PassesOn(w)
  BY <1>26, <1>t DEF Interrupt, Fault, Finally, Goto, broker, redis, history, PassesOn,
     Bearers, Acking, Cleanup, Body, TypeOK, GivenBack
<1>27. ASSUME NEW w \in Workers, CleanupFails(w) PROVE PassesOn(w)
  BY <1>27, <1>t DEF CleanupFails, Fault, Free, Goto, broker, redis, history, PassesOn,
     Bearers, Acking, Cleanup, Body, TypeOK, GivenBack
<1>28. ASSUME NEW w \in Workers, Crash(w) PROVE PassesOn(w)
  BY <1>28, <1>t DEF Crash, Fault, Free, Goto, Returned, redis, history, PassesOn,
     Bearers, Acking, Cleanup, Body, TypeOK, GivenBack
<1>29. ASSUME NEW w \in Workers, LoseChannel(w) PROVE PassesOn(w)
  BY <1>29, <1>t DEF LoseChannel, Fault, redis, history, PassesOn, Bearers, Acking,
     Cleanup, Body, TypeOK, GivenBack
<1>30. CASE UNCHANGED vars
  BY <1>30 DEF vars, broker, control, history, Borne, Bearers, Acking
<1> QED
  BY PassedOn, <1>1, <1>2, <1>3, <1>4, <1>5, <1>6, <1>7, <1>8, <1>9, <1>10, <1>11,
     <1>12, <1>13, <1>14, <1>15, <1>16, <1>17, <1>18, <1>19, <1>20, <1>21, <1>22, <1>23,
     <1>24, <1>25, <1>26, <1>27, <1>28, <1>29, <1>30 DEF Next, WorkerStep

(* Every step keeps dedup and lease to where they are configured.          *)
LEMMA NextConfigured == StageInv /\ Configured /\ [Next]_vars => Configured'
<1> SUFFICES ASSUME StageInv, Configured, [Next]_vars PROVE Configured'
  OBVIOUS
<1> USE DEF StageInv, TypeOK, Configured
<1>1. ASSUME NEW b \in Messages, Submit(b) PROVE Configured'
  BY <1>1 DEF Submit, redis, control
<1>2. ASSUME NEW b \in Messages, ExpireLease(b) PROVE Configured'
  BY <1>2 DEF ExpireLease, broker, control
<1>3. CASE ExpireInflight
  BY <1>3 DEF ExpireInflight, broker, control
<1>4. ASSUME NEW s \in Signatures, ExpireKey(s) PROVE Configured'
  BY <1>4 DEF ExpireKey, broker, control
<1>5. ASSUME NEW m \in retryQ, RetryDelayElapsed(m) PROVE Configured'
  BY <1>5 DEF RetryDelayElapsed, redis, control
<1>6. ASSUME NEW w \in Workers, NEW m \in queue, Deliver(w, m) PROVE Configured'
  BY <1>6 DEF Deliver, Goto, redis, Validated
<1>7. ASSUME NEW w \in Workers, AcquireDedup(w) PROVE Configured'
  BY <1>7 DEF AcquireDedup, Goto, broker
<1>8. ASSUME NEW w \in Workers, MarkInflight(w) PROVE Configured'
  BY <1>8 DEF MarkInflight, Goto, broker
<1>9. ASSUME NEW w \in Workers, ExpireMark(w) PROVE Configured'
  BY <1>9 DEF ExpireMark, Goto, broker
<1>10. ASSUME NEW w \in Workers, UndoDedup(w) PROVE Configured'
  BY <1>10 DEF UndoDedup, Goto, broker
<1>11. ASSUME NEW w \in Workers, RejectTurned(w) PROVE Configured'
  BY <1>11 DEF RejectTurned, Free, Goto, broker, redis
<1>12. ASSUME NEW w \in Workers, BuryTurned(w) PROVE Configured'
  BY <1>12 DEF BuryTurned, Goto, redis
<1>13. ASSUME NEW w \in Workers, AcquireLease(w) PROVE Configured'
  BY <1>13 DEF AcquireLease, Goto, broker
<1>14. ASSUME NEW w \in Workers, LeaseConflict(w) PROVE Configured'
  BY <1>14 DEF LeaseConflict, Goto, redis
<1>15. ASSUME NEW w \in Workers, HandlerReturns(w) PROVE Configured'
  BY <1>15 DEF HandlerReturns, Finally, Goto, broker, redis
<1>16. ASSUME NEW w \in Workers, HandlerFails(w) PROVE Configured'
  BY <1>16 DEF HandlerFails, Goto, broker, redis
<1>17. ASSUME NEW w \in Workers, RejectFailed(w) PROVE Configured'
  BY <1>17 DEF RejectFailed, Finally, Goto, broker, redis
<1>18. ASSUME NEW w \in Workers, PublishRetry(w) PROVE Configured'
  BY <1>18 DEF PublishRetry, Finally, Goto, redis
<1>19. ASSUME NEW w \in Workers, PublishDeadLetter(w) PROVE Configured'
  BY <1>19 DEF PublishDeadLetter, Finally, Goto, redis
<1>20. ASSUME NEW w \in Workers, ClearInflight(w) PROVE Configured'
  BY <1>20 DEF ClearInflight, Goto, broker
<1>21. ASSUME NEW w \in Workers, ReleaseDedup(w) PROVE Configured'
  BY <1>21 DEF ReleaseDedup, Free, Goto, broker
<1>22. ASSUME NEW w \in Workers, ReleaseLease(w) PROVE Configured'
  BY <1>22 DEF ReleaseLease, Proceed, Free, Goto, broker
<1>23. ASSUME NEW w \in Workers, Ack(w) PROVE Configured'
  BY <1>23 DEF Ack, Free, Goto, broker, redis
<1>24. ASSUME NEW w \in Workers, StaleDelivery(w) PROVE Configured'
  BY <1>24 DEF StaleDelivery, Finally, Goto, broker, redis
<1>25. ASSUME NEW w \in Workers, CloseChannel(w) PROVE Configured'
  BY <1>25 DEF CloseChannel, Free, Goto, Returned, redis
<1>26. ASSUME NEW w \in Workers, Interrupt(w) PROVE Configured'
  BY <1>26 DEF Interrupt, Fault, Finally, Goto, broker, redis
<1>27. ASSUME NEW w \in Workers, CleanupFails(w) PROVE Configured'
  BY <1>27 DEF CleanupFails, Fault, Free, Goto, broker, redis
<1>28. ASSUME NEW w \in Workers, Crash(w) PROVE Configured'
  BY <1>28 DEF Crash, Fault, Free, Goto, Returned, redis
<1>29. ASSUME NEW w \in Workers, LoseChannel(w) PROVE Configured'
  BY <1>29 DEF LoseChannel, Fault, redis
<1>30. CASE UNCHANGED vars
  BY <1>30 DEF vars, control
<1> QED
  BY <1>1, <1>2, <1>3, <1>4, <1>5, <1>6, <1>7, <1>8, <1>9, <1>10, <1>11, <1>12, <1>13,
     <1>14, <1>15, <1>16, <1>17, <1>18, <1>19, <1>20, <1>21, <1>22, <1>23, <1>24, <1>25,
     <1>26, <1>27, <1>28, <1>29, <1>30 DEF Next, WorkerStep

(* A step of worker w, not yet acking, that moves no copy: a worker that   *)
(* cleans up goes on to ack or to leave.                                   *)
StaysPut(w) ==
    /\ unsent' = unsent /\ queue' = queue /\ retryQ' = retryQ
    /\ pc[w] \notin {"ack", "idle"}
    /\ \A v \in Workers \ {w} : pc'[v] = pc[v] /\ msg'[v] = msg[v]
    /\ msg'[w] \in {msg[w], NoCopy}
    /\ pc[w] \in Cleanup => pc'[w] \in Cleanup \cup {"ack"} \/ msg'[w] = NoCopy

(* Such a step keeps every message in one place.                           *)
LEMMA StaysOnePlace ==
    ASSUME StageInv, OnePlace, NEW w \in Workers, StaysPut(w)
    PROVE  OnePlace'
<1>1. w \in Busy
  BY DEF StaysPut, Busy, StageInv, TypeOK
<1>2. Busy' \subseteq Busy /\ \A v \in Busy' : msg'[v] = msg[v]
  BY <1>1 DEF StaysPut, Busy
<1>3. \A v \in Busy' \ {w} : pc'[v] = pc[v]
  BY DEF StaysPut, Busy
<1>4. \A m \in queue : m.body # msg[w].body
  BY <1>1 DEF OnePlace, StaysPut
<1>5. \A v \in Busy : v # w /\ msg[v].body = msg[w].body => pc[v] = "ack"
  BY <1>1 DEF OnePlace, StaysPut
<1>6. \A m \in retryQ : m.body = msg[w].body /\ w \in Busy' => pc'[w] \in Cleanup \cup {"ack"}
  BY <1>1, <1>2 DEF OnePlace, StaysPut, Busy
<1>7. \A m \in queue : \A v \in Busy' : msg'[v].body = m.body => pc'[v] = "ack"
  BY <1>2, <1>3, <1>4 DEF OnePlace
<1>8. \A m \in retryQ : \A v \in Busy' : msg'[v].body = m.body => pc'[v] \in Cleanup \cup {"ack"}
  BY <1>2, <1>3, <1>6 DEF OnePlace
<1>9. \A u, v \in Busy' : u # v /\ msg'[u].body = msg'[v].body => pc'[u] = "ack" \/ pc'[v] = "ack"
  <2> SUFFICES ASSUME NEW u \in Busy', NEW v \in Busy', u # v, msg'[u].body = msg'[v].body
               PROVE  pc'[u] = "ack" \/ pc'[v] = "ack"
    OBVIOUS
  <2>1. u \in Busy /\ v \in Busy /\ msg[u].body = msg[v].body
    BY <1>2
  <2>2. CASE u = w
    BY <1>3, <1>5, <2>1, <2>2
  <2>3. CASE v = w
    BY <1>3, <1>5, <2>1, <2>3
  <2>4. CASE u # w /\ v # w
    BY <1>3, <2>1, <2>4 DEF OnePlace
  <2> QED BY <2>2, <2>3, <2>4
<1> QED BY <1>2, <1>7, <1>8, <1>9 DEF OnePlace, StaysPut

(* Until the first fault no worker meets a lease, and none is raised.      *)
LEMMA NoConflict ==
    ASSUME StageInv, OnePlace, Owned, NEW w \in Workers
    PROVE  /\ ~LeaseConflict(w) /\ ~StaleDelivery(w) /\ ~CloseChannel(w) /\ ~UndoDedup(w)
           /\ pc[w] = "acquire" => Body(w) \notin leases
<1>1. pc[w] = "acquire" => Body(w) \notin leases
  <2> SUFFICES ASSUME pc[w] = "acquire", Body(w) \in leases PROVE FALSE
    OBVIOUS
  <2>1. PICK v \in Workers : HasLease(v) /\ Body(v) = Body(w)
    BY DEF Owned
  <2>2. v # w /\ v \in Busy /\ w \in Busy /\ pc[v] # "ack"
    BY <2>1 DEF HasLease, Busy, StageInv, TypeOK
  <2> QED BY <2>1, <2>2 DEF OnePlace, Body
<1>2. ~StaleDelivery(w)
  BY DEF StaleDelivery, Owned, Cleanup
<1> QED BY <1>1, <1>2 DEF LeaseConflict, CloseChannel, UndoDedup, Owned

(* Until the first fault every step keeps a message in one place.          *)
LEMMA NextOnePlace ==
    ASSUME SlowRetry, StageInv, OnePlace, Owned, Next, faults' = 0
    PROVE  OnePlace'
<1>t. TypeOK
  BY DEF StageInv
<1>f. faults + 1 # 0
  BY <1>t, WorkflowAssumption DEF TypeOK
<1>1. ASSUME NEW b \in Messages, Submit(b) PROVE OnePlace'
  <2> DEFINE c == [id |-> FreshId, body |-> b, attempt |-> 0]
  <2>1. c.body = b
    OBVIOUS
  <2>2. /\ b \in unsent /\ unsent' = unsent \ {b} /\ queue' = queue \cup {c} /\ retryQ' = retryQ
        /\ msg' = msg /\ pc' = pc /\ Busy' = Busy
    BY <1>1 DEF Submit, control, Busy
  <2> HIDE DEF c
  <2> QED BY <2>1, <2>2 DEF OnePlace
<1>2. ASSUME NEW b \in Messages, ExpireLease(b) PROVE OnePlace'
  BY <1>2 DEF ExpireLease, broker, control, OnePlace, Busy
<1>3. CASE ExpireInflight
  BY <1>3 DEF ExpireInflight, broker, control, OnePlace, Busy
<1>4. ASSUME NEW s \in Signatures, ExpireKey(s) PROVE OnePlace'
  BY <1>4 DEF ExpireKey, broker, control, OnePlace, Busy
<1>5. ASSUME NEW m \in retryQ, RetryDelayElapsed(m) PROVE OnePlace'
  <2>1. /\ queue' = queue \cup {m} /\ retryQ' = retryQ \ {m} /\ unsent' = unsent
        /\ msg' = msg /\ pc' = pc /\ Busy' = Busy
    BY <1>5 DEF RetryDelayElapsed, control, Busy
  <2>2. \A w \in Busy : msg[w].body = m.body => pc[w] = "ack"
    BY <1>5 DEF RetryDelayElapsed, Retrier, OnePlace, Cleanup, Busy, Body
  <2> QED BY <2>1, <2>2 DEF OnePlace
<1>6. ASSUME NEW w \in Workers, NEW m \in queue, Deliver(w, m) PROVE OnePlace'
  <2>1. /\ queue' = queue \ {m} /\ retryQ' = retryQ /\ unsent' = unsent /\ msg'[w] = m
        /\ w \notin Busy /\ Busy' \subseteq Busy \cup {w}
        /\ \A v \in Workers \ {w} : pc'[v] = pc[v] /\ msg'[v] = msg[v]
    BY <1>6, <1>t DEF Deliver, Goto, TypeOK, Busy
  <2>2. Busy \subseteq Workers
    BY DEF Busy
  <2>3. \A v \in Busy : msg[v].body = m.body => pc[v] = "ack"
    BY DEF OnePlace
  <2>4. \A n \in queue' \cup retryQ' : n.body # m.body
    BY <2>1 DEF OnePlace
  <2>5. \A v \in Busy' : v # w => v \in Busy /\ pc'[v] = pc[v] /\ msg'[v] = msg[v]
    BY <2>1, <2>2
  <2>6. \A u, v \in Busy' : u # v /\ msg'[u].body = msg'[v].body => pc'[u] = "ack" \/ pc'[v] = "ack"
    <3> SUFFICES ASSUME NEW u \in Busy', NEW v \in Busy', u # v, msg'[u].body = msg'[v].body
                 PROVE  pc'[u] = "ack" \/ pc'[v] = "ack"
      OBVIOUS
    <3>1. CASE u = w
      BY <2>1, <2>3, <2>5, <3>1
    <3>2. CASE v = w
      BY <2>1, <2>3, <2>5, <3>2
    <3>3. CASE u # w /\ v # w
      BY <2>5, <3>3 DEF OnePlace
    <3> QED BY <3>1, <3>2, <3>3
  <2>7. \A n \in queue' : \A v \in Busy' : msg'[v].body = n.body => pc'[v] = "ack"
    BY <2>1, <2>4, <2>5 DEF OnePlace
  <2>8. \A n \in retryQ' : \A v \in Busy' : msg'[v].body = n.body => pc'[v] \in Cleanup \cup {"ack"}
    BY <2>1, <2>4, <2>5 DEF OnePlace
  <2>9. \A v \in Busy' : msg'[v].body \notin unsent
    BY <2>1, <2>5 DEF OnePlace
  <2> QED BY <2>1, <2>6, <2>7, <2>8, <2>9 DEF OnePlace
<1>7. ASSUME NEW w \in Workers, PublishRetry(w) PROVE OnePlace'
  <2> DEFINE c == [id |-> FreshId, body |-> Body(w), attempt |-> msg[w].attempt + 1]
  <2>1. c.body = msg[w].body
    BY DEF Body
  <2>2. /\ queue' = queue /\ retryQ' = retryQ \cup {c} /\ unsent' = unsent /\ msg' = msg /\ Busy' = Busy
        /\ pc[w] = "failed" /\ pc'[w] \in Cleanup /\ w \in Busy
        /\ \A v \in Workers \ {w} : pc'[v] = pc[v]
    BY <1>7, <1>t DEF PublishRetry, Finally, Goto, TypeOK, Busy, Cleanup
  <2> HIDE DEF c
  <2>3. \A m \in queue \cup retryQ : m.body # msg[w].body
    BY <2>2 DEF OnePlace, Cleanup
  <2>4. \A v \in Busy \ {w} : msg[v].body = msg[w].body => pc[v] = "ack"
    BY <2>2 DEF OnePlace
  <2>5. Busy \subseteq Workers
    BY DEF Busy
  <2>6. \A u, v \in Busy : u # v /\ msg[u].body = msg[v].body => pc'[u] = "ack" \/ pc'[v] = "ack"
    <3> SUFFICES ASSUME NEW u \in Busy, NEW v \in Busy, u # v, msg[u].body = msg[v].body
                 PROVE  pc'[u] = "ack" \/ pc'[v] = "ack"
      OBVIOUS
    <3>1. CASE u = w \/ v = w
      BY <2>2, <2>4, <2>5, <3>1
    <3>2. CASE u # w /\ v # w
      BY <2>2, <2>5, <3>2 DEF OnePlace
    <3> QED BY <3>1, <3>2
  <2>7. \A m \in queue : \A v \in Busy : msg[v].body = m.body => pc'[v] = "ack"
    BY <2>2, <2>3, <2>5 DEF OnePlace
  <2>8. \A m \in retryQ' : \A v \in Busy : msg[v].body = m.body => pc'[v] \in Cleanup \cup {"ack"}
    <3>1. \A v \in Busy : msg[v].body = c.body => pc'[v] \in Cleanup \cup {"ack"}
      BY <2>1, <2>2, <2>4, <2>5
    <3>2. \A m \in retryQ : \A v \in Busy : msg[v].body = m.body => pc'[v] \in Cleanup \cup {"ack"}
      BY <2>2, <2>3, <2>5 DEF OnePlace
    <3> QED BY <2>2, <3>1, <3>2
  <2>9. c.body \notin unsent /\ c \notin queue
    BY <2>1, <2>2, <2>3 DEF OnePlace
  <2>10. \A m, n \in queue' \cup retryQ' : m.body = n.body => m = n
    BY <2>1, <2>2, <2>3 DEF OnePlace
  <2>11. queue' \cap retryQ' = {}
    BY <2>2, <2>9 DEF OnePlace
  <2>12. \A m \in queue' \cup retryQ' : m.body \notin unsent'
    BY <2>2, <2>9 DEF OnePlace
  <2> QED BY <2>2, <2>6, <2>7, <2>8, <2>10, <2>11, <2>12 DEF OnePlace
<1>8. ASSUME NEW w \in Workers, Ack(w) PROVE OnePlace'
  <2>1. /\ queue' = queue /\ retryQ' = retryQ /\ unsent' = unsent /\ Busy' = Busy \ {w}
        /\ \A v \in Workers \ {w} : pc'[v] = pc[v] /\ msg'[v] = msg[v]
    BY <1>8, <1>t, NoCopyAssumption DEF Ack, Free, Goto, broker, TypeOK, Busy
  <2>2. Busy \subseteq Workers
    BY DEF Busy
  <2> QED BY <2>1, <2>2 DEF OnePlace
<1>9. ASSUME NEW w \in Workers, Interrupt(w) \/ CleanupFails(w) \/ Crash(w) \/ LoseChannel(w) PROVE FALSE
  BY <1>9, <1>f DEF Interrupt, CleanupFails, Crash, LoseChannel, Fault
<1>10. ASSUME NEW w \in Workers PROVE ~LeaseConflict(w) /\ ~StaleDelivery(w) /\ ~CloseChannel(w) /\ ~UndoDedup(w)
  BY NoConflict
<1>11. ASSUME NEW w \in Workers, AcquireDedup(w) PROVE StaysPut(w)
  BY <1>11, <1>t DEF AcquireDedup, Goto, broker, StaysPut, TypeOK, Cleanup
<1>12. ASSUME NEW w \in Workers, MarkInflight(w) PROVE StaysPut(w)
  BY <1>12, <1>t DEF MarkInflight, Goto, broker, StaysPut, TypeOK, Cleanup
<1>13. ASSUME NEW w \in Workers, ExpireMark(w) PROVE StaysPut(w)
  BY <1>13, <1>t DEF ExpireMark, Goto, broker, StaysPut, TypeOK, Cleanup
<1>14. ASSUME NEW w \in Workers, RejectTurned(w) PROVE StaysPut(w)
  BY <1>14, <1>t DEF RejectTurned, Free, Goto, broker, redis, StaysPut, TypeOK, Cleanup
<1>15. ASSUME NEW w \in Workers, BuryTurned(w) PROVE StaysPut(w)
  BY <1>15, <1>t DEF BuryTurned, Goto, redis, StaysPut, TypeOK, Cleanup
<1>16. ASSUME NEW w \in Workers, AcquireLease(w) PROVE StaysPut(w)
  BY <1>16, <1>t DEF AcquireLease, Goto, broker, StaysPut, TypeOK, Cleanup
<1>17. ASSUME NEW w \in Workers, HandlerReturns(w) PROVE StaysPut(w)
  BY <1>17, <1>t DEF HandlerReturns, Finally, Goto, broker, redis, StaysPut, TypeOK,
     Cleanup
<1>18. ASSUME NEW w \in Workers, HandlerFails(w) PROVE StaysPut(w)
  BY <1>18, <1>t DEF HandlerFails, Goto, broker, redis, StaysPut, TypeOK, Cleanup
<1>19. ASSUME NEW w \in Workers, RejectFailed(w) PROVE StaysPut(w)
  BY <1>19, <1>t DEF RejectFailed, Finally, Goto, broker, redis, StaysPut, TypeOK,
     Cleanup
<1>20. ASSUME NEW w \in Workers, PublishDeadLetter(w) PROVE StaysPut(w)
  BY <1>20, <1>t DEF PublishDeadLetter, Finally, Goto, redis, StaysPut, TypeOK, Cleanup
<1>21. ASSUME NEW w \in Workers, ClearInflight(w) PROVE StaysPut(w)
  BY <1>21, <1>t DEF ClearInflight, Goto, broker, StaysPut, TypeOK, Cleanup
<1>22. ASSUME NEW w \in Workers, ReleaseDedup(w) PROVE StaysPut(w)
  BY <1>22, <1>t DEF ReleaseDedup, Free, Goto, broker, StaysPut, TypeOK, Cleanup
<1>23. ASSUME NEW w \in Workers, ReleaseLease(w) PROVE StaysPut(w)
  BY <1>23, <1>t DEF ReleaseLease, Proceed, Free, Goto, broker, StaysPut, TypeOK,
     Cleanup, Owned
<1> QED
  BY StaysOnePlace, <1>1, <1>2, <1>3, <1>4, <1>5, <1>6, <1>7, <1>8, <1>9, <1>10, <1>11,
     <1>12, <1>13, <1>14, <1>15, <1>16, <1>17, <1>18, <1>19, <1>20, <1>21, <1>22, <1>23
     DEF Next, WorkerStep

(* A step of worker w after which every key and lease it leaves in Redis   *)
(* is its own or another worker's, and after which w is in order.          *)
Tidy(w) ==
    /\ \A v \in Workers \ {w} : /\ pc'[v] = pc[v] /\ msg'[v] = msg[v] /\ after'[v] = after[v]
                                /\ v \in held => v \in held'
    /\ \A s \in dedup' : \/ HasKey(w)' /\ Key(w)' = s
                         \/ s \in dedup /\ ~(HasKey(w) /\ Key(w) = s)
    /\ \A b \in leases' : \/ HasLease(w)' /\ Body(w)' = b
                          \/ b \in leases /\ ~(HasLease(w) /\ Body(w) = b)
    /\ pc'[w] \notin Cleanup \cup {"idle"} => w \in held'
    /\ pc'[w] \in Cleanup /\ after'[w] = "ack" => w \in held'
    /\ pc'[w] \notin {"raised", "undo"} /\ after'[w] \in {"ack", "done"}

(* Such a step leaves no key or lease without its worker.                  *)
LEMMA StaysOwned ==
    ASSUME Owned, NEW w \in Workers, Tidy(w)
    PROVE  Owned'
<1>1. \A v \in Workers \ {w} : /\ HasKey(v) => HasKey(v)' /\ Key(v)' = Key(v)
                               /\ HasLease(v) => HasLease(v)' /\ Body(v)' = Body(v)
  BY DEF Tidy, HasKey, Key, HasLease, Body
<1>2. \A s \in dedup' : \E v \in Workers : HasKey(v)' /\ Key(v)' = s
  <2> SUFFICES ASSUME NEW s \in dedup' PROVE \E v \in Workers : HasKey(v)' /\ Key(v)' = s
    OBVIOUS
  <2>1. CASE HasKey(w)' /\ Key(w)' = s
    BY <2>1
  <2>2. CASE s \in dedup /\ ~(HasKey(w) /\ Key(w) = s)
    <3>1. PICK v \in Workers : HasKey(v) /\ Key(v) = s
      BY <2>2 DEF Owned
    <3> QED BY <1>1, <2>2, <3>1
  <2> QED BY <2>1, <2>2 DEF Tidy
<1>3. \A b \in leases' : \E v \in Workers : HasLease(v)' /\ Body(v)' = b
  <2> SUFFICES ASSUME NEW b \in leases' PROVE \E v \in Workers : HasLease(v)' /\ Body(v)' = b
    OBVIOUS
  <2>1. CASE HasLease(w)' /\ Body(w)' = b
    BY <2>1
  <2>2. CASE b \in leases /\ ~(HasLease(w) /\ Body(w) = b)
    <3>1. PICK v \in Workers : HasLease(v) /\ Body(v) = b
      BY <2>2 DEF Owned
    <3> QED BY <1>1, <2>2, <3>1
  <2> QED BY <2>1, <2>2 DEF Tidy
<1> QED BY <1>2, <1>3 DEF Owned, Tidy

(* Until the first fault every step keeps every key and lease owned.       *)
LEMMA NextOwned ==
    ASSUME StageInv, Configured, OnePlace, Owned, Next, faults' = 0
    PROVE  Owned'
<1>t. TypeOK
  BY DEF StageInv
<1>f. faults + 1 # 0
  BY <1>t, WorkflowAssumption DEF TypeOK
<1>o. \A w \in Workers : /\ after[w] \in {"ack", "done"} /\ pc[w] \notin {"raised", "undo"}
                         /\ pc[w] \notin Cleanup \cup {"idle"} => w \in held
                         /\ pc[w] \in Cleanup /\ after[w] = "ack" => w \in held
  BY DEF Owned
<1>c. \A w \in Workers : /\ pc[w] \in {"dedup", "mark", "expire", "undo", "clear", "release"} => Dedup
                         /\ pc[w] = "acquire" => LeaseEnabled
  BY DEF Configured
<1>1. ASSUME NEW b \in Messages, Submit(b) PROVE Owned'
  BY <1>1 DEF Submit, redis, control, Owned, HasKey, Key, HasLease, Body
<1>2. ASSUME NEW b \in Messages, ExpireLease(b) PROVE Owned'
  BY <1>2 DEF ExpireLease, broker, control, Owned, HasKey, Key, HasLease, Body
<1>3. CASE ExpireInflight
  BY <1>3 DEF ExpireInflight, broker, control, Owned, HasKey, Key, HasLease, Body
<1>4. ASSUME NEW s \in Signatures, ExpireKey(s) PROVE Owned'
  BY <1>4 DEF ExpireKey, broker, control, Owned, HasKey, Key, HasLease, Body
<1>5. ASSUME NEW m \in retryQ, RetryDelayElapsed(m) PROVE Owned'
  BY <1>5 DEF RetryDelayElapsed, redis, control, Owned, HasKey, Key, HasLease, Body
<1>6. ASSUME NEW w \in Workers, NEW m \in queue, Deliver(w, m) PROVE Tidy(w)
  BY <1>6, <1>o, <1>t DEF Deliver, Validated, Goto, redis, Tidy, HasKey, Key, HasLease, Body,
     TypeOK, Cleanup
<1>7. ASSUME NEW w \in Workers, Interrupt(w) \/ CleanupFails(w) \/ Crash(w) \/ LoseChannel(w) PROVE FALSE
  BY <1>7, <1>f DEF Interrupt, CleanupFails, Crash, LoseChannel, Fault
<1>8. ASSUME NEW w \in Workers PROVE ~LeaseConflict(w) /\ ~StaleDelivery(w) /\ ~CloseChannel(w) /\ ~UndoDedup(w)
  BY NoConflict
<1>9. ASSUME NEW w \in Workers, AcquireDedup(w) PROVE Tidy(w)
  BY <1>9, <1>c, <1>o, <1>t DEF AcquireDedup, Goto, broker, Tidy, HasKey, Key, HasLease,
     Body, TypeOK, Cleanup
<1>10. ASSUME NEW w \in Workers, MarkInflight(w) PROVE Tidy(w)
  BY <1>10, <1>c, <1>o, <1>t DEF MarkInflight, Goto, broker, Tidy, HasKey, Key,
     HasLease, Body, TypeOK, Cleanup
<1>11. ASSUME NEW w \in Workers, ExpireMark(w) PROVE Tidy(w)
  BY <1>11, <1>c, <1>o, <1>t DEF ExpireMark, Goto, broker, Tidy, HasKey, Key, HasLease,
     Body, TypeOK, Cleanup
<1>12. ASSUME NEW w \in Workers, RejectTurned(w) PROVE Tidy(w)
  BY <1>12, <1>c, <1>o, <1>t DEF RejectTurned, Free, Goto, broker, redis, Tidy, HasKey,
     Key, HasLease, Body, TypeOK, Cleanup
<1>13. ASSUME NEW w \in Workers, BuryTurned(w) PROVE Tidy(w)
  BY <1>13, <1>c, <1>o, <1>t DEF BuryTurned, Goto, redis, Tidy, HasKey, Key, HasLease,
     Body, TypeOK, Cleanup
<1>14. ASSUME NEW w \in Workers, AcquireLease(w) PROVE Tidy(w)
  BY <1>14, <1>c, <1>o, <1>t DEF AcquireLease, Goto, broker, Tidy, HasKey, Key,
     HasLease, Body, TypeOK, Cleanup
<1>15. ASSUME NEW w \in Workers, HandlerReturns(w) PROVE Tidy(w)
  BY <1>15, <1>c, <1>o, <1>t DEF HandlerReturns, Finally, Goto, broker, redis, Tidy,
     HasKey, Key, HasLease, Body, TypeOK, Cleanup
<1>16. ASSUME NEW w \in Workers, HandlerFails(w) PROVE Tidy(w)
  BY <1>16, <1>c, <1>o, <1>t DEF HandlerFails, Goto, broker, redis, Tidy, HasKey, Key,
     HasLease, Body, TypeOK, Cleanup
<1>17. ASSUME NEW w \in Workers, RejectFailed(w) PROVE Tidy(w)
  BY <1>17, <1>c, <1>o, <1>t DEF RejectFailed, Finally, Goto, broker, redis, Tidy,
     HasKey, Key, HasLease, Body, TypeOK, Cleanup
<1>18. ASSUME NEW w \in Workers, PublishRetry(w) PROVE Tidy(w)
  BY <1>18, <1>c, <1>o, <1>t DEF PublishRetry, Finally, Goto, redis, Tidy, HasKey, Key,
     HasLease, Body, TypeOK, Cleanup
<1>19. ASSUME NEW w \in Workers, PublishDeadLetter(w) PROVE Tidy(w)
  BY <1>19, <1>c, <1>o, <1>t DEF PublishDeadLetter, Finally, Goto, redis, Tidy, HasKey,
     Key, HasLease, Body, TypeOK, Cleanup
<1>20. ASSUME NEW w \in Workers, ClearInflight(w) PROVE Tidy(w)
  BY <1>20, <1>c, <1>o, <1>t DEF ClearInflight, Goto, broker, Tidy, HasKey, Key,
     HasLease, Body, TypeOK, Cleanup
<1>21. ASSUME NEW w \in Workers, ReleaseDedup(w) PROVE Tidy(w)
  BY <1>21, <1>c, <1>o, <1>t DEF ReleaseDedup, Free, Goto, broker, Tidy, HasKey, Key,
     HasLease, Body, TypeOK, Cleanup
<1>22. ASSUME NEW w \in Workers, ReleaseLease(w) PROVE Tidy(w)
  BY <1>22, <1>c, <1>o, <1>t DEF ReleaseLease, Proceed, Free, Goto, broker, Tidy,
     HasKey, Key, HasLease, Body, TypeOK, Cleanup
<1>23. ASSUME NEW w \in Workers, Ack(w) PROVE Tidy(w)
  BY <1>23, <1>c, <1>o, <1>t DEF Ack, Free, Goto, broker, redis, Tidy, HasKey, Key,
     HasLease, Body, TypeOK, Cleanup
<1> QED
  BY StaysOwned, <1>1, <1>2, <1>3, <1>4, <1>5, <1>6, <1>7, <1>8, <1>9, <1>10, <1>11,
     <1>12, <1>13, <1>14, <1>15, <1>16, <1>17, <1>18, <1>19, <1>20, <1>21, <1>22, <1>23
     DEF Next, WorkerStep

(* A message met by a set key is the duplicate of another worker's.        *)
LEMMA NextLonely ==
    ASSUME StageInv, KeptInv, [Next]_vars
    PROVE  lonely' = {}
<1>1. lonely = {}
  BY DEF KeptInv
<1>2. ASSUME NEW w \in Workers, AcquireDedup(w), Key(w) \in dedup, faults = 0 PROVE Twin(w)
  <2>1. PICK v \in Workers : HasKey(v) /\ Key(v) = Key(w)
    BY <1>2 DEF KeptInv, Owned
  <2>2. v # w /\ pc[w] = "dedup" /\ pc[v] # "ack" /\ pc[v] # "idle"
    BY <1>2, <2>1 DEF AcquireDedup, HasKey
  <2>3. v \in Busy /\ w \in Busy
    BY <2>2 DEF Busy, StageInv, TypeOK
  <2>4. Body(v) # Body(w)
    BY <1>2, <2>2, <2>3 DEF KeptInv, OnePlace, Body
  <2> QED BY <2>1, <2>2, <2>4 DEF Twin
<1>3. ASSUME NEW w \in Workers, AcquireDedup(w) PROVE lonely' = lonely
  <2>1. faults = 0 \/ faults > 0
    BY WorkflowAssumption DEF StageInv, TypeOK
  <2> QED BY <1>2, <1>3, <2>1 DEF AcquireDedup
<1>4. CASE UNCHANGED vars
  BY <1>1, <1>4 DEF vars, history
<1>5. CASE Next /\ \A w \in Workers : ~AcquireDedup(w)
  BY <1>1, <1>5 DEF Next, WorkerStep, history, Submit, ExpireLease, ExpireInflight, ExpireKey,
     RetryDelayElapsed, Deliver, MarkInflight, ExpireMark, UndoDedup, RejectTurned, BuryTurned,
     AcquireLease, LeaseConflict, HandlerReturns, HandlerFails, RejectFailed, PublishRetry,
     PublishDeadLetter, ClearInflight, ReleaseDedup, ReleaseLease, Ack, StaleDelivery,
     CloseChannel, Interrupt, CleanupFails, Crash, LoseChannel
<1> QED BY <1>1, <1>3, <1>4, <1>5

(* Faults are counted up.                                                  *)
LEMMA FaultsCounted == StageInv /\ [Next]_vars /\ faults' = 0 => faults = 0
<1> SUFFICES ASSUME StageInv, [Next]_vars, faults' = 0 PROVE faults = 0
  OBVIOUS
<1>1. faults + 1 # 0
  BY WorkflowAssumption DEF StageInv, TypeOK
<1>2. faults' = faults \/ faults' = faults + 1
  BY DEF Next, WorkerStep, Submit, ExpireLease, ExpireInflight, ExpireKey,
     RetryDelayElapsed, Deliver, MarkInflight, ExpireMark, UndoDedup, RejectTurned, BuryTurned,
     AcquireLease, LeaseConflict, HandlerReturns, HandlerFails, RejectFailed, PublishRetry,
     PublishDeadLetter, ClearInflight, ReleaseDedup, ReleaseLease, Ack, StaleDelivery,
     CloseChannel, Interrupt, CleanupFails, Crash, LoseChannel, AcquireDedup, Fault, vars
<1> QED BY <1>1, <1>2

(* Every step keeps the invariant behind OnlyDuplicatesTurnedAway.         *)
LEMMA NextKept ==
    ASSUME SlowRetry, StageInv, KeptInv, [Next]_vars
    PROVE  KeptInv'
<1>1. Configured'
  BY NextConfigured DEF KeptInv
<1>2. lonely' = {}
  BY NextLonely
<1>3. ASSUME faults' = 0 PROVE OnePlace' /\ Owned'
  <2>1. OnePlace /\ Owned /\ Configured
    BY <1>3, FaultsCounted DEF KeptInv
  <2>2. CASE Next
    BY <1>3, <2>1, <2>2, NextOnePlace, NextOwned
  <2>3. CASE UNCHANGED vars
    BY <2>1, <2>3 DEF vars, broker, redis, control, OnePlace, Owned, Busy, HasKey, Key,
       HasLease, Body
  <2> QED BY <2>2, <2>3
<1> QED BY <1>1, <1>2, <1>3 DEF KeptInv

(* No stage message is lost, whatever crashes, raises, is cancelled or     *)
(* redelivered: _handle_message_impl publishes, rejects or acks before the *)
(* broker forgets the delivery.                                            *)
THEOREM StageNothingLost == Spec => [](TypeOK /\ NoMessageLost)
<1>1. StageInv /\ [Next]_vars => StageInv'
  BY NextStageType, NextCounted, NextGivenBack DEF StageInv
<1>2. StageInv /\ Borne => TypeOK /\ NoMessageLost
  BY DEF StageInv, Borne, NoMessageLost, Bearers, Body
<1> QED
  BY <1>1, <1>2, InitStage, NextBorne, PTL DEF Spec

(* Where the retry delay outlasts the cleanup of the worker that asked for *)
(* it, no message is turned away for a dedup key it left behind itself.    *)
THEOREM StageMessagesKept == SlowRetry => (Spec => []MessagesKept)
<1> SUFFICES ASSUME SlowRetry PROVE Spec => []MessagesKept
  OBVIOUS
<1>1. StageInv /\ [Next]_vars => StageInv'
  BY NextStageType, NextCounted, NextGivenBack DEF StageInv
<1>2. StageInv /\ KeptInv /\ [Next]_vars => KeptInv'
  BY NextKept
<1>3. StageInv /\ Borne /\ KeptInv => MessagesKept
  BY DEF StageInv, Borne, KeptInv, MessagesKept, NoMessageLost, OnlyDuplicatesTurnedAway, Bearers,
     Body
<1> QED
  BY <1>1, <1>2, <1>3, InitStage, NextBorne, PTL DEF Spec
=============================================================================
