----------------------------- MODULE StatusHub -----------------------------
(* StatusHub (src/relayna/status/hub.py) and RedisStatusStore.set_history  *)
(* (src/relayna/status/store.py) for one task id.                          *)
(*                                                                         *)
(* A producer publishes status events 1 .. N in order to the status queue. *)
(* Each hub replica runs up to a prefetch of handlers; the handlers of one *)
(* hub take turns on the task's lock, in dispatch order.  Every Redis      *)
(* round trip of set_history is a step.                                    *)
EXTENDS Naturals, Sequences

CONSTANTS
    N,             \* number of status events, published in the order 1 .. N
    Unusable,      \* events whose body is no usable status event
    Hubs, Handlers,
    HubOf,         \* the hub a handler slot belongs to
    HistoryMaxlen, \* store.history_maxlen
    NoEvent,       \* a handler slot without a message
    FailingCalls,  \* the calls of set_history that may raise
    MaxFailures,   \* bound on failing calls
    MaxCrashes,    \* bound on crashed hubs
    MaxLosses      \* bound on lost channels

ASSUME HubAssumption ==
    /\ N \in Nat /\ Unusable \subseteq 1 .. N /\ NoEvent \notin Nat
    /\ HubOf \in [Handlers -> Hubs]
    /\ HistoryMaxlen \in Nat \ {0}
    /\ FailingCalls \subseteq {"mark", "check", "push", "undo", "relate", "publish", "complete"}
    /\ MaxFailures \in Nat /\ MaxCrashes \in Nat /\ MaxLosses \in Nat

Events == 1 .. N

VARIABLES
    produced,      \* events published so far
    queue,         \* events waiting in the shared status queue: RabbitMQ puts a
                   \* requeued message back at its place, so it stays sorted
    lockq,         \* per hub: handlers at the task's lock, its holder first
    pc, ev,        \* per handler: control state, event of its message
    stale,         \* handlers whose delivery died with its channel
    marker,        \* per event: its dedupe key
    history,       \* the task's history list, newest first
    related,       \* events whose child index and service feed writes are done
    channel,       \* payloads published to the task's pubsub channel, in order
    acked,         \* events whose message was acked
    pushes,        \* history: LPUSHes of each event
    failed,        \* history: calls that have failed
    failures, crashes, losses

redis == <<marker, history, related, channel>>
control == <<lockq, pc, ev, stale>>
counts == <<failed, failures, crashes, losses>>
hubVars == <<produced, queue, control, redis, acked, pushes, counts>>

Steps == {"idle", "mark", "check", "push", "undo", "relate", "publish", "complete", "ack", "reject"}
Locked == {"mark", "check", "push", "undo", "relate", "publish", "complete"}

HubTypeOK ==
    /\ produced \in 0 .. N
    /\ queue \subseteq Events
    /\ lockq \in [Hubs -> Seq(Handlers)]
    /\ pc \in [Handlers -> Steps]
    /\ ev \in [Handlers -> Events \cup {NoEvent}]
    /\ stale \subseteq Handlers
    /\ marker \in [Events -> {"absent", "pending", "complete"}]
    /\ history \in Seq(Events) /\ Len(history) <= HistoryMaxlen
    /\ related \subseteq Events
    /\ channel \in Seq(Events)
    /\ acked \subseteq Events
    /\ pushes \in [Events -> Nat]
    /\ failed \subseteq FailingCalls
    /\ failures \in 0 .. MaxFailures /\ crashes \in 0 .. MaxCrashes /\ losses \in 0 .. MaxLosses

HubInit ==
    /\ produced = 0 /\ queue = {}
    /\ lockq = [b \in Hubs |-> <<>>]
    /\ pc = [h \in Handlers |-> "idle"]
    /\ ev = [h \in Handlers |-> NoEvent]
    /\ stale = {}
    /\ marker = [e \in Events |-> "absent"]
    /\ history = <<>> /\ related = {} /\ channel = <<>>
    /\ acked = {} /\ pushes = [e \in Events |-> 0]
    /\ failed = {} /\ failures = 0 /\ crashes = 0 /\ losses = 0

Holds(h) == lockq[HubOf[h]] # <<>> /\ Head(lockq[HubOf[h]]) = h

Goto(h, step) == pc' = [pc EXCEPT ![h] = step]

(* _store_ordered: the next handler in line gets the lock; an entry nobody *)
(* uses any more is dropped.                                               *)
Unlock(h) == lockq' = [lockq EXCEPT ![HubOf[h]] = Tail(@)]

Leave(h, step) == Goto(h, step) /\ Unlock(h)

-----------------------------------------------------------------------------
(* publish_status: the next event of the task is published.                *)
Produce ==
    /\ produced < N
    /\ produced' = produced + 1
    /\ queue' = queue \cup {produced + 1}
    /\ UNCHANGED <<control, redis, acked, pushes, counts>>

(* run_bounded_iterator hands the oldest message to a free handler, which  *)
(* gets in line for the lock before it first awaits.  A body that is not   *)
(* JSON, no mapping or without task id is acked unstored.                  *)
Deliver(h) ==
    /\ pc[h] = "idle" /\ queue # {}
    /\ \E e \in queue :
          /\ \A o \in queue : e <= o
          /\ queue' = queue \ {e}
          /\ ev' = [ev EXCEPT ![h] = e]
          /\ IF e \in Unusable
             THEN Goto(h, "ack") /\ UNCHANGED lockq
             ELSE Goto(h, "mark") /\ lockq' = [lockq EXCEPT ![HubOf[h]] = Append(@, h)]
    /\ UNCHANGED <<produced, stale, redis, acked, pushes, counts>>

(* set_history: SET NX of the dedupe marker.                               *)
Mark(h) ==
    /\ pc[h] = "mark" /\ Holds(h)
    /\ IF marker[ev[h]] = "absent"
       THEN marker' = [marker EXCEPT ![ev[h]] = "pending"] /\ Goto(h, "push")
       ELSE UNCHANGED marker /\ Goto(h, "check")
    /\ UNCHANGED <<produced, queue, lockq, ev, stale, history, related, channel, acked, pushes, counts>>

(* Seeded fault: any marker ends the call.                                 *)
MutantCheckPending(h) ==
    /\ pc[h] = "check"
    /\ Leave(h, "ack")
    /\ UNCHANGED <<produced, queue, ev, stale, redis, acked, pushes, counts>>

(* set_history: GET the marker that was there.  Only a complete one ends   *)
(* the call.                                                               *)
Check(h) ==
    /\ pc[h] = "check"
    /\ IF marker[ev[h]] = "complete"
       THEN Leave(h, "ack")
       ELSE Goto(h, "relate") /\ UNCHANGED lockq
    /\ UNCHANGED <<produced, queue, ev, stale, redis, acked, pushes, counts>>

(* LPUSH and LTRIM.                                                        *)
Pushed(e) ==
    /\ history' = SubSeq(<<e>> \o history, 1,
                         IF Len(history) < HistoryMaxlen THEN Len(history) + 1 ELSE HistoryMaxlen)
    /\ pushes' = [pushes EXCEPT ![e] = @ + 1]

Push(h) ==
    /\ pc[h] = "push"
    /\ Pushed(ev[h])
    /\ Goto(h, "relate")
    /\ UNCHANGED <<produced, queue, lockq, ev, stale, marker, related, channel, acked, counts>>

(* set_history: the parent's child index, then the service event feed.     *)
Relate(h) ==
    /\ pc[h] = "relate"
    /\ related' = related \cup {ev[h]}
    /\ Goto(h, "publish")
    /\ UNCHANGED <<produced, queue, lockq, ev, stale, marker, history, channel, acked, pushes, counts>>

(* set_history: PUBLISH to the subscribers of the task.                    *)
Publish(h) ==
    /\ pc[h] = "publish"
    /\ channel' = Append(channel, ev[h])
    /\ Goto(h, "complete")
    /\ UNCHANGED <<produced, queue, lockq, ev, stale, marker, history, related, acked, pushes, counts>>

(* set_history: the marker becomes complete, the lock is released.         *)
Complete(h) ==
    /\ pc[h] = "complete"
    /\ marker' = [marker EXCEPT ![ev[h]] = "complete"]
    /\ Leave(h, "ack")
    /\ UNCHANGED <<produced, queue, ev, stale, history, related, channel, acked, pushes, counts>>

(* The handler slot is free again.                                         *)
Free(h) ==
    /\ Goto(h, "idle")
    /\ ev' = [ev EXCEPT ![h] = NoEvent]
    /\ stale' = stale \ {h}

(* _handle_message: ack.  On a channel that is gone it raises instead.     *)
Ack(h) ==
    /\ pc[h] = "ack"
    /\ acked' = IF h \in stale THEN acked ELSE acked \cup {ev[h]}
    /\ Free(h)
    /\ UNCHANGED <<produced, queue, lockq, redis, pushes, counts>>

(* _handle_message: reject with requeue.                                   *)
Reject(h) ==
    /\ pc[h] = "reject"
    /\ queue' = IF h \in stale THEN queue ELSE queue \cup {ev[h]}
    /\ Free(h)
    /\ UNCHANGED <<produced, lockq, redis, acked, pushes, counts>>

-----------------------------------------------------------------------------
Fails(h) ==
    /\ pc[h] \in FailingCalls
    /\ failures < MaxFailures
    /\ failures' = failures + 1
    /\ failed' = failed \cup {pc[h]}
    /\ UNCHANGED <<crashes, losses>>

(* SET NX raises, executed by Redis or not.                                *)
MarkFails(h) ==
    /\ pc[h] = "mark" /\ Holds(h) /\ Fails(h)
    /\ \E executed \in BOOLEAN :
          marker' = IF executed /\ marker[ev[h]] = "absent"
                    THEN [marker EXCEPT ![ev[h]] = "pending"] ELSE marker
    /\ Leave(h, "reject")
    /\ UNCHANGED <<produced, queue, ev, stale, history, related, channel, acked, pushes>>

(* The push pipeline raises, executed by Redis or not: the marker has to go.*)
PushFails(h) ==
    /\ pc[h] = "push" /\ Fails(h)
    /\ \/ Pushed(ev[h])
       \/ UNCHANGED <<history, pushes>>
    /\ Goto(h, "undo")
    /\ UNCHANGED <<produced, queue, lockq, ev, stale, marker, related, channel, acked>>

(* The DEL of the marker after a failed push.                              *)
Undo(h) ==
    /\ pc[h] = "undo"
    /\ marker' = [marker EXCEPT ![ev[h]] = "absent"]
    /\ Leave(h, "reject")
    /\ UNCHANGED <<produced, queue, ev, stale, history, related, channel, acked, pushes, counts>>

(* Any other call of set_history raises, the DEL included.  One that Redis *)
(* executed all the same is the call followed by the failure of the next.  *)
CallFails(h) ==
    /\ pc[h] \in {"check", "undo", "relate", "publish", "complete"} /\ Fails(h)
    /\ Leave(h, "reject")
    /\ UNCHANGED <<produced, queue, ev, stale, redis, acked, pushes>>

(* Messages of hub b that the broker still waits for.                      *)
Unsettled(b) == {ev[h] : h \in {x \in Handlers : HubOf[x] = b /\ pc[x] # "idle" /\ x \notin stale}}

(* The hub process dies and is restarted.                                  *)
Crash(b) ==
    /\ crashes < MaxCrashes
    /\ crashes' = crashes + 1
    /\ \E h \in Handlers : HubOf[h] = b /\ pc[h] # "idle"
    /\ queue' = queue \cup Unsettled(b)
    /\ pc' = [h \in Handlers |-> IF HubOf[h] = b THEN "idle" ELSE pc[h]]
    /\ ev' = [h \in Handlers |-> IF HubOf[h] = b THEN NoEvent ELSE ev[h]]
    /\ stale' = {h \in stale : HubOf[h] # b}
    /\ lockq' = [lockq EXCEPT ![b] = <<>>]
    /\ UNCHANGED <<produced, redis, acked, pushes, failed, failures, losses>>

(* The channel is lost: the broker takes its messages back while their     *)
(* handlers go on.                                                         *)
LoseChannel(b) ==
    /\ losses < MaxLosses
    /\ losses' = losses + 1
    /\ Unsettled(b) # {}
    /\ queue' = queue \cup Unsettled(b)
    /\ stale' = stale \cup {h \in Handlers : HubOf[h] = b /\ pc[h] # "idle"}
    /\ UNCHANGED <<produced, lockq, pc, ev, redis, acked, pushes, failed, failures, crashes>>

Progress(h) ==
    \/ Mark(h) \/ Check(h) \/ Push(h) \/ Undo(h) \/ Relate(h) \/ Publish(h)
    \/ Complete(h) \/ Ack(h) \/ Reject(h)

HubNext ==
    \/ Produce
    \/ \E h \in Handlers :
          Deliver(h) \/ Progress(h) \/ MarkFails(h) \/ PushFails(h) \/ CallFails(h)
    \/ \E b \in Hubs : Crash(b) \/ LoseChannel(b)

HubSpec == HubInit /\ [][HubNext]_hubVars

-----------------------------------------------------------------------------
(* An event counted as stored by the broker's ack was announced to the     *)
(* subscribers of the task, and its child and feed entries written.        *)
AckedIsAnnounced ==
    \A e \in acked \ Unusable : e \in related /\ \E i \in 1 .. Len(channel) : channel[i] = e

(* No step that sets or removes a dedupe marker has failed half way.       *)
MarkersReliable == failed \cap {"mark", "undo"} = {} /\ crashes = 0

(* With one hub an acked event was written to the history list, whichever  *)
(* other call of set_history failed and although the channel may be lost   *)
(* under its handler.                                                      *)
AckedIsStored == MarkersReliable => \A e \in acked \ Unusable : pushes[e] > 0

(* The dedupe marker keeps redelivered events out of the history list,     *)
(* with any number of hubs, unless a push raised after Redis executed it.  *)
StoredOnce == "push" \notin failed => \A e \in Events : pushes[e] <= 1

(* The history list of one hub tells what happened in order, newest first, *)
(* until a failed call puts an event back behind the next one.             *)
HistoryInOrder ==
    failed = {} => \A i, j \in 1 .. Len(history) : i < j => history[i] >= history[j]

(* Every event is announced and acked in the end.                          *)
Settles == <>[](acked = Events /\ queue = {})

(* Both: a status event is announced before it is acked, and stored once.  *)
HubSound == AckedIsAnnounced /\ StoredOnce
=============================================================================
