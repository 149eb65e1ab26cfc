---------------------------- MODULE StatusStream ----------------------------
(* SSEStatusStream (src/relayna/status/stream.py) over the store and the   *)
(* hub of module StatusHub: clients follow one task over GET /events and,  *)
(* when the connection drops, reconnect with the Last-Event-ID header of   *)
(* the last event they received.                                           *)
EXTENDS StatusHub

CONSTANTS
    Clients,
    Terminal,      \* events with a terminal status
    MaxDrops       \* bound on dropped connections

ASSUME StreamAssumption == Terminal \subseteq Events /\ MaxDrops \in Nat

VARIABLES
    spc,           \* per client: control state of its stream
    pos,           \* channel position up to which the subscription has read
    todo,          \* history items still to replay
    seen,          \* seen_event_ids
    got,           \* events the client received, over all its connections
    drops          \* dropped connections

streamVars == <<spc, pos, todo, seen, got, drops>>
vars == <<hubVars, streamVars>>

TypeOK ==
    /\ HubTypeOK
    /\ spc \in [Clients -> {"closed", "history", "replay", "live", "ended"}]
    /\ pos \in [Clients -> Nat]
    /\ todo \in [Clients -> Seq(Events)]
    /\ seen \in [Clients -> SUBSET Events]
    /\ got \in [Clients -> Seq(Events)]
    /\ drops \in 0 .. MaxDrops

Init ==
    /\ HubInit
    /\ spc = [c \in Clients |-> "closed"]
    /\ pos = [c \in Clients |-> 0]
    /\ todo = [c \in Clients |-> <<>>]
    /\ seen = [c \in Clients |-> {}]
    /\ got = [c \in Clients |-> <<>>]
    /\ drops = 0

(* stream: SUBSCRIBE.                                                      *)
Subscribe(c) ==
    /\ spc[c] = "closed"
    /\ pos' = [pos EXCEPT ![c] = Len(channel)]
    /\ seen' = [seen EXCEPT ![c] = {}]
    /\ spc' = [spc EXCEPT ![c] = "history"]
    /\ UNCHANGED <<hubVars, todo, got, drops>>

(* The history, oldest first, after the event the client names; all of it  *)
(* when there is none or it is not in the list.                            *)
Oldest(s) == [i \in 1 .. Len(s) |-> s[Len(s) + 1 - i]]

Replayed(last, items) ==
    IF last # <<>> /\ \E i \in 1 .. Len(items) : items[i] = last[Len(last)]
    THEN LET k == CHOOSE i \in 1 .. Len(items) :
                     /\ items[i] = last[Len(last)]
                     /\ \A j \in 1 .. i - 1 : items[j] # last[Len(last)]
         IN  SubSeq(items, k + 1, Len(items))
    ELSE items

(* stream: LRANGE, and what of it has to be replayed.                      *)
ReadHistory(c) ==
    /\ spc[c] = "history"
    /\ todo' = [todo EXCEPT ![c] = Replayed(got[c], Oldest(history))]
    /\ spc' = [spc EXCEPT ![c] = "replay"]
    /\ UNCHANGED <<hubVars, pos, seen, got, drops>>

(* The client receives e; a terminal status ends the stream.               *)
Send(c, e, next) ==
    /\ got' = [got EXCEPT ![c] = Append(@, e)]
    /\ seen' = [seen EXCEPT ![c] = @ \cup {e}]
    /\ spc' = [spc EXCEPT ![c] = IF e \in Terminal THEN "ended" ELSE next]

(* Seeded fault: a terminal event in the history does not end the stream.  *)
MutantReplayOn(c) ==
    /\ spc[c] = "replay" /\ todo[c] # <<>>
    /\ got' = [got EXCEPT ![c] = Append(@, Head(todo[c]))]
    /\ seen' = [seen EXCEPT ![c] = @ \cup {Head(todo[c])}]
    /\ todo' = [todo EXCEPT ![c] = Tail(@)]
    /\ UNCHANGED <<hubVars, spc, pos, drops>>

(* stream: one history item is yielded.                                    *)
Replay(c) ==
    /\ spc[c] = "replay" /\ todo[c] # <<>>
    /\ Send(c, Head(todo[c]), "replay")
    /\ todo' = [todo EXCEPT ![c] = Tail(@)]
    /\ UNCHANGED <<hubVars, pos, drops>>

(* Seeded fault: the channel is subscribed only after the replay.          *)
MutantSubscribeLate(c) ==
    /\ spc[c] = "replay" /\ todo[c] = <<>>
    /\ spc' = [spc EXCEPT ![c] = "live"]
    /\ pos' = [pos EXCEPT ![c] = Len(channel)]
    /\ UNCHANGED <<hubVars, todo, seen, got, drops>>

(* stream: the replay is over, the stream listens.                         *)
GoLive(c) ==
    /\ spc[c] = "replay" /\ todo[c] = <<>>
    /\ spc' = [spc EXCEPT ![c] = "live"]
    /\ UNCHANGED <<hubVars, pos, todo, seen, got, drops>>

(* stream: the next pubsub message, skipped when its id was sent before.   *)
Listen(c) ==
    /\ spc[c] = "live" /\ pos[c] < Len(channel)
    /\ pos' = [pos EXCEPT ![c] = @ + 1]
    /\ LET e == channel[pos[c] + 1] IN
       IF e \in seen[c]
       THEN UNCHANGED <<spc, seen, got>>
       ELSE Send(c, e, "live")
    /\ UNCHANGED <<hubVars, todo, drops>>

(* The connection drops; the generator's finally block unsubscribes.       *)
Drop(c) ==
    /\ spc[c] \in {"history", "replay", "live"}
    /\ drops < MaxDrops
    /\ drops' = drops + 1
    /\ spc' = [spc EXCEPT ![c] = "closed"]
    /\ todo' = [todo EXCEPT ![c] = <<>>]
    /\ UNCHANGED <<hubVars, pos, seen, got>>

Stream(c) == Subscribe(c) \/ ReadHistory(c) \/ Replay(c) \/ GoLive(c) \/ Listen(c)

Next ==
    \/ HubNext /\ UNCHANGED streamVars
    \/ \E c \in Clients : Stream(c) \/ Drop(c)

Spec == Init /\ [][Next]_vars

(* Besides the hub, an open stream goes on and a client reconnects.        *)
Fairness ==
    /\ WF_vars(Produce /\ UNCHANGED streamVars)
    /\ WF_vars((\E h \in Handlers : Deliver(h)) /\ UNCHANGED streamVars)
    /\ \A h \in Handlers : WF_vars(Progress(h) /\ UNCHANGED streamVars)
    /\ \A c \in Clients : WF_vars(Stream(c))

FairSpec == Spec /\ Fairness

-----------------------------------------------------------------------------
(* A connection delivers no event twice, whether it came from the replay   *)
(* or from pubsub, although the hub announces an event again after a       *)
(* failure or a redelivery, as long as the history holds it once.          *)
ReceivedOnce ==
    drops = 0 /\ "push" \notin failed =>
        \A c \in Clients : \A i, j \in 1 .. Len(got[c]) : i # j => got[c][i] # got[c][j]

(* The event was stored and has left the history list since.               *)
Trimmed(e) == pushes[e] > 0 /\ \A i \in 1 .. Len(history) : history[i] # e

(* Before a client receives an event it has received every earlier one, as *)
(* long as no call failed and no hub died: nothing falls between the       *)
(* history it was shown and the live events, nor between two connections,  *)
(* except what the bounded history list no longer holds.                   *)
ReceivedInOrder ==
    failed = {} /\ crashes = 0 =>
        \A c \in Clients : \A i \in 1 .. Len(got[c]) : \A e \in Events \ Unusable :
            e < got[c][i] => Trimmed(e) \/ \E j \in 1 .. i - 1 : got[c][j] = e

(* Every stream ends with a terminal event, unless storing some event went *)
(* wrong: an event whose marker was left behind, or that was pushed again  *)
(* after others, can be neither in the replayed part of the history nor    *)
(* announced any more.                                                     *)
StreamEnds ==
    \A c \in Clients : <>(spc[c] = "ended" \/ ~MarkersReliable \/ "push" \in failed)

(* All of it: what is acked is in the history, in order, and a stream      *)
(* passes it on without gaps, once and in order.                           *)
StreamDelivers == TypeOK /\ AckedIsStored /\ HistoryInOrder /\ ReceivedOnce /\ ReceivedInOrder

(* Both: every event is settled and every stream ends.                     *)
StatusSettles == Settles /\ StreamEnds
=============================================================================
