----------------------------- MODULE DLQRecords -----------------------------
(* One dead-letter record under the operations of DLQService               *)
(* (src/relayna/dlq/service.py) and RedisDLQStore (src/relayna/dlq/store.py):*)
(* replay, manual retry, marking it investigated or unreviewed, deletion.  *)
(* Operators call them concurrently; every Redis or RabbitMQ round trip is *)
(* a step.                                                                 *)
EXTENDS Naturals

CONSTANTS
    Operators,
    Requests,      \* kinds of requests the operators make
    NoRecord,      \* the record's key is absent
    LockMayExpire, \* the 30 s replay lock may run out under its holder
    FailingDlqCalls,  \* calls that may raise
    MaxRequests,   \* bound on requests
    MaxDlqFailures,   \* bound on failing calls
    MaxApiCrashes     \* bound on API processes that die in a request

ASSUME DLQAssumption ==
    /\ Requests \subseteq {"replay", "force", "investigate", "review", "retry", "delete"}
    /\ FailingDlqCalls \subseteq {"claim", "publish", "markget", "markset", "repeat", "write"}
    /\ LockMayExpire \in BOOLEAN
    /\ MaxRequests \in Nat /\ MaxDlqFailures \in Nat /\ MaxApiCrashes \in Nat

(* The fields of DLQRecord that the operations change.                     *)
Record == [state : {"dead_lettered", "replayed"}, replays : Nat,
           investigated : BOOLEAN, retried : BOOLEAN]

ASSUME NoRecordAssumption == NoRecord \notin Record

VARIABLES
    record,        \* payload under dlq:record:<id>
    indexed,       \* member of the failed_tasks:index sorted set
    lock,          \* the replay lock is set
    opPc, opJob,       \* per operator: control state, request
    copy,          \* per operator: the record it has read
    replays,       \* plain replays published
    forced,        \* forced replays published
    retries,       \* manual retries published
    disturbed,     \* history: a replay lost its lock, or its mark, or a stale copy
                   \* of the record was written back
    requests, dlqFailures, apiCrashes

dlqKeys == <<record, indexed, lock>>
published == <<replays, forced, retries>>
dlqCounts == <<requests, dlqFailures, apiCrashes>>
dlqVars == <<dlqKeys, opPc, opJob, copy, published, disturbed, dlqCounts>>

Critical == {"claim", "publish", "markget", "markset", "unlock"}

DlqTypeOK ==
    /\ record \in Record \cup {NoRecord}
    /\ indexed \in BOOLEAN /\ lock \in BOOLEAN
    /\ opPc \in [Operators -> {"idle", "repeat", "write", "index", "unindex"} \cup Critical]
    /\ opJob \in [Operators -> Requests \cup {"none"}]
    /\ copy \in [Operators -> Record \cup {NoRecord}]
    /\ replays \in Nat /\ forced \in Nat /\ retries \in Nat
    /\ disturbed \in BOOLEAN
    /\ requests \in 0 .. MaxRequests /\ dlqFailures \in 0 .. MaxDlqFailures /\ apiCrashes \in 0 .. MaxApiCrashes

(* RedisDLQStore.add has stored and indexed a new record.                  *)
DlqInit ==
    /\ record = [state |-> "dead_lettered", replays |-> 0, investigated |-> FALSE, retried |-> FALSE]
    /\ indexed = TRUE /\ lock = FALSE
    /\ opPc = [o \in Operators |-> "idle"]
    /\ opJob = [o \in Operators |-> "none"]
    /\ copy = [o \in Operators |-> NoRecord]
    /\ replays = 0 /\ forced = 0 /\ retries = 0 /\ disturbed = FALSE
    /\ requests = 0 /\ dlqFailures = 0 /\ apiCrashes = 0

GoOn(o, step) == opPc' = [opPc EXCEPT ![o] = step]

-----------------------------------------------------------------------------
(* claim_replay: SET NX EX of the lock; a set lock is a conflict (409).    *)
Lock(o, kind) ==
    /\ opPc[o] = "idle" /\ requests < MaxRequests
    /\ kind \in {"replay", "force"} \cap Requests
    /\ ~lock
    /\ requests' = requests + 1
    /\ lock' = TRUE
    /\ opJob' = [opJob EXCEPT ![o] = kind]
    /\ GoOn(o, "claim")
    /\ UNCHANGED <<record, indexed, copy, published, disturbed, dlqFailures, apiCrashes>>

(* Seeded fault: the state of the record is not looked at.                 *)
MutantClaimAny(o) ==
    /\ opPc[o] = "claim"
    /\ IF record = NoRecord
       THEN GoOn(o, "unlock") /\ UNCHANGED copy
       ELSE GoOn(o, "publish") /\ copy' = [copy EXCEPT ![o] = record]
    /\ UNCHANGED <<dlqKeys, opJob, published, disturbed, dlqCounts>>

(* claim_replay: GET.  A missing record, or one replayed before unless     *)
(* forced, ends the request; the lock is released.                         *)
Claim(o) ==
    /\ opPc[o] = "claim"
    /\ IF record = NoRecord \/ (record.state = "replayed" /\ opJob[o] # "force")
       THEN GoOn(o, "unlock") /\ UNCHANGED copy
       ELSE GoOn(o, "publish") /\ copy' = [copy EXCEPT ![o] = record]
    /\ UNCHANGED <<dlqKeys, opJob, published, disturbed, dlqCounts>>

(* replay_message: the body goes to the retry queue, its attempt reset.    *)
PublishReplay(o) ==
    /\ opPc[o] = "publish"
    /\ IF opJob[o] = "force"
       THEN forced' = forced + 1 /\ UNCHANGED replays
       ELSE replays' = replays + 1 /\ UNCHANGED forced
    /\ GoOn(o, "markget")
    /\ UNCHANGED <<dlqKeys, opJob, copy, retries, disturbed, dlqCounts>>

(* mark_replayed: GET the record again.                                    *)
MarkGet(o) ==
    /\ opPc[o] = "markget"
    /\ copy' = [copy EXCEPT ![o] = record]
    /\ GoOn(o, IF record = NoRecord THEN "unlock" ELSE "markset")
    /\ UNCHANGED <<dlqKeys, opJob, published, disturbed, dlqCounts>>

(* mark_replayed: SET the changed copy.                                    *)
MarkSet(o) ==
    /\ opPc[o] = "markset"
    /\ record' = [copy[o] EXCEPT !.state = "replayed", !.replays = @ + 1]
    /\ disturbed' = (disturbed \/ copy[o] # record)
    /\ GoOn(o, "unlock")
    /\ UNCHANGED <<indexed, lock, opJob, copy, published, dlqCounts>>

End(o) == GoOn(o, "idle") /\ opJob' = [opJob EXCEPT ![o] = "none"] /\ copy' = [copy EXCEPT ![o] = NoRecord]

(* release_replay_claim: DEL of the lock, whoever holds it by now.         *)
UnlockReplay(o) ==
    /\ opPc[o] = "unlock"
    /\ lock' = FALSE
    /\ End(o)
    /\ UNCHANGED <<record, indexed, published, disturbed, dlqCounts>>

(* The lock's TTL runs out: under its holder where LockMayExpire, else only*)
(* when nobody is left to release it.                                      *)
LockExpires ==
    /\ lock
    /\ LockMayExpire \/ \A o \in Operators : opPc[o] \notin Critical
    /\ lock' = FALSE
    /\ disturbed' = (disturbed \/ \E o \in Operators : opPc[o] \in Critical)
    /\ UNCHANGED <<record, indexed, opPc, opJob, copy, published, dlqCounts>>

-----------------------------------------------------------------------------
(* mark_failed_task_investigated, mark_failed_task_uninvestigated and      *)
(* retry_failed_task start with a GET; without a record they end.          *)
Read(o, kind) ==
    /\ opPc[o] = "idle" /\ requests < MaxRequests
    /\ kind \in {"investigate", "review", "retry"} \cap Requests
    /\ record # NoRecord
    /\ requests' = requests + 1
    /\ opJob' = [opJob EXCEPT ![o] = kind]
    /\ copy' = [copy EXCEPT ![o] = record]
    /\ GoOn(o, IF kind = "retry" THEN "repeat" ELSE "write")
    /\ UNCHANGED <<dlqKeys, published, disturbed, dlqFailures, apiCrashes>>

(* retry_failed_task: the body goes to the source queue.                   *)
PublishManualRetry(o) ==
    /\ opPc[o] = "repeat"
    /\ retries' = retries + 1
    /\ GoOn(o, "write")
    /\ UNCHANGED <<dlqKeys, opJob, copy, replays, forced, disturbed, dlqCounts>>

(* update: SET the changed copy of the record read at the start.           *)
Write(o) ==
    /\ opPc[o] = "write"
    /\ record' = [copy[o] EXCEPT
                    !.retried = @ \/ opJob[o] = "retry",
                    !.investigated = (@ \/ opJob[o] = "investigate") /\ opJob[o] # "review"]
    /\ disturbed' = (disturbed \/ copy[o] # record)
    /\ GoOn(o, "index")
    /\ UNCHANGED <<indexed, lock, opJob, copy, published, dlqCounts>>

(* update: ZADD the failed-task index.                                     *)
Index(o) ==
    /\ opPc[o] = "index"
    /\ indexed' = TRUE
    /\ End(o)
    /\ UNCHANGED <<record, lock, published, disturbed, dlqCounts>>

(* delete: DEL the record ...                                              *)
Delete(o) ==
    /\ opPc[o] = "idle" /\ requests < MaxRequests
    /\ "delete" \in Requests
    /\ record # NoRecord
    /\ requests' = requests + 1
    /\ record' = NoRecord
    /\ opJob' = [opJob EXCEPT ![o] = "delete"]
    /\ GoOn(o, "unindex")
    /\ UNCHANGED <<indexed, lock, copy, published, disturbed, dlqFailures, apiCrashes>>

(* ... then ZREM it from the index and answer.                             *)
Unindex(o) ==
    /\ opPc[o] = "unindex"
    /\ indexed' = FALSE
    /\ End(o)
    /\ UNCHANGED <<record, lock, published, disturbed, dlqCounts>>

-----------------------------------------------------------------------------
Unmarked(o) == opPc[o] \in {"markget", "markset"}

(* A call raises: a replay releases its lock on the way out.               *)
Failure(o) ==
    /\ opPc[o] \in FailingDlqCalls /\ dlqFailures < MaxDlqFailures
    /\ dlqFailures' = dlqFailures + 1
    /\ IF opPc[o] \in Critical THEN GoOn(o, "unlock") /\ UNCHANGED <<opJob, copy>> ELSE End(o)
    /\ disturbed' = (disturbed \/ Unmarked(o))
    /\ UNCHANGED <<dlqKeys, published, requests, apiCrashes>>

(* The API process dies in the middle of a request.                        *)
ApiCrash(o) ==
    /\ opPc[o] # "idle" /\ apiCrashes < MaxApiCrashes
    /\ apiCrashes' = apiCrashes + 1
    /\ End(o)
    /\ disturbed' = (disturbed \/ Unmarked(o))
    /\ UNCHANGED <<dlqKeys, published, requests, dlqFailures>>

RequestProgress(o) ==
    \/ Claim(o) \/ PublishReplay(o) \/ MarkGet(o) \/ MarkSet(o) \/ UnlockReplay(o)
    \/ PublishManualRetry(o) \/ Write(o) \/ Index(o) \/ Unindex(o)

DlqNext ==
    \/ LockExpires
    \/ \E o \in Operators :
          \/ \E kind \in Requests : Lock(o, kind) \/ Read(o, kind)
          \/ Delete(o) \/ RequestProgress(o) \/ Failure(o) \/ ApiCrash(o)

DlqSpec == DlqInit /\ [][DlqNext]_dlqVars

-----------------------------------------------------------------------------
(* Without force a record is replayed once, whatever requests run together,*)
(* unless the lock expired under a replay, a published replay was never    *)
(* marked, or somebody wrote back a copy of the record that was out of date.*)
ReplayedOnce == ~disturbed => replays <= 1

(* The same without the condition.                                         *)
NeverReplayedAgain == replays <= 1

(* The record never claims a replay or a retry that was not published,     *)
(* not even after stale copies and lost locks.                             *)
MarkedIsPublished ==
    record # NoRecord =>
        /\ record.state = "replayed" => replays + forced > 0
        /\ record.replays <= replays + forced
        /\ record.retried => retries > 0

(* Undisturbed, and once the replays under way are marked, the record      *)
(* counts every replay.                                                     *)
CountsReplays ==
    record # NoRecord /\ ~disturbed /\ (\A o \in Operators : ~Unmarked(o)) =>
        record.replays = replays + forced

(* The replay lock does not outlive the requests: once none is under way   *)
(* it is free, whatever call failed, unless a process died in a replay.    *)
LockFreed == apiCrashes = 0 /\ (\A o \in Operators : opPc[o] = "idle") => ~lock

(* All of it: a dead letter is replayed once, its record neither claims    *)
(* nor forgets a replay, and it can be replayed by force afterwards.       *)
ReplaySound == DlqTypeOK /\ ReplayedOnce /\ MarkedIsPublished /\ CountsReplays /\ LockFreed
=============================================================================
