---------------------------- MODULE Notifications ----------------------------
(* The mails about failed tasks.  Every replica of Studio runs the worker; *)
(* an advisory lock (PostgreSQL) or a key that expires (Redis) lets one at *)
(* a time load the pending batch, add the failures nobody was told of, and *)
(* send them, one mail each or, after a wait, one mail for all.            *)
EXTENDS Naturals, FiniteSets, StudioValues

CONSTANTS
    Replicas,
    Failures,           \* failed tasks, each with its service
    MailStores,         \* the stores: "postgres", "redis"
    MaxMailFaults,      \* bound on crashes, lost answers and expiries
    MaxPatches,         \* bound on the changes of the settings
    MaxSweeps           \* bound on the iterations of the workers

ASSUME NotificationsAssumption ==
    /\ MailStores \subseteq {"postgres", "redis"} /\ {MaxMailFaults, MaxPatches, MaxSweeps} \subseteq Nat
    /\ Nothing \notin Replicas \cup Failures

VARIABLES
    mailStore,      \* the store Studio was configured with
    mailSettings,   \* enabled, and whether mails wait for a batch
    mailLock,       \* the replica that holds the lock
    unreviewed,     \* what list_failed_tasks answers
    notified,       \* failures marked as told
    batch,          \* the pending batch: its items, and whether its wait is over
    sweep,          \* sweep[r]: the iteration the replica is in
    patch,          \* a change of the settings under way
    patches,        \* changes of the settings made
    mails,          \* mails[f]: mails that named the failure
    queued,         \* failures that once were in a stored batch
    lapsed,         \* failures whose stored batch expired
    mailFaults,     \* crashes, answers lost, locks and marks expired
    lockLapsed,     \* the lock expired under a replica at work
    sweeps

mailVars == <<mailStore, mailSettings, mailLock, unreviewed, notified, batch, sweep, patch, patches, mails,
              queued, lapsed, mailFaults, lockLapsed, sweeps>>

NoBatch == [items |-> {}, due |-> FALSE]
NoSweep == [pc |-> "idle", wait |-> FALSE, items |-> {}, due |-> FALSE, todo |-> {}, left |-> {}, to |-> Nothing]

MailInit ==
    /\ mailStore \in MailStores
    /\ mailSettings \in [enabled : {TRUE}, wait : BOOLEAN]
    /\ mailLock = Nothing /\ unreviewed = {} /\ notified = {} /\ batch = NoBatch
    /\ sweep = [r \in Replicas |-> NoSweep] /\ patch = Nothing /\ patches = 0
    /\ mails = [f \in Failures |-> 0] /\ queued = {} /\ lapsed = {}
    /\ mailFaults = 0 /\ lockLapsed = FALSE /\ sweeps = 0

MailTo(r, rec) == sweep' = [sweep EXCEPT ![r] = rec]
MailFault == mailFaults < MaxMailFaults /\ mailFaults' = mailFaults + 1

-----------------------------------------------------------------------------
(* Outside: tasks fail and are reviewed.                        *)
TaskFails(f) ==
    /\ f \notin unreviewed /\ mails[f] = 0 /\ unreviewed' = unreviewed \cup {f}
    /\ UNCHANGED <<mailStore, mailSettings, mailLock, notified, batch, sweep, patch, patches, mails, queued, lapsed,
                   mailFaults, lockLapsed, sweeps>>

TaskReviewed(f) ==
    /\ f \in unreviewed /\ mails[f] > 0 /\ unreviewed' = unreviewed \ {f}
    /\ UNCHANGED <<mailStore, mailSettings, mailLock, notified, batch, sweep, patch, patches, mails, queued, lapsed,
                   mailFaults, lockLapsed, sweeps>>

(* PATCH of the settings: update reads the settings, then writes them all. *)
PatchRead(change) ==
    /\ patch = Nothing /\ patches < MaxPatches /\ patches' = patches + 1
    /\ patch' = [enabled |-> IF change.enabled = Nothing THEN mailSettings.enabled ELSE change.enabled,
                 wait |-> IF change.wait = Nothing THEN mailSettings.wait ELSE change.wait]
    /\ UNCHANGED <<mailStore, mailSettings, mailLock, unreviewed, notified, batch, sweep, mails, queued, lapsed,
                   mailFaults, lockLapsed, sweeps>>

PatchWrite ==
    /\ patch # Nothing
    /\ mailSettings' = patch /\ patch' = Nothing
    /\ UNCHANGED <<mailStore, mailLock, unreviewed, notified, batch, sweep, patches, mails, queued, lapsed,
                   mailFaults, lockLapsed, sweeps>>

-----------------------------------------------------------------------------
(* notify_new_failed_tasks.                                                *)
TryLock(r) ==
    /\ sweep[r] = NoSweep /\ mailLock = Nothing /\ mailSettings.enabled
    /\ sweeps < MaxSweeps /\ sweeps' = sweeps + 1
    /\ mailLock' = r
    /\ MailTo(r, [NoSweep EXCEPT !.pc = "load", !.wait = mailSettings.wait])
    /\ UNCHANGED <<mailStore, mailSettings, unreviewed, notified, batch, patch, patches, mails, queued, lapsed,
                   mailFaults, lockLapsed>>

LoadPending(r) ==
    /\ sweep[r].pc = "load"
    /\ MailTo(r, [sweep[r] EXCEPT !.pc = "list", !.items = batch.items, !.due = batch.due])
    /\ UNCHANGED <<mailStore, mailSettings, mailLock, unreviewed, notified, batch, patch, patches, mails, queued, lapsed,
                   mailFaults, lockLapsed, sweeps>>

(* _list_unreviewed_failed_task_items; a failing federation ends the sweep.*)
ListFailed(r) ==
    /\ sweep[r].pc = "list"
    /\ \/ MailTo(r, [sweep[r] EXCEPT !.pc = "queue", !.todo = unreviewed])
       \/ MailTo(r, [sweep[r] EXCEPT !.pc = "unlock"])
    /\ UNCHANGED <<mailStore, mailSettings, mailLock, unreviewed, notified, batch, patch, patches, mails, queued, lapsed,
                   mailFaults, lockLapsed, sweeps>>

(* _should_queue_item.                                                     *)
QueueItem(r, f) ==
    LET me == sweep[r]
    IN  /\ me.pc = "queue" /\ f \in me.todo
        /\ MailTo(r, [me EXCEPT !.todo = @ \ {f},
                               !.items = IF f \in notified THEN @ ELSE @ \cup {f}])
        /\ UNCHANGED <<mailStore, mailSettings, mailLock, unreviewed, notified, batch, patch, patches, mails, queued, lapsed,
                       mailFaults, lockLapsed, sweeps>>

SavePending(items, due) == batch' = [items |-> items, due |-> due] /\ queued' = queued \cup items
ClearPending == batch' = NoBatch /\ UNCHANGED queued

(* Nothing to tell, a mail for each, a longer wait, or one mail for all.   *)
Decide(r) ==
    LET me == sweep[r]
    IN  /\ me.pc = "queue" /\ me.todo = {}
        /\ \/ me.items = {} /\ ClearPending /\ MailTo(r, [me EXCEPT !.pc = "unlock"])
           \/ /\ me.items # {} /\ ~me.wait
              /\ MailTo(r, [me EXCEPT !.pc = "send", !.todo = me.items]) /\ UNCHANGED <<batch, queued>>
           \/ /\ me.items # {} /\ me.wait /\ ~me.due
              /\ SavePending(me.items, me.due) /\ MailTo(r, [me EXCEPT !.pc = "unlock"])
           \/ /\ me.items # {} /\ me.wait /\ me.due
              /\ MailTo(r, [me EXCEPT !.pc = "sendall"]) /\ UNCHANGED <<batch, queued>>
        /\ UNCHANGED <<mailStore, mailSettings, mailLock, unreviewed, notified, patch, patches, mails, lapsed,
                       mailFaults, lockLapsed, sweeps>>

(* _send_email: taken, refused, or taken with the answer lost.             *)
Sent(items, ok) ==
    \/ ok /\ mails' = [f \in Failures |-> mails[f] + IF f \in items THEN 1 ELSE 0] /\ UNCHANGED mailFaults
    \/ ~ok /\ UNCHANGED <<mails, mailFaults>>
    \/ ~ok /\ mails' = [f \in Failures |-> mails[f] + IF f \in items THEN 1 ELSE 0] /\ MailFault

SendOne(r, f, ok) ==
    LET me == sweep[r]
    IN  /\ me.pc = "send" /\ f \in me.todo
        /\ Sent({f}, ok)
        /\ IF ok THEN MailTo(r, [me EXCEPT !.pc = "mark", !.to = f])
           ELSE MailTo(r, [me EXCEPT !.todo = @ \ {f}, !.left = @ \cup {f}])
        /\ UNCHANGED <<mailStore, mailSettings, mailLock, unreviewed, notified, batch, patch, patches, queued, lapsed,
                       lockLapsed, sweeps>>

MarkOne(r) ==
    LET me == sweep[r]
    IN  /\ me.pc = "mark"
        /\ notified' = notified \cup {me.to}
        /\ MailTo(r, [me EXCEPT !.pc = "send", !.to = Nothing, !.todo = @ \ {me.to}])
        /\ UNCHANGED <<mailStore, mailSettings, mailLock, unreviewed, batch, patch, patches, mails, queued, lapsed,
                       mailFaults, lockLapsed, sweeps>>

(* The rest of _send_immediate_notifications.                              *)
KeepRemaining(r) ==
    LET me == sweep[r]
    IN  /\ me.pc = "send" /\ me.todo = {}
        /\ IF me.left # {} THEN SavePending(me.left, FALSE) ELSE ClearPending
        /\ MailTo(r, [me EXCEPT !.pc = "unlock"])
        /\ UNCHANGED <<mailStore, mailSettings, mailLock, unreviewed, notified, patch, patches, mails, lapsed,
                       mailFaults, lockLapsed, sweeps>>

(* Seeded fault: the batch is forgotten although its mail was refused.     *)
MutantSendBatch(r, ok) ==
    LET me == sweep[r]
    IN  /\ me.pc = "sendall"
        /\ Sent(me.items, ok)
        /\ IF ok THEN MailTo(r, [me EXCEPT !.pc = "markall", !.todo = me.items]) /\ UNCHANGED <<batch, queued>>
           ELSE ClearPending /\ MailTo(r, [me EXCEPT !.pc = "unlock"])
        /\ UNCHANGED <<mailStore, mailSettings, mailLock, unreviewed, notified, patch, patches, lapsed,
                       lockLapsed, sweeps>>
(* _send_batch_notification: a refused mail starts the wait anew.          *)
SendBatch(r, ok) ==
    LET me == sweep[r]
    IN  /\ me.pc = "sendall"
        /\ Sent(me.items, ok)
        /\ IF ok THEN MailTo(r, [me EXCEPT !.pc = "markall", !.todo = me.items]) /\ UNCHANGED <<batch, queued>>
           ELSE SavePending(me.items, FALSE) /\ MailTo(r, [me EXCEPT !.pc = "unlock"])
        /\ UNCHANGED <<mailStore, mailSettings, mailLock, unreviewed, notified, patch, patches, lapsed,
                       lockLapsed, sweeps>>

MarkAll(r) ==
    LET me == sweep[r]
    IN  /\ me.pc = "markall"
        /\ IF me.todo = {}
           THEN /\ ClearPending /\ MailTo(r, [me EXCEPT !.pc = "unlock"]) /\ UNCHANGED notified
           ELSE \E f \in me.todo : /\ notified' = notified \cup {f}
                                   /\ MailTo(r, [me EXCEPT !.todo = @ \ {f}])
                                   /\ UNCHANGED <<batch, queued>>
        /\ UNCHANGED <<mailStore, mailSettings, mailLock, unreviewed, patch, patches, mails, lapsed,
                       mailFaults, lockLapsed, sweeps>>

(* The advisory lock is the replica's own; the Redis key is deleted        *)
(* whoever holds it by now.                                                *)
Unlock(r) ==
    /\ sweep[r].pc = "unlock"
    /\ mailLock' = IF mailStore = "redis" \/ mailLock = r THEN Nothing ELSE mailLock
    /\ MailTo(r, NoSweep)
    /\ UNCHANGED <<mailStore, mailSettings, unreviewed, notified, batch, patch, patches, mails, queued, lapsed,
                   mailFaults, lockLapsed, sweeps>>

-----------------------------------------------------------------------------
(* A replica stops; its session's lock goes with it, a Redis key stays.    *)
ReplicaStops(r) ==
    /\ sweep[r] # NoSweep /\ MailFault
    /\ MailTo(r, NoSweep)
    /\ mailLock' = IF mailStore = "postgres" /\ mailLock = r THEN Nothing ELSE mailLock
    /\ UNCHANGED <<mailStore, mailSettings, unreviewed, notified, batch, patch, patches, mails, queued, lapsed,
                   lockLapsed, sweeps>>

(* The Redis key expires, under a replica that takes too long or died.     *)
LockExpires ==
    /\ mailStore = "redis" /\ mailLock # Nothing
    /\ IF sweep[mailLock] # NoSweep THEN MailFault /\ lockLapsed' = TRUE
       ELSE UNCHANGED <<mailFaults, lockLapsed>>
    /\ mailLock' = Nothing
    /\ UNCHANGED <<mailStore, mailSettings, unreviewed, notified, batch, sweep, patch, patches, mails, queued, lapsed, sweeps>>

BatchDue ==
    /\ batch.items # {} /\ ~batch.due /\ batch' = [batch EXCEPT !.due = TRUE]
    /\ UNCHANGED <<mailStore, mailSettings, mailLock, unreviewed, notified, sweep, patch, patches, mails, queued, lapsed,
                   mailFaults, lockLapsed, sweeps>>

(* The dedupe TTL ends: of the marks, or of a batch nobody sent.           *)
DedupeExpires ==
    /\ notified \cup batch.items # {} /\ MailFault
    /\ notified' = {} /\ batch' = NoBatch /\ lapsed' = lapsed \cup batch.items
    /\ UNCHANGED <<mailStore, mailSettings, mailLock, unreviewed, sweep, patch, patches, mails, queued, lockLapsed, sweeps>>

MailNext ==
    \/ \E f \in Failures : TaskFails(f) \/ TaskReviewed(f)
    \/ \E r \in Replicas :
        \/ TryLock(r) \/ LoadPending(r) \/ ListFailed(r) \/ Decide(r)
        \/ \E f \in Failures : QueueItem(r, f) \/ \E ok \in BOOLEAN : SendOne(r, f, ok)
        \/ \E ok \in BOOLEAN : SendBatch(r, ok)
        \/ MarkOne(r) \/ KeepRemaining(r) \/ MarkAll(r)
        \/ Unlock(r) \/ ReplicaStops(r)
    \/ \E e, w \in {Nothing, TRUE, FALSE} : PatchRead([enabled |-> e, wait |-> w])
    \/ PatchWrite \/ LockExpires \/ BatchDue \/ DedupeExpires

MailSpec == MailInit /\ [][MailNext]_mailVars

-----------------------------------------------------------------------------
(* A failure is mailed once by all replicas together, unless one of them   *)
(* stopped, the answer to a mail was lost, or a lock or mark expired.      *)
MailedOnce == mailFaults = 0 => \A f \in Failures : mails[f] <= 1

(* A failure once stored for a later mail is still stored until its mail   *)
(* has gone, through crashes and refusals, unless the lock expired under a *)
(* replica at work or the batch outlived its TTL.                          *)
QueuedIsMailed ==
    ~lockLapsed => \A f \in queued : f \in batch.items \cup lapsed \/ mails[f] > 0

(* Both: a mail of each failure that waits for one, and only one.          *)
MailSound == MailedOnce /\ QueuedIsMailed
=============================================================================
