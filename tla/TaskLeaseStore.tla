--------------------------- MODULE TaskLeaseStore ---------------------------
(* RedisTaskLeaseStore and TaskLeaseExpiryScanner                          *)
(* (src/relayna/storage/task_lease_store.py) as the consumers drive them:  *)
(* _process_task_with_lease and _heartbeat_lease of TaskConsumer.          *)
(*                                                                         *)
(* The model follows one lease id.  Every Redis round trip is a step; the  *)
(* commands of one pipeline are one step.  Time passes in ticks, Second    *)
(* ticks to the second, because Redis key TTLs are whole seconds while     *)
(* expires_at is not.                                                      *)
EXTENDS Naturals

CONSTANTS
    Workers, Scanners,
    Owners,       \* lease owner ids
    Owner,        \* owner id of each worker: lease_owner_id or consumer_name
    NoLease,      \* an absent key, payload or score
    Ttl,          \* lease_policy.ttl_seconds, in ticks
    Second,       \* ticks per second
    Prompt,       \* heartbeats always reach Redis before the key expires
    MaxTime,      \* bound on the clock, and on the expiry of any lease
    MaxLeases,    \* bound on successful acquires
    MaxCrashes,   \* bound on crashed workers
    MaxFailures   \* bound on failing recovery publications

ASSUME LeaseAssumption ==
    /\ Owner \in [Workers -> Owners]
    /\ Ttl \in Nat \ {0} /\ Second \in Nat \ {0}
    /\ Prompt \in BOOLEAN
    /\ {MaxTime, MaxLeases, MaxCrashes, MaxFailures} \subseteq Nat
    /\ NoLease \notin Nat

(* The stored TaskLease: id numbers the acquisition (acquired_at, attempt).*)
Lease == [id : Nat, owner : Owners, expires : Nat]

ASSUME NoLeaseAssumption == NoLease \notin Lease

VARIABLES
    now,        \* the clock
    key,        \* payload under lease:task:<id>
    gone,       \* instant at which Redis drops that key
    score,      \* its score in the lease:expiries sorted set
    claimed,    \* member of the lease:expired_claims set
    owned,      \* owners whose lease:owner set holds the id
    wpc, mine,  \* per worker: control state, acquisition it works under
    expiry,     \* per worker: expires_at of the lease it built
    hb,         \* per worker: payload and expiry of a heartbeat between GET and SET
    spc, seen, since,  \* per scanner: control state, fetched payload, its "now"
    leases,     \* acquisitions so far
    crashes,    \* crashes so far
    orphans,    \* history: acquisitions whose worker crashed
    reported,   \* history: how often each acquisition was published as expired
    failures    \* recovery publications that have failed

redis == <<key, gone, score, claimed, owned>>
workers == <<wpc, mine, expiry, hb>>
scanners == <<spc, seen, since>>
ghosts == <<crashes, orphans, reported, failures>>
vars == <<now, redis, workers, scanners, leases, ghosts>>

TypeOK ==
    /\ now \in 0 .. MaxTime
    /\ key \in Lease \cup {NoLease}
    /\ gone \in Nat /\ (key # NoLease => gone > now)
    /\ score \in Nat \cup {NoLease}
    /\ claimed \in BOOLEAN
    /\ owned \subseteq Owners
    /\ wpc \in [Workers -> {"idle", "indexing", "running", "release", "delete"}]
    /\ mine \in [Workers -> 0 .. MaxLeases]
    /\ expiry \in [Workers -> Nat]
    /\ hb \in [Workers -> Lease \cup {NoLease}]
    /\ spc \in [Scanners -> {"idle", "claim", "fetch", "cleanup", "publish", "unclaim", "restore"}]
    /\ seen \in [Scanners -> Lease \cup {NoLease}]
    /\ since \in [Scanners -> 0 .. MaxTime]
    /\ leases \in 0 .. MaxLeases /\ crashes \in 0 .. MaxCrashes
    /\ orphans \subseteq 1 .. MaxLeases
    /\ reported \in [1 .. MaxLeases -> Nat]
    /\ failures \in 0 .. MaxFailures

Init ==
    /\ now = 0
    /\ key = NoLease /\ gone = 0 /\ score = NoLease /\ claimed = FALSE /\ owned = {}
    /\ wpc = [w \in Workers |-> "idle"]
    /\ mine = [w \in Workers |-> 0]
    /\ expiry = [w \in Workers |-> 0]
    /\ hb = [w \in Workers |-> NoLease]
    /\ spc = [s \in Scanners |-> "idle"]
    /\ seen = [s \in Scanners |-> NoLease]
    /\ since = [s \in Scanners |-> 0]
    /\ leases = 0 /\ crashes = 0
    /\ orphans = {} /\ reported = [i \in 1 .. MaxLeases |-> 0] /\ failures = 0

-----------------------------------------------------------------------------
(* max(1, int((expires_at - _utcnow()).total_seconds())) seconds.  The     *)
(* clock is read again after expires_at was computed, so the difference is *)
(* strictly below the full remaining time and int() rounds it down.        *)
KeyTtl(remaining) ==
    Second * (IF remaining > Second THEN (remaining - 1) \div Second ELSE 1)

(* The call is over, its locals are gone.                                  *)
WorkerDone(w) ==
    /\ wpc' = [wpc EXCEPT ![w] = "idle"]
    /\ mine' = [mine EXCEPT ![w] = 0]
    /\ expiry' = [expiry EXCEPT ![w] = 0]
    /\ hb' = [hb EXCEPT ![w] = NoLease]

ScanDone(s) ==
    /\ spc' = [spc EXCEPT ![s] = "idle"]
    /\ seen' = [seen EXCEPT ![s] = NoLease]
    /\ since' = [since EXCEPT ![s] = 0]

-----------------------------------------------------------------------------
(* Seeded fault: the key is SET without NX.                                *)
MutantAcquireWithoutNX(w) ==
    /\ wpc[w] = "idle"
    /\ leases < MaxLeases /\ now + Ttl <= MaxTime
    /\ leases' = leases + 1
    /\ key' = [id |-> leases + 1, owner |-> Owner[w], expires |-> now + Ttl]
    /\ gone' = now + KeyTtl(Ttl)
    /\ wpc' = [wpc EXCEPT ![w] = "indexing"]
    /\ mine' = [mine EXCEPT ![w] = leases + 1]
    /\ expiry' = [expiry EXCEPT ![w] = now + Ttl]
    /\ UNCHANGED <<now, score, claimed, owned, hb, scanners, ghosts>>

(* acquire, first round trip: SET NX EX.                                   *)
AcquireSet(w) ==
    /\ wpc[w] = "idle"
    /\ leases < MaxLeases /\ now + Ttl <= MaxTime
    /\ key = NoLease
    /\ leases' = leases + 1
    /\ key' = [id |-> leases + 1, owner |-> Owner[w], expires |-> now + Ttl]
    /\ gone' = now + KeyTtl(Ttl)
    /\ wpc' = [wpc EXCEPT ![w] = "indexing"]
    /\ mine' = [mine EXCEPT ![w] = leases + 1]
    /\ expiry' = [expiry EXCEPT ![w] = now + Ttl]
    /\ UNCHANGED <<now, score, claimed, owned, hb, scanners, ghosts>>

(* acquire, second round trip: SREM claim, SADD owner, ZADD expiry with the *)
(* values of the lease that was built before the first one.                *)
AcquireIndex(w) ==
    /\ wpc[w] = "indexing"
    /\ claimed' = FALSE
    /\ owned' = owned \cup {Owner[w]}
    /\ score' = expiry[w]
    /\ wpc' = [wpc EXCEPT ![w] = "running"]
    /\ UNCHANGED <<now, key, gone, mine, expiry, hb, scanners, leases, ghosts>>

(* heartbeat: GET; nothing more happens unless the payload has our owner.  *)
HeartbeatRead(w) ==
    /\ wpc[w] = "running" /\ hb[w] = NoLease
    /\ now + Ttl <= MaxTime
    /\ key # NoLease
    /\ key.owner = Owner[w]
    /\ hb' = [hb EXCEPT ![w] = [key EXCEPT !.expires = now + Ttl]]
    /\ UNCHANGED <<now, redis, wpc, mine, expiry, scanners, leases, ghosts>>

(* heartbeat: the pipeline SETs the copied payload, whatever is stored now,*)
(* and ZADDs the new expiry.                                               *)
HeartbeatWrite(w) ==
    /\ wpc[w] = "running" /\ hb[w] # NoLease
    /\ key' = hb[w]
    /\ gone' = now + KeyTtl(IF hb[w].expires > now THEN hb[w].expires - now ELSE 0)
    /\ score' = hb[w].expires
    /\ hb' = [hb EXCEPT ![w] = NoLease]
    /\ UNCHANGED <<now, claimed, owned, wpc, mine, expiry, scanners, leases, ghosts>>

(* The handler is done: the heartbeat task is cancelled, wherever it is.   *)
Finish(w) ==
    /\ wpc[w] = "running"
    /\ hb' = [hb EXCEPT ![w] = NoLease]
    /\ wpc' = [wpc EXCEPT ![w] = "release"]
    /\ UNCHANGED <<now, redis, mine, expiry, scanners, leases, ghosts>>

(* release: GET and compare the owner.                                     *)
ReleaseRead(w) ==
    /\ wpc[w] = "release"
    /\ IF key # NoLease /\ key.owner = Owner[w]
       THEN wpc' = [wpc EXCEPT ![w] = "delete"] /\ UNCHANGED <<mine, expiry, hb>>
       ELSE WorkerDone(w)
    /\ UNCHANGED <<now, redis, scanners, leases, ghosts>>

(* release: DEL the key, SREM owner, ZREM expiry, SREM claim.              *)
ReleaseDelete(w) ==
    /\ wpc[w] = "delete"
    /\ key' = NoLease /\ gone' = 0
    /\ owned' = owned \ {Owner[w]}
    /\ score' = NoLease
    /\ claimed' = FALSE
    /\ WorkerDone(w)
    /\ UNCHANGED <<now, scanners, leases, ghosts>>

(* The worker process dies while it holds the lease; its restart is idle.  *)
Crash(w) ==
    /\ wpc[w] # "idle"
    /\ crashes < MaxCrashes
    /\ crashes' = crashes + 1
    /\ WorkerDone(w)
    /\ orphans' = orphans \cup {mine[w]}
    /\ UNCHANGED <<now, redis, scanners, leases, reported, failures>>

-----------------------------------------------------------------------------
(* claim_expired: ZRANGEBYSCORE up to the scanner's now.                   *)
ScanRange(s) ==
    /\ spc[s] = "idle"
    /\ score # NoLease /\ score <= now
    /\ since' = [since EXCEPT ![s] = now]
    /\ spc' = [spc EXCEPT ![s] = "claim"]
    /\ UNCHANGED <<now, redis, workers, seen, leases, ghosts>>

(* Seeded fault: the answer of SADD is ignored.                            *)
MutantClaimIgnored(s) ==
    /\ spc[s] = "claim"
    /\ claimed' = TRUE
    /\ spc' = [spc EXCEPT ![s] = "fetch"]
    /\ UNCHANGED <<now, key, gone, score, owned, workers, seen, since, leases, ghosts>>

(* claim_expired: SADD tells whether this scanner got the claim.           *)
ScanClaim(s) ==
    /\ spc[s] = "claim"
    /\ claimed' = TRUE
    /\ IF claimed THEN ScanDone(s)
       ELSE spc' = [spc EXCEPT ![s] = "fetch"] /\ UNCHANGED <<seen, since>>
    /\ UNCHANGED <<now, key, gone, score, owned, workers, leases, ghosts>>

(* claim_expired: MGET the payload.                                        *)
ScanFetch(s) ==
    /\ spc[s] = "fetch"
    /\ seen' = [seen EXCEPT ![s] = key]
    /\ spc' = [spc EXCEPT ![s] = "cleanup"]
    /\ UNCHANGED <<now, redis, workers, since, leases, ghosts>>

(* Seeded fault: the claim of a lease whose payload is gone is kept.       *)
MutantClaimKept(s) ==
    /\ spc[s] = "cleanup"
    /\ score' = NoLease /\ UNCHANGED claimed
    /\ spc' = [spc EXCEPT ![s] = IF seen[s] = NoLease THEN "idle" ELSE "publish"]
    /\ UNCHANGED <<now, key, gone, owned, workers, seen, since, leases, ghosts>>

(* claim_expired: the cleanup pipeline, decided by the payload fetched     *)
(* before: gone, renewed, or expired and returned to scan_once.            *)
ScanCleanup(s) ==
    /\ spc[s] = "cleanup"
    /\ IF seen[s] = NoLease
       THEN score' = NoLease /\ claimed' = FALSE /\ ScanDone(s)
       ELSE IF seen[s].expires > since[s]
       THEN score' = seen[s].expires /\ claimed' = FALSE /\ ScanDone(s)
       ELSE /\ score' = NoLease /\ UNCHANGED <<claimed, seen, since>>
            /\ spc' = [spc EXCEPT ![s] = "publish"]
    /\ UNCHANGED <<now, key, gone, owned, workers, leases, ghosts>>

(* scan_once: the recovery publisher succeeds.                             *)
Publish(s) ==
    /\ spc[s] = "publish"
    /\ reported' = [reported EXCEPT ![seen[s].id] = @ + 1]
    /\ ScanDone(s)
    /\ UNCHANGED <<now, redis, workers, leases, crashes, orphans, failures>>

(* scan_once: it raises.                                                   *)
PublishFails(s) ==
    /\ spc[s] = "publish"
    /\ failures < MaxFailures
    /\ failures' = failures + 1
    /\ spc' = [spc EXCEPT ![s] = "unclaim"]
    /\ UNCHANGED <<now, redis, workers, seen, since, leases, crashes, orphans, reported>>

(* _release_expired_claim: GET the lease again ...                         *)
UnclaimRead(s) ==
    /\ spc[s] = "unclaim"
    /\ seen' = [seen EXCEPT ![s] = key]
    /\ spc' = [spc EXCEPT ![s] = "restore"]
    /\ UNCHANGED <<now, redis, workers, since, leases, ghosts>>

(* ... then ZADD its expiry if there is one, and SREM the claim.           *)
UnclaimRestore(s) ==
    /\ spc[s] = "restore"
    /\ score' = IF seen[s] = NoLease THEN score ELSE seen[s].expires
    /\ claimed' = FALSE
    /\ ScanDone(s)
    /\ UNCHANGED <<now, key, gone, owned, workers, leases, ghosts>>

(* The acquisition a worker runs under is still the one in Redis.          *)
Holds(w) == wpc[w] # "idle" /\ key # NoLease /\ key.id = mine[w]

(* Time passes and Redis drops the key when its TTL is over.  With prompt  *)
(* heartbeats that never happens to a live worker.                         *)
Tick ==
    /\ now < MaxTime
    /\ Prompt => ~(\E w \in Workers : Holds(w) /\ gone <= now + 1)
    /\ now' = now + 1
    /\ IF gone <= now + 1 THEN key' = NoLease /\ gone' = 0 ELSE UNCHANGED <<key, gone>>
    /\ UNCHANGED <<score, claimed, owned, workers, scanners, leases, ghosts>>

WorkerStep(w) ==
    \/ AcquireSet(w) \/ AcquireIndex(w)
    \/ HeartbeatRead(w) \/ HeartbeatWrite(w)
    \/ Finish(w) \/ ReleaseRead(w) \/ ReleaseDelete(w)

ScanStep(s) ==
    \/ ScanRange(s) \/ ScanClaim(s) \/ ScanFetch(s) \/ ScanCleanup(s)
    \/ Publish(s) \/ PublishFails(s) \/ UnclaimRead(s) \/ UnclaimRestore(s)

Next ==
    \/ Tick
    \/ \E w \in Workers : WorkerStep(w) \/ Crash(w)
    \/ \E s \in Scanners : ScanStep(s)

Spec == Init /\ [][Next]_vars

(* Time passes, handlers end and release, and the scanner's loop runs.     *)
(* Acquires, heartbeats and crashes are never forced.                      *)
Fairness ==
    /\ WF_vars(Tick)
    /\ \A w \in Workers :
          /\ WF_vars(AcquireIndex(w) \/ ReleaseRead(w) \/ ReleaseDelete(w))
          /\ WF_vars(Finish(w))
    /\ \A s \in Scanners :
          /\ WF_vars(ScanRange(s))
          /\ WF_vars(ScanClaim(s) \/ ScanFetch(s) \/ ScanCleanup(s) \/ Publish(s)
                     \/ UnclaimRead(s) \/ UnclaimRestore(s))

FairSpec == Spec /\ Fairness

-----------------------------------------------------------------------------
(* The lease admits one worker at a time: two workers never run the        *)
(* handler of the same task together.                                      *)
OneWorkerAtATime ==
    \A w1, w2 \in Workers : w1 # w2 => ~(wpc[w1] = "running" /\ wpc[w2] = "running")

(* Scanners never publish one acquisition as expired twice, however they   *)
(* interleave and whichever publication fails.  It takes a second acquire  *)
(* of the same id, whose index pipeline drops the claim marker of a scan   *)
(* under way, to defeat the markers.                                       *)
ReportedOnce == leases = 1 => reported[1] <= 1

(* The lease a crashed worker leaves behind is published as expired.       *)
ExpiredReported == \A i \in 1 .. MaxLeases : i \in orphans ~> reported[i] > 0

(* The index entry and the claim marker of a lease that is gone are        *)
(* cleaned up for good, by the release or by a scan, unless the lease was  *)
(* published as expired: the claim then stays until the id is acquired     *)
(* again or released.                                                      *)
IndexCleaned ==
    <>[](\/ (score = NoLease /\ ~claimed)
         \/ \E i \in 1 .. MaxLeases : reported[i] > 0)

(* Both: the lease admits one worker, and its expiry is published once.    *)
LeaseSound == TypeOK /\ OneWorkerAtATime /\ ReportedOnce
=============================================================================
