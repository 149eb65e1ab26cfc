------------------------ MODULE TaskLeaseStoreProofs ------------------------
(* Proofs about TaskLeaseStore: the lease admits one worker and its expiry *)
(* is published once, for any workers, scanners, owners, TTLs, crashes and *)
(* failing publications.                                                   *)
EXTENDS TaskLeaseStore, TLAPS

(* TypeOK in parts, without the claim marker.                              *)
StoreSorts ==
    /\ now \in 0 .. MaxTime
    /\ key \in Lease \cup {NoLease}
    /\ gone \in Nat /\ (key # NoLease => gone > now)
    /\ score \in Nat \cup {NoLease}
    /\ owned \subseteq Owners
    /\ leases \in 0 .. MaxLeases

WorkerSorts ==
    /\ wpc \in [Workers -> {"idle", "indexing", "running", "release", "delete"}]
    /\ mine \in [Workers -> 0 .. MaxLeases]
    /\ expiry \in [Workers -> Nat]
    /\ hb \in [Workers -> Lease \cup {NoLease}]

ScannerSorts ==
    /\ spc \in [Scanners -> {"idle", "claim", "fetch", "cleanup", "publish", "unclaim", "restore"}]
    /\ seen \in [Scanners -> Lease \cup {NoLease}]
    /\ since \in [Scanners -> 0 .. MaxTime]

GhostSorts ==
    /\ crashes \in 0 .. MaxCrashes
    /\ orphans \subseteq 1 .. MaxLeases
    /\ reported \in [1 .. MaxLeases -> Nat]
    /\ failures \in 0 .. MaxFailures

Sorts == StoreSorts /\ WorkerSorts /\ ScannerSorts /\ GhostSorts

(* Every payload, stored, copied by a heartbeat or fetched by a scanner,   *)
(* is that of an acquisition that took place.                              *)
Numbered ==
    /\ key # NoLease => key.id \in 1 .. leases
    /\ \A w \in Workers : hb[w] # NoLease => hb[w].id \in 1 .. leases
    /\ \A s \in Scanners : seen[s] # NoLease => seen[s].id \in 1 .. leases
    /\ \A s \in Scanners : spc[s] = "publish" => seen[s] # NoLease
    /\ \A w \in Workers : wpc[w] # "idle" => mine[w] \in 1 .. leases

(* The scanner got the claim and has not given it back.                    *)
Claiming(s) == spc[s] \in {"fetch", "cleanup", "publish", "unclaim", "restore"}

(* The scanner is on its way to a publication.                             *)
Armed(s) == spc[s] = "publish" \/ (spc[s] = "cleanup" /\ seen[s] # NoLease)

(* Nothing was ever acquired.                                              *)
Untouched ==
    /\ key = NoLease /\ score = NoLease /\ ~claimed
    /\ \A w \in Workers : wpc[w] = "idle"
    /\ \A s \in Scanners : spc[s] = "idle"
    /\ \A i \in 1 .. MaxLeases : reported[i] = 0

(* The first acquisition is not indexed yet: no scanner can know of it.    *)
Unindexed ==
    (\E w \in Workers : wpc[w] = "indexing") =>
        /\ score = NoLease /\ ~claimed
        /\ \A s \in Scanners : spc[s] = "idle"
        /\ reported[1] = 0

(* While the claim marker stands for it, the first acquisition is with one *)
(* scanner, or was published.                                              *)
Marked ==
    /\ \A s \in Scanners :
          Claiming(s) => claimed /\ reported[1] = 0 /\ \A t \in Scanners : Claiming(t) => t = s
    /\ reported[1] <= 1
    /\ reported[1] = 1 => claimed

(* Once the first acquisition is released, which drops the marker, nothing *)
(* brings its payload back: only a scanner that has it may publish.        *)
Released ==
    /\ key = NoLease
    /\ \A w \in Workers : wpc[w] = "idle"
    /\ \A s \in Scanners :
          Armed(s) => reported[1] = 0 /\ \A t \in Scanners : Armed(t) => t = s
    /\ reported[1] <= 1

OneActive ==
    \A v, w \in Workers : wpc[v] # "idle" /\ wpc[w] # "idle" => v = w

(* What holds until the id is acquired a second time.                      *)
FirstLease ==
    /\ leases = 0 => Untouched
    /\ leases = 1 => OneActive /\ Unindexed /\ (Marked \/ Released)

StoreInv == TypeOK /\ Numbered /\ FirstLease

(* With prompt heartbeats a worker that is not idle has the lease, and its *)
(* heartbeat is about that lease.                                          *)
Held ==
    /\ OneActive
    /\ \A w \in Workers :
          wpc[w] # "idle" => key # NoLease /\ key.owner = Owner[w] /\ key.id = mine[w]
    /\ \A w \in Workers : hb[w] # NoLease => wpc[w] = "running"
    /\ \A w \in Workers : hb[w] # NoLease => hb[w].owner = Owner[w] /\ hb[w].id = mine[w]

-----------------------------------------------------------------------------
(* A key lives for at least one tick after it was set.                     *)
LEMMA KeyLives == \A r \in Nat : KeyTtl(r) \in Nat /\ KeyTtl(r) > 0
<1> SUFFICES ASSUME NEW r \in Nat PROVE KeyTtl(r) \in Nat /\ KeyTtl(r) > 0
  OBVIOUS
<1> DEFINE k == IF r > Second THEN (r - 1) \div Second ELSE 1
<1>1. k \in Nat /\ k > 0
  <2>1. CASE r > Second
    <3> DEFINE q == (r - 1) \div Second
    <3>1. r - 1 \in Nat /\ r - 1 >= Second /\ Second \in Nat /\ Second > 0
      BY <2>1, LeaseAssumption
    <3>2. q \in Nat /\ q > 0
      BY <3>1
    <3> QED BY <2>1, <3>2
  <2>2. CASE ~(r > Second)
    BY <2>2
  <2> QED BY <2>1, <2>2
<1>2. Second \in Nat /\ Second > 0
  BY LeaseAssumption
<1>3. KeyTtl(r) = Second * k
  BY DEF KeyTtl
<1> HIDE DEF k
<1> QED BY <1>1, <1>2, <1>3

(* What the constants are.                                                 *)
LEMMA Bounds ==
    /\ Owner \in [Workers -> Owners] /\ Ttl \in Nat
    /\ MaxTime \in Nat /\ MaxLeases \in Nat /\ MaxCrashes \in Nat /\ MaxFailures \in Nat
    /\ NoLease \notin Nat /\ NoLease \notin Lease
BY LeaseAssumption, NoLeaseAssumption

(* The invariants hold before anything is acquired.                        *)
LEMMA InitStore == Init => StoreInv /\ Held
<1> SUFFICES ASSUME Init PROVE StoreInv /\ Held
  OBVIOUS
<1>1. Sorts
  BY Bounds DEF Init, Sorts, StoreSorts, WorkerSorts, ScannerSorts, GhostSorts
<1>4. claimed \in BOOLEAN
  BY DEF Init
<1>2. Numbered /\ Held
  BY DEF Init, Numbered, Held, OneActive
<1>3. FirstLease
  BY DEF Init, FirstLease, Untouched
<1> QED BY <1>1, <1>2, <1>3, <1>4 DEF StoreInv, TypeOK, Sorts, StoreSorts, WorkerSorts, ScannerSorts, GhostSorts

(* Every step keeps the types and the numbers of the acquisitions.         *)
LEMMA NextSorts == Sorts /\ Numbered /\ [Next]_vars => Sorts' /\ Numbered'
<1> SUFFICES ASSUME Sorts, Numbered, [Next]_vars PROVE Sorts' /\ Numbered'
  OBVIOUS
<1> USE Bounds
<1>1. ASSUME NEW w \in Workers, AcquireSet(w) PROVE Sorts' /\ Numbered'
  <2>1. StoreSorts'
    BY <1>1, KeyLives DEF AcquireSet, redis, workers, scanners, ghosts, Sorts, StoreSorts, WorkerSorts, ScannerSorts, Lease
  <2>2. WorkerSorts'
    BY <1>1 DEF AcquireSet, redis, workers, scanners, ghosts, Sorts, StoreSorts, WorkerSorts, Lease
  <2>3. ScannerSorts'
    BY <1>1 DEF AcquireSet, redis, workers, scanners, ghosts, Sorts, StoreSorts, ScannerSorts
  <2>4. GhostSorts'
    BY <1>1 DEF AcquireSet, redis, workers, scanners, ghosts, Sorts, StoreSorts, GhostSorts, Numbered
  <2>5. Numbered'
    BY <1>1 DEF AcquireSet, redis, workers, scanners, ghosts, Sorts, StoreSorts, WorkerSorts, ScannerSorts, Numbered, Lease
  <2> QED BY <2>1, <2>2, <2>3, <2>4, <2>5 DEF Sorts
<1>2. ASSUME NEW w \in Workers, AcquireIndex(w) PROVE Sorts' /\ Numbered'
  <2>1. StoreSorts'
    BY <1>2, KeyLives DEF AcquireIndex, redis, workers, scanners, ghosts, Sorts, StoreSorts, WorkerSorts, ScannerSorts, Lease
  <2>2. WorkerSorts'
    BY <1>2 DEF AcquireIndex, redis, workers, scanners, ghosts, Sorts, StoreSorts, WorkerSorts, Lease
  <2>3. ScannerSorts'
    BY <1>2 DEF AcquireIndex, redis, workers, scanners, ghosts, Sorts, StoreSorts, ScannerSorts
  <2>4. GhostSorts'
    BY <1>2 DEF AcquireIndex, redis, workers, scanners, ghosts, Sorts, StoreSorts, GhostSorts, Numbered
  <2>5. Numbered'
    BY <1>2 DEF AcquireIndex, redis, workers, scanners, ghosts, Sorts, StoreSorts, WorkerSorts, ScannerSorts, Numbered, Lease
  <2> QED BY <2>1, <2>2, <2>3, <2>4, <2>5 DEF Sorts
<1>3. ASSUME NEW w \in Workers, HeartbeatRead(w) PROVE Sorts' /\ Numbered'
  <2>1. StoreSorts'
    BY <1>3, KeyLives DEF HeartbeatRead, redis, workers, scanners, ghosts, Sorts, StoreSorts, WorkerSorts, ScannerSorts, Lease
  <2>2. WorkerSorts'
    BY <1>3 DEF HeartbeatRead, redis, workers, scanners, ghosts, Sorts, StoreSorts, WorkerSorts, Lease
  <2>3. ScannerSorts'
    BY <1>3 DEF HeartbeatRead, redis, workers, scanners, ghosts, Sorts, StoreSorts, ScannerSorts
  <2>4. GhostSorts'
    BY <1>3 DEF HeartbeatRead, redis, workers, scanners, ghosts, Sorts, StoreSorts, GhostSorts, Numbered
  <2>5. Numbered'
    BY <1>3 DEF HeartbeatRead, redis, workers, scanners, ghosts, Sorts, StoreSorts, WorkerSorts, ScannerSorts, Numbered, Lease
  <2> QED BY <2>1, <2>2, <2>3, <2>4, <2>5 DEF Sorts
<1>4. ASSUME NEW w \in Workers, HeartbeatWrite(w) PROVE Sorts' /\ Numbered'
  <2>1. StoreSorts'
    BY <1>4, KeyLives DEF HeartbeatWrite, redis, workers, scanners, ghosts, Sorts, StoreSorts, WorkerSorts, ScannerSorts, Lease
  <2>2. WorkerSorts'
    BY <1>4 DEF HeartbeatWrite, redis, workers, scanners, ghosts, Sorts, StoreSorts, WorkerSorts, Lease
  <2>3. ScannerSorts'
    BY <1>4 DEF HeartbeatWrite, redis, workers, scanners, ghosts, Sorts, StoreSorts, ScannerSorts
  <2>4. GhostSorts'
    BY <1>4 DEF HeartbeatWrite, redis, workers, scanners, ghosts, Sorts, StoreSorts, GhostSorts, Numbered
  <2>5. Numbered'
    BY <1>4 DEF HeartbeatWrite, redis, workers, scanners, ghosts, Sorts, StoreSorts, WorkerSorts, ScannerSorts, Numbered, Lease
  <2> QED BY <2>1, <2>2, <2>3, <2>4, <2>5 DEF Sorts
<1>5. ASSUME NEW w \in Workers, Finish(w) PROVE Sorts' /\ Numbered'
  <2>1. StoreSorts'
    BY <1>5, KeyLives DEF Finish, redis, workers, scanners, ghosts, Sorts, StoreSorts, WorkerSorts, ScannerSorts, Lease
  <2>2. WorkerSorts'
    BY <1>5 DEF Finish, redis, workers, scanners, ghosts, Sorts, StoreSorts, WorkerSorts, Lease
  <2>3. ScannerSorts'
    BY <1>5 DEF Finish, redis, workers, scanners, ghosts, Sorts, StoreSorts, ScannerSorts
  <2>4. GhostSorts'
    BY <1>5 DEF Finish, redis, workers, scanners, ghosts, Sorts, StoreSorts, GhostSorts, Numbered
  <2>5. Numbered'
    BY <1>5 DEF Finish, redis, workers, scanners, ghosts, Sorts, StoreSorts, WorkerSorts, ScannerSorts, Numbered, Lease
  <2> QED BY <2>1, <2>2, <2>3, <2>4, <2>5 DEF Sorts
<1>6. ASSUME NEW w \in Workers, ReleaseRead(w) PROVE Sorts' /\ Numbered'
  <2>1. StoreSorts'
    BY <1>6, KeyLives DEF ReleaseRead, WorkerDone, redis, workers, scanners, ghosts, Sorts, StoreSorts, WorkerSorts, ScannerSorts, Lease
  <2>2. WorkerSorts'
    BY <1>6 DEF ReleaseRead, WorkerDone, redis, workers, scanners, ghosts, Sorts, StoreSorts, WorkerSorts, Lease
  <2>3. ScannerSorts'
    BY <1>6 DEF ReleaseRead, WorkerDone, redis, workers, scanners, ghosts, Sorts, StoreSorts, ScannerSorts
  <2>4. GhostSorts'
    BY <1>6 DEF ReleaseRead, WorkerDone, redis, workers, scanners, ghosts, Sorts, StoreSorts, GhostSorts, Numbered
  <2>5. Numbered'
    BY <1>6 DEF ReleaseRead, WorkerDone, redis, workers, scanners, ghosts, Sorts, StoreSorts, WorkerSorts, ScannerSorts, Numbered, Lease
  <2> QED BY <2>1, <2>2, <2>3, <2>4, <2>5 DEF Sorts
<1>7. ASSUME NEW w \in Workers, ReleaseDelete(w) PROVE Sorts' /\ Numbered'
  <2>1. StoreSorts'
    BY <1>7, KeyLives DEF ReleaseDelete, WorkerDone, redis, workers, scanners, ghosts, Sorts, StoreSorts, WorkerSorts, ScannerSorts, Lease
  <2>2. WorkerSorts'
    BY <1>7 DEF ReleaseDelete, WorkerDone, redis, workers, scanners, ghosts, Sorts, StoreSorts, WorkerSorts, Lease
  <2>3. ScannerSorts'
    BY <1>7 DEF ReleaseDelete, WorkerDone, redis, workers, scanners, ghosts, Sorts, StoreSorts, ScannerSorts
  <2>4. GhostSorts'
    BY <1>7 DEF ReleaseDelete, WorkerDone, redis, workers, scanners, ghosts, Sorts, StoreSorts, GhostSorts, Numbered
  <2>5. Numbered'
    BY <1>7 DEF ReleaseDelete, WorkerDone, redis, workers, scanners, ghosts, Sorts, StoreSorts, WorkerSorts, ScannerSorts, Numbered, Lease
  <2> QED BY <2>1, <2>2, <2>3, <2>4, <2>5 DEF Sorts
<1>8. ASSUME NEW w \in Workers, Crash(w) PROVE Sorts' /\ Numbered'
  <2>1. StoreSorts'
    BY <1>8, KeyLives DEF Crash, WorkerDone, redis, workers, scanners, ghosts, Sorts, StoreSorts, WorkerSorts, ScannerSorts, Lease
  <2>2. WorkerSorts'
    BY <1>8 DEF Crash, WorkerDone, redis, workers, scanners, ghosts, Sorts, StoreSorts, WorkerSorts, Lease
  <2>3. ScannerSorts'
    BY <1>8 DEF Crash, WorkerDone, redis, workers, scanners, ghosts, Sorts, StoreSorts, ScannerSorts
  <2>4. GhostSorts'
    <3>1. mine[w] \in 1 .. MaxLeases /\ crashes + 1 \in 0 .. MaxCrashes
      BY <1>8 DEF Crash, Sorts, StoreSorts, GhostSorts, Numbered
    <3> QED BY <1>8, <3>1 DEF Crash, Sorts, GhostSorts
  <2>5. Numbered'
    BY <1>8 DEF Crash, WorkerDone, redis, workers, scanners, ghosts, Sorts, StoreSorts, WorkerSorts, ScannerSorts, Numbered, Lease
  <2> QED BY <2>1, <2>2, <2>3, <2>4, <2>5 DEF Sorts
<1>9. ASSUME NEW s \in Scanners, ScanRange(s) PROVE Sorts' /\ Numbered'
  <2>1. StoreSorts'
    BY <1>9, KeyLives DEF ScanRange, redis, workers, scanners, ghosts, Sorts, StoreSorts, WorkerSorts, ScannerSorts, Lease
  <2>2. WorkerSorts'
    BY <1>9 DEF ScanRange, redis, workers, scanners, ghosts, Sorts, StoreSorts, WorkerSorts, Lease
  <2>3. ScannerSorts'
    BY <1>9 DEF ScanRange, redis, workers, scanners, ghosts, Sorts, StoreSorts, ScannerSorts
  <2>4. GhostSorts'
    BY <1>9 DEF ScanRange, redis, workers, scanners, ghosts, Sorts, StoreSorts, GhostSorts, Numbered
  <2>5. Numbered'
    BY <1>9 DEF ScanRange, redis, workers, scanners, ghosts, Sorts, StoreSorts, WorkerSorts, ScannerSorts, Numbered, Lease
  <2> QED BY <2>1, <2>2, <2>3, <2>4, <2>5 DEF Sorts
<1>10. ASSUME NEW s \in Scanners, ScanClaim(s) PROVE Sorts' /\ Numbered'
  <2>1. StoreSorts'
    BY <1>10, KeyLives DEF ScanClaim, ScanDone, redis, workers, scanners, ghosts, Sorts, StoreSorts, WorkerSorts, ScannerSorts, Lease
  <2>2. WorkerSorts'
    BY <1>10 DEF ScanClaim, ScanDone, redis, workers, scanners, ghosts, Sorts, StoreSorts, WorkerSorts, Lease
  <2>3. ScannerSorts'
    BY <1>10 DEF ScanClaim, ScanDone, redis, workers, scanners, ghosts, Sorts, StoreSorts, ScannerSorts
  <2>4. GhostSorts'
    BY <1>10 DEF ScanClaim, ScanDone, redis, workers, scanners, ghosts, Sorts, StoreSorts, GhostSorts, Numbered
  <2>5. Numbered'
    BY <1>10 DEF ScanClaim, ScanDone, redis, workers, scanners, ghosts, Sorts, StoreSorts, WorkerSorts, ScannerSorts, Numbered, Lease
  <2> QED BY <2>1, <2>2, <2>3, <2>4, <2>5 DEF Sorts
<1>11. ASSUME NEW s \in Scanners, ScanFetch(s) PROVE Sorts' /\ Numbered'
  <2>1. StoreSorts'
    BY <1>11, KeyLives DEF ScanFetch, redis, workers, scanners, ghosts, Sorts, StoreSorts, WorkerSorts, ScannerSorts, Lease
  <2>2. WorkerSorts'
    BY <1>11 DEF ScanFetch, redis, workers, scanners, ghosts, Sorts, StoreSorts, WorkerSorts, Lease
  <2>3. ScannerSorts'
    BY <1>11 DEF ScanFetch, redis, workers, scanners, ghosts, Sorts, StoreSorts, ScannerSorts
  <2>4. GhostSorts'
    BY <1>11 DEF ScanFetch, redis, workers, scanners, ghosts, Sorts, StoreSorts, GhostSorts, Numbered
  <2>5. Numbered'
    BY <1>11 DEF ScanFetch, redis, workers, scanners, ghosts, Sorts, StoreSorts, WorkerSorts, ScannerSorts, Numbered, Lease
  <2> QED BY <2>1, <2>2, <2>3, <2>4, <2>5 DEF Sorts
<1>12. ASSUME NEW s \in Scanners, ScanCleanup(s) PROVE Sorts' /\ Numbered'
  <2>1. StoreSorts'
    BY <1>12, KeyLives DEF ScanCleanup, ScanDone, redis, workers, scanners, ghosts, Sorts, StoreSorts, WorkerSorts, ScannerSorts, Lease
  <2>2. WorkerSorts'
    BY <1>12 DEF ScanCleanup, ScanDone, redis, workers, scanners, ghosts, Sorts, StoreSorts, WorkerSorts, Lease
  <2>3. ScannerSorts'
    BY <1>12 DEF ScanCleanup, ScanDone, redis, workers, scanners, ghosts, Sorts, StoreSorts, ScannerSorts
  <2>4. GhostSorts'
    BY <1>12 DEF ScanCleanup, ScanDone, redis, workers, scanners, ghosts, Sorts, StoreSorts, GhostSorts, Numbered
  <2>5. Numbered'
    BY <1>12 DEF ScanCleanup, ScanDone, redis, workers, scanners, ghosts, Sorts, StoreSorts, WorkerSorts, ScannerSorts, Numbered, Lease
  <2> QED BY <2>1, <2>2, <2>3, <2>4, <2>5 DEF Sorts
<1>13. ASSUME NEW s \in Scanners, Publish(s) PROVE Sorts' /\ Numbered'
  <2>1. StoreSorts'
    BY <1>13, KeyLives DEF Publish, ScanDone, redis, workers, scanners, ghosts, Sorts, StoreSorts, WorkerSorts, ScannerSorts, Lease
  <2>2. WorkerSorts'
    BY <1>13 DEF Publish, ScanDone, redis, workers, scanners, ghosts, Sorts, StoreSorts, WorkerSorts, Lease
  <2>3. ScannerSorts'
    BY <1>13 DEF Publish, ScanDone, redis, workers, scanners, ghosts, Sorts, StoreSorts, ScannerSorts
  <2>4. GhostSorts'
    BY <1>13 DEF Publish, ScanDone, redis, workers, scanners, ghosts, Sorts, StoreSorts, GhostSorts, Numbered
  <2>5. Numbered'
    BY <1>13 DEF Publish, ScanDone, redis, workers, scanners, ghosts, Sorts, StoreSorts, WorkerSorts, ScannerSorts, Numbered, Lease
  <2> QED BY <2>1, <2>2, <2>3, <2>4, <2>5 DEF Sorts
<1>14. ASSUME NEW s \in Scanners, PublishFails(s) PROVE Sorts' /\ Numbered'
  <2>1. StoreSorts'
    BY <1>14, KeyLives DEF PublishFails, redis, workers, scanners, ghosts, Sorts, StoreSorts, WorkerSorts, ScannerSorts, Lease
  <2>2. WorkerSorts'
    BY <1>14 DEF PublishFails, redis, workers, scanners, ghosts, Sorts, StoreSorts, WorkerSorts, Lease
  <2>3. ScannerSorts'
    BY <1>14 DEF PublishFails, redis, workers, scanners, ghosts, Sorts, StoreSorts, ScannerSorts
  <2>4. GhostSorts'
    BY <1>14 DEF PublishFails, redis, workers, scanners, ghosts, Sorts, StoreSorts, GhostSorts, Numbered
  <2>5. Numbered'
    BY <1>14 DEF PublishFails, redis, workers, scanners, ghosts, Sorts, StoreSorts, WorkerSorts, ScannerSorts, Numbered, Lease
  <2> QED BY <2>1, <2>2, <2>3, <2>4, <2>5 DEF Sorts
<1>15. ASSUME NEW s \in Scanners, UnclaimRead(s) PROVE Sorts' /\ Numbered'
  <2>1. StoreSorts'
    BY <1>15, KeyLives DEF UnclaimRead, redis, workers, scanners, ghosts, Sorts, StoreSorts, WorkerSorts, ScannerSorts, Lease
  <2>2. WorkerSorts'
    BY <1>15 DEF UnclaimRead, redis, workers, scanners, ghosts, Sorts, StoreSorts, WorkerSorts, Lease
  <2>3. ScannerSorts'
    BY <1>15 DEF UnclaimRead, redis, workers, scanners, ghosts, Sorts, StoreSorts, ScannerSorts
  <2>4. GhostSorts'
    BY <1>15 DEF UnclaimRead, redis, workers, scanners, ghosts, Sorts, StoreSorts, GhostSorts, Numbered
  <2>5. Numbered'
    BY <1>15 DEF UnclaimRead, redis, workers, scanners, ghosts, Sorts, StoreSorts, WorkerSorts, ScannerSorts, Numbered, Lease
  <2> QED BY <2>1, <2>2, <2>3, <2>4, <2>5 DEF Sorts
<1>16. ASSUME NEW s \in Scanners, UnclaimRestore(s) PROVE Sorts' /\ Numbered'
  <2>1. StoreSorts'
    BY <1>16, KeyLives DEF UnclaimRestore, ScanDone, redis, workers, scanners, ghosts, Sorts, StoreSorts, WorkerSorts, ScannerSorts, Lease
  <2>2. WorkerSorts'
    BY <1>16 DEF UnclaimRestore, ScanDone, redis, workers, scanners, ghosts, Sorts, StoreSorts, WorkerSorts, Lease
  <2>3. ScannerSorts'
    BY <1>16 DEF UnclaimRestore, ScanDone, redis, workers, scanners, ghosts, Sorts, StoreSorts, ScannerSorts
  <2>4. GhostSorts'
    BY <1>16 DEF UnclaimRestore, ScanDone, redis, workers, scanners, ghosts, Sorts, StoreSorts, GhostSorts, Numbered
  <2>5. Numbered'
    BY <1>16 DEF UnclaimRestore, ScanDone, redis, workers, scanners, ghosts, Sorts, StoreSorts, WorkerSorts, ScannerSorts, Numbered, Lease
  <2> QED BY <2>1, <2>2, <2>3, <2>4, <2>5 DEF Sorts
<1>17. CASE Tick
  BY <1>17 DEF Tick, workers, scanners, ghosts, Sorts, StoreSorts, WorkerSorts, ScannerSorts, GhostSorts, Numbered
<1>18. CASE UNCHANGED vars
  BY <1>18 DEF vars, redis, workers, scanners, ghosts, Sorts, StoreSorts, WorkerSorts, ScannerSorts, GhostSorts, Numbered
<1> QED BY <1>1, <1>2, <1>3, <1>4, <1>5, <1>6, <1>7, <1>8, <1>9, <1>10, <1>11, <1>12, <1>13, <1>14, <1>15, <1>16, <1>17, <1>18 DEF Next, WorkerStep, ScanStep

(* The claim marker is there or not.                                       *)
LEMMA NextMarker == claimed \in BOOLEAN /\ [Next]_vars => claimed' \in BOOLEAN
BY Zenon DEF Next, vars, WorkerStep, ScanStep, Tick, AcquireSet, AcquireIndex, HeartbeatRead, HeartbeatWrite, Finish,
   ReleaseRead, ReleaseDelete, Crash, ScanRange, ScanClaim, ScanFetch, ScanCleanup, Publish, PublishFails, UnclaimRead,
   UnclaimRestore, redis

(* Before the first acquisition nothing happens but that, and time.        *)
LEMMA NothingToDo ==
    ASSUME StoreInv, leases = 0, Next
    PROVE  Tick \/ \E w \in Workers : AcquireSet(w)
BY DEF StoreInv, FirstLease, Untouched, Next, WorkerStep, ScanStep, AcquireIndex, HeartbeatRead, HeartbeatWrite, Finish,
   ReleaseRead, ReleaseDelete, Crash, ScanRange, ScanClaim, ScanFetch, ScanCleanup, Publish, PublishFails, UnclaimRead,
   UnclaimRestore

(* The first acquisition, in a store nobody touched.                       *)
LEMMA AcquireFirst ==
    ASSUME StoreInv, NEW w \in Workers, AcquireSet(w)
    PROVE  FirstLease'
<1>1. leases \in Nat /\ leases' = leases + 1
  BY DEF AcquireSet, StoreInv, TypeOK
<1>2. leases' = 1 => leases = 0
  BY <1>1
<1>3. leases' # 0
  BY <1>1
<1>4. ASSUME leases = 0 PROVE OneActive' /\ Unindexed' /\ Marked'
  <2>1. 1 \in 1 .. MaxLeases
    BY <1>4, LeaseAssumption DEF AcquireSet
  <2>2. Untouched
    BY <1>4 DEF StoreInv, FirstLease
  <2>3. /\ wpc' = [wpc EXCEPT ![w] = "indexing"] /\ wpc \in [Workers -> {"idle", "indexing", "running", "release", "delete"}]
        /\ UNCHANGED <<score, claimed, spc, reported>>
    BY DEF AcquireSet, StoreInv, TypeOK, scanners, ghosts
  <2>4. OneActive'
    BY <2>2, <2>3 DEF Untouched, OneActive
  <2>5. Unindexed'
    BY <2>1, <2>2, <2>3 DEF Untouched, Unindexed
  <2>6. Marked'
    BY <2>1, <2>2, <2>3 DEF Untouched, Marked, Claiming
  <2> QED BY <2>4, <2>5, <2>6
<1> QED BY <1>2, <1>3, <1>4 DEF FirstLease

(* Until the second acquisition, every step keeps the payload of the first *)
(* with one scanner at a time.                                             *)
LEMMA NextFirst == StoreInv /\ [Next]_vars => FirstLease'
<1> SUFFICES ASSUME StoreInv, [Next]_vars PROVE FirstLease'
  OBVIOUS
<1>0. CASE UNCHANGED vars
  BY <1>0 DEF vars, redis, workers, scanners, ghosts, StoreInv, FirstLease, Untouched, OneActive, Unindexed, Marked,
     Released, Claiming, Armed
<1>1. CASE \E w \in Workers : AcquireSet(w)
  BY <1>1, AcquireFirst
<1>2. CASE Tick
  BY <1>2 DEF Tick, workers, scanners, ghosts, StoreInv, FirstLease, Untouched, OneActive, Unindexed, Marked, Released,
     Claiming, Armed
<1> SUFFICES ASSUME Next, leases = 1, leases' = leases, OneActive, Unindexed, Marked \/ Released
             PROVE  OneActive' /\ Unindexed' /\ (Marked' \/ Released')
  <2>1. leases' = leases \/ \E w \in Workers : AcquireSet(w)
    BY DEF Next, WorkerStep, ScanStep, Tick, AcquireIndex, HeartbeatRead, HeartbeatWrite, Finish, ReleaseRead,
       ReleaseDelete, Crash, ScanRange, ScanClaim, ScanFetch, ScanCleanup, Publish, PublishFails, UnclaimRead,
       UnclaimRestore, vars
  <2>2. leases = 0 /\ Next => Tick \/ \E w \in Workers : AcquireSet(w)
    BY NothingToDo
  <2> QED BY <1>0, <1>1, <1>2, <2>1, <2>2 DEF FirstLease, StoreInv
<1>t. Sorts
  BY DEF StoreInv, TypeOK, Sorts, StoreSorts, WorkerSorts, ScannerSorts, GhostSorts
<1>n. Numbered
  BY DEF StoreInv
<1>o. 1 \in 1 .. MaxLeases /\ reported[1] \in Nat
  <2>1. 1 \in 1 .. MaxLeases
    BY <1>t, LeaseAssumption DEF Sorts, StoreSorts
  <2> QED BY <1>t, <2>1 DEF Sorts, GhostSorts
<1>3. ASSUME NEW w \in Workers, AcquireIndex(w) PROVE OneActive' /\ Unindexed' /\ (Marked' \/ Released')
  <2>1. OneActive'
    BY <1>t, <1>3 DEF AcquireIndex, workers, Sorts, WorkerSorts, OneActive
  <2>2. Unindexed'
    BY <1>t, <1>3 DEF AcquireIndex, redis, workers, scanners, ghosts, Sorts, WorkerSorts, OneActive, Unindexed
  <2>3. Marked' \/ Released'
    BY <1>t, <1>o, <1>3 DEF AcquireIndex, redis, workers, scanners, ghosts, Sorts, WorkerSorts, OneActive, Unindexed, Marked, Released, Claiming, Armed
  <2> QED BY <2>1, <2>2, <2>3
<1>4. ASSUME NEW w \in Workers, HeartbeatRead(w) PROVE OneActive' /\ Unindexed' /\ (Marked' \/ Released')
  <2>1. OneActive'
    BY <1>t, <1>4 DEF HeartbeatRead, workers, Sorts, WorkerSorts, OneActive
  <2>2. Unindexed'
    BY <1>t, <1>4 DEF HeartbeatRead, redis, workers, scanners, ghosts, Sorts, WorkerSorts, OneActive, Unindexed
  <2>3. Marked' \/ Released'
    BY <1>t, <1>o, <1>4 DEF HeartbeatRead, redis, workers, scanners, ghosts, Sorts, WorkerSorts, OneActive, Unindexed, Marked, Released, Claiming, Armed
  <2> QED BY <2>1, <2>2, <2>3
<1>5. ASSUME NEW w \in Workers, HeartbeatWrite(w) PROVE OneActive' /\ Unindexed' /\ (Marked' \/ Released')
  <2>1. OneActive'
    BY <1>t, <1>5 DEF HeartbeatWrite, workers, Sorts, WorkerSorts, OneActive
  <2>2. Unindexed'
    BY <1>t, <1>5 DEF HeartbeatWrite, redis, workers, scanners, ghosts, Sorts, WorkerSorts, OneActive, Unindexed
  <2>3. Marked' \/ Released'
    BY <1>t, <1>o, <1>5 DEF HeartbeatWrite, redis, workers, scanners, ghosts, Sorts, WorkerSorts, OneActive, Unindexed, Marked, Released, Claiming, Armed
  <2> QED BY <2>1, <2>2, <2>3
<1>6. ASSUME NEW w \in Workers, Finish(w) PROVE OneActive' /\ Unindexed' /\ (Marked' \/ Released')
  <2>1. OneActive'
    BY <1>t, <1>6 DEF Finish, workers, Sorts, WorkerSorts, OneActive
  <2>2. Unindexed'
    BY <1>t, <1>6 DEF Finish, redis, workers, scanners, ghosts, Sorts, WorkerSorts, OneActive, Unindexed
  <2>3. Marked' \/ Released'
    BY <1>t, <1>o, <1>6 DEF Finish, redis, workers, scanners, ghosts, Sorts, WorkerSorts, OneActive, Unindexed, Marked, Released, Claiming, Armed
  <2> QED BY <2>1, <2>2, <2>3
<1>7. ASSUME NEW w \in Workers, ReleaseRead(w) PROVE OneActive' /\ Unindexed' /\ (Marked' \/ Released')
  <2>1. OneActive'
    BY <1>t, <1>7 DEF ReleaseRead, WorkerDone, workers, Sorts, WorkerSorts, OneActive
  <2>2. Unindexed'
    BY <1>t, <1>7 DEF ReleaseRead, WorkerDone, redis, workers, scanners, ghosts, Sorts, WorkerSorts, OneActive, Unindexed
  <2>3. Marked' \/ Released'
    BY <1>t, <1>o, <1>7 DEF ReleaseRead, WorkerDone, redis, workers, scanners, ghosts, Sorts, WorkerSorts, OneActive, Unindexed, Marked, Released, Claiming, Armed
  <2> QED BY <2>1, <2>2, <2>3
<1>8. ASSUME NEW w \in Workers, ReleaseDelete(w) PROVE OneActive' /\ Unindexed' /\ (Marked' \/ Released')
  <2>1. OneActive'
    BY <1>t, <1>8 DEF ReleaseDelete, WorkerDone, workers, Sorts, WorkerSorts, OneActive
  <2>2. Unindexed'
    BY <1>t, <1>8 DEF ReleaseDelete, WorkerDone, redis, workers, scanners, ghosts, Sorts, WorkerSorts, OneActive, Unindexed
  <2>3. Marked' \/ Released'
    BY <1>t, <1>o, <1>8 DEF ReleaseDelete, WorkerDone, redis, workers, scanners, ghosts, Sorts, WorkerSorts, OneActive, Unindexed, Marked, Released, Claiming, Armed
  <2> QED BY <2>1, <2>2, <2>3
<1>9. ASSUME NEW w \in Workers, Crash(w) PROVE OneActive' /\ Unindexed' /\ (Marked' \/ Released')
  <2>1. OneActive'
    BY <1>t, <1>9 DEF Crash, WorkerDone, workers, Sorts, WorkerSorts, OneActive
  <2>2. Unindexed'
    BY <1>t, <1>9 DEF Crash, WorkerDone, redis, workers, scanners, ghosts, Sorts, WorkerSorts, OneActive, Unindexed
  <2>3. Marked' \/ Released'
    BY <1>t, <1>o, <1>9 DEF Crash, WorkerDone, redis, workers, scanners, ghosts, Sorts, WorkerSorts, OneActive, Unindexed, Marked, Released, Claiming, Armed
  <2> QED BY <2>1, <2>2, <2>3
<1>10. ASSUME NEW s \in Scanners, ScanRange(s) PROVE OneActive' /\ Unindexed' /\ (Marked' \/ Released')
  <2>1. OneActive'
    BY <1>10 DEF ScanRange, workers, OneActive
  <2>2. Unindexed'
    BY <1>t, <1>10 DEF ScanRange, redis, workers, scanners, ghosts, Sorts, ScannerSorts, Unindexed
  <2>3. Marked' \/ Released'
    BY <1>t, <1>n, <1>o, <1>10 DEF ScanRange, redis, workers, scanners, ghosts, Sorts, ScannerSorts, Numbered, Marked, Released, Claiming, Armed
  <2> QED BY <2>1, <2>2, <2>3
<1>11. ASSUME NEW s \in Scanners, ScanClaim(s) PROVE OneActive' /\ Unindexed' /\ (Marked' \/ Released')
  <2>1. OneActive'
    BY <1>11 DEF ScanClaim, workers, OneActive
  <2>2. Unindexed'
    BY <1>t, <1>11 DEF ScanClaim, redis, workers, scanners, ghosts, Sorts, ScannerSorts, Unindexed
  <2>3. Marked' \/ Released'
    BY <1>t, <1>n, <1>o, <1>11 DEF ScanClaim, ScanDone, redis, workers, scanners, ghosts, Sorts, ScannerSorts, Numbered, Marked, Released, Claiming, Armed
  <2> QED BY <2>1, <2>2, <2>3
<1>12. ASSUME NEW s \in Scanners, ScanFetch(s) PROVE OneActive' /\ Unindexed' /\ (Marked' \/ Released')
  <2>1. OneActive'
    BY <1>12 DEF ScanFetch, workers, OneActive
  <2>2. Unindexed'
    BY <1>t, <1>12 DEF ScanFetch, redis, workers, scanners, ghosts, Sorts, ScannerSorts, Unindexed
  <2>3. Marked' \/ Released'
    BY <1>t, <1>n, <1>o, <1>12 DEF ScanFetch, redis, workers, scanners, ghosts, Sorts, ScannerSorts, Numbered, Marked, Released, Claiming, Armed
  <2> QED BY <2>1, <2>2, <2>3
<1>13. ASSUME NEW s \in Scanners, ScanCleanup(s) PROVE OneActive' /\ Unindexed' /\ (Marked' \/ Released')
  <2>1. OneActive'
    BY <1>13 DEF ScanCleanup, workers, OneActive
  <2>2. Unindexed'
    BY <1>t, <1>13 DEF ScanCleanup, redis, workers, scanners, ghosts, Sorts, ScannerSorts, Unindexed
  <2>3. Marked' \/ Released'
    BY <1>t, <1>n, <1>o, <1>13 DEF ScanCleanup, ScanDone, redis, workers, scanners, ghosts, Sorts, ScannerSorts, Numbered, Marked, Released, Claiming, Armed
  <2> QED BY <2>1, <2>2, <2>3
<1>14. ASSUME NEW s \in Scanners, Publish(s) PROVE OneActive' /\ Unindexed' /\ (Marked' \/ Released')
  <2>1. OneActive'
    BY <1>14 DEF Publish, workers, OneActive
  <2>2. Unindexed'
    BY <1>t, <1>14 DEF Publish, redis, workers, scanners, ghosts, Sorts, ScannerSorts, Unindexed
  <2>3. Marked' \/ Released'
    BY <1>t, <1>n, <1>o, <1>14 DEF Publish, ScanDone, redis, workers, scanners, ghosts, Sorts, ScannerSorts, Numbered, Marked, Released, Claiming, Armed
  <2> QED BY <2>1, <2>2, <2>3
<1>15. ASSUME NEW s \in Scanners, PublishFails(s) PROVE OneActive' /\ Unindexed' /\ (Marked' \/ Released')
  <2>1. OneActive'
    BY <1>15 DEF PublishFails, workers, OneActive
  <2>2. Unindexed'
    BY <1>t, <1>15 DEF PublishFails, redis, workers, scanners, ghosts, Sorts, ScannerSorts, Unindexed
  <2>3. Marked' \/ Released'
    BY <1>t, <1>n, <1>o, <1>15 DEF PublishFails, redis, workers, scanners, ghosts, Sorts, ScannerSorts, Numbered, Marked, Released, Claiming, Armed
  <2> QED BY <2>1, <2>2, <2>3
<1>16. ASSUME NEW s \in Scanners, UnclaimRead(s) PROVE OneActive' /\ Unindexed' /\ (Marked' \/ Released')
  <2>1. OneActive'
    BY <1>16 DEF UnclaimRead, workers, OneActive
  <2>2. Unindexed'
    BY <1>t, <1>16 DEF UnclaimRead, redis, workers, scanners, ghosts, Sorts, ScannerSorts, Unindexed
  <2>3. Marked' \/ Released'
    BY <1>t, <1>n, <1>o, <1>16 DEF UnclaimRead, redis, workers, scanners, ghosts, Sorts, ScannerSorts, Numbered, Marked, Released, Claiming, Armed
  <2> QED BY <2>1, <2>2, <2>3
<1>17. ASSUME NEW s \in Scanners, UnclaimRestore(s) PROVE OneActive' /\ Unindexed' /\ (Marked' \/ Released')
  <2>1. OneActive'
    BY <1>17 DEF UnclaimRestore, workers, OneActive
  <2>2. Unindexed'
    BY <1>t, <1>17 DEF UnclaimRestore, redis, workers, scanners, ghosts, Sorts, ScannerSorts, Unindexed
  <2>3. Marked' \/ Released'
    BY <1>t, <1>n, <1>o, <1>17 DEF UnclaimRestore, ScanDone, redis, workers, scanners, ghosts, Sorts, ScannerSorts, Numbered, Marked, Released, Claiming, Armed
  <2> QED BY <2>1, <2>2, <2>3
<1>18. FirstLease' => OneActive' /\ Unindexed' /\ (Marked' \/ Released')
  BY DEF FirstLease
<1> QED
  BY <1>1, <1>2, <1>3, <1>4, <1>5, <1>6, <1>7, <1>8, <1>9, <1>10, <1>11, <1>12, <1>13, <1>14, <1>15, <1>16, <1>17, <1>18
     DEF Next, WorkerStep, ScanStep

(* The types and the first acquisition together are inductive.             *)
LEMMA NextStore == StoreInv /\ [Next]_vars => StoreInv'
<1> SUFFICES ASSUME StoreInv, [Next]_vars PROVE StoreInv'
  OBVIOUS
<1>1. Sorts /\ Numbered /\ claimed \in BOOLEAN
  BY DEF StoreInv, TypeOK, Sorts, StoreSorts, WorkerSorts, ScannerSorts, GhostSorts
<1>2. Sorts' /\ Numbered'
  BY <1>1, NextSorts
<1>3. claimed' \in BOOLEAN
  BY <1>1, NextMarker
<1>4. TypeOK'
  BY <1>2, <1>3 DEF TypeOK, Sorts, StoreSorts, WorkerSorts, ScannerSorts, GhostSorts
<1> QED BY <1>2, <1>4, NextFirst DEF StoreInv

(* The invariant says that one acquisition is published at most once.      *)
LEMMA PublishedOnce == StoreInv => TypeOK /\ ReportedOnce
<1> SUFFICES ASSUME StoreInv PROVE TypeOK /\ ReportedOnce
  OBVIOUS
<1> QED BY DEF StoreInv, FirstLease, Marked, Released, ReportedOnce

(* Every step leaves the lease with the one worker that is not idle.       *)
LEMMA NextHeld == Prompt /\ StoreInv /\ Held /\ [Next]_vars => Held'
<1> SUFFICES ASSUME Prompt, StoreInv, Held, [Next]_vars PROVE Held'
  OBVIOUS
<1>t. Sorts
  BY DEF StoreInv, TypeOK, Sorts, StoreSorts, WorkerSorts, ScannerSorts, GhostSorts
<1> USE Bounds
<1>1. ASSUME NEW w \in Workers, AcquireSet(w) PROVE Held'
  BY <1>t, <1>1 DEF AcquireSet, redis, workers, Sorts, StoreSorts, WorkerSorts, Lease, Held, OneActive
<1>2. ASSUME NEW w \in Workers, AcquireIndex(w) PROVE Held'
  BY <1>t, <1>2 DEF AcquireIndex, redis, workers, Sorts, StoreSorts, WorkerSorts, Lease, Held, OneActive
<1>3. ASSUME NEW w \in Workers, HeartbeatRead(w) PROVE Held'
  BY <1>t, <1>3 DEF HeartbeatRead, redis, workers, Sorts, StoreSorts, WorkerSorts, Lease, Held, OneActive
<1>4. ASSUME NEW w \in Workers, HeartbeatWrite(w) PROVE Held'
  BY <1>t, <1>4 DEF HeartbeatWrite, redis, workers, Sorts, StoreSorts, WorkerSorts, Lease, Held, OneActive
<1>5. ASSUME NEW w \in Workers, Finish(w) PROVE Held'
  BY <1>t, <1>5 DEF Finish, redis, workers, Sorts, StoreSorts, WorkerSorts, Lease, Held, OneActive
<1>6. ASSUME NEW w \in Workers, ReleaseRead(w) PROVE Held'
  BY <1>t, <1>6 DEF ReleaseRead, WorkerDone, redis, workers, Sorts, StoreSorts, WorkerSorts, Lease, Held, OneActive
<1>7. ASSUME NEW w \in Workers, ReleaseDelete(w) PROVE Held'
  BY <1>t, <1>7 DEF ReleaseDelete, WorkerDone, redis, workers, Sorts, StoreSorts, WorkerSorts, Lease, Held, OneActive
<1>8. ASSUME NEW w \in Workers, Crash(w) PROVE Held'
  BY <1>t, <1>8 DEF Crash, WorkerDone, redis, workers, Sorts, StoreSorts, WorkerSorts, Lease, Held, OneActive
<1>9. CASE Tick
  BY <1>t, <1>9 DEF Tick, Holds, workers, Sorts, StoreSorts, WorkerSorts, Held, OneActive
<1>10. CASE (\E s \in Scanners : ScanStep(s)) \/ UNCHANGED vars
  <2>1. UNCHANGED <<key, wpc, mine, hb>>
    BY <1>10 DEF ScanStep, ScanRange, ScanClaim, ScanFetch, ScanCleanup, Publish, PublishFails, UnclaimRead,
       UnclaimRestore, vars, redis, workers
  <2> QED BY <2>1 DEF Held, OneActive
<1> QED BY <1>1, <1>2, <1>3, <1>4, <1>5, <1>6, <1>7, <1>8, <1>9, <1>10 DEF Next, WorkerStep

(* Whatever workers, heartbeats and scanners do, however late the          *)
(* heartbeats are: as long as the id was acquired once, claim_expired and  *)
(* scan_once publish its expiry at most once, failed publications, crashes *)
(* and a release in the middle of a scan included.                         *)
THEOREM ExpiryPublishedOnce == Spec => [](TypeOK /\ ReportedOnce)
<1> QED BY InitStore, NextStore, PublishedOnce, PTL DEF Spec

(* With heartbeats that reach Redis in time the lease admits one worker at *)
(* a time, for any TTLs, owner ids (shared ones too), crashes and scanners,*)
(* and its expiry is published once.                                       *)
THEOREM LeaseIsSound == Prompt => (Spec => []LeaseSound)
<1> SUFFICES ASSUME Prompt PROVE Spec => []LeaseSound
  OBVIOUS
<1>1. StoreInv /\ Held => LeaseSound
  <2>1. Held => OneWorkerAtATime
    BY DEF Held, OneActive, OneWorkerAtATime
  <2> QED BY <2>1, PublishedOnce DEF LeaseSound
<1>2. StoreInv /\ Held /\ [Next]_vars => StoreInv' /\ Held'
  BY NextStore, NextHeld
<1> QED BY <1>1, <1>2, InitStore, PTL DEF Spec
=============================================================================
