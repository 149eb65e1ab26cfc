---------------------------- MODULE RuntimeProofs ----------------------------
(* Proofs about the parts of the runtime around the consumers: dead-letter *)
(* replay, the status hub and the streams of its clients, the aggregation  *)
(* workers, the observation forwarder, the lifespan of a FastAPI service,  *)
(* the pressure snapshot and the execution graph.  Each part has its       *)
(* inductive invariant, one lemma for Init, lemmas for the steps of Next,  *)
(* and the theorem.                                                        *)
EXTENDS StatusStream, DLQRecords, Aggregation, ObservationForwarder, Lifespan, Backpressure, ExecutionGraph,
        FiniteSetTheorems, SequenceTheorems, NaturalsInduction, WellFoundedInduction, TLAPS

------------------------------------------------------------------------------
(* DLQRecords: a dead letter is replayed once, and its record says so.     *)

(* Replays published and not yet marked in the record.                     *)
Underway == {o \in Operators : Unmarked(o)}

(* What a record may claim, given the replays under way, the replays and   *)
(* the manual retries published: a replay only if one is published, and    *)
(* with those under way no more than are published; a retry likewise.      *)
Honest(r, underway, sent, again) ==
    /\ r.state = "replayed" => sent > 0
    /\ r.replays + underway <= sent
    /\ r.retried => again > 0

(* A record, and every copy of one a request has read and may write back,  *)
(* is honest.                                                              *)
CopiesHonest ==
    /\ IsFiniteSet(Underway)
    /\ record # NoRecord => Honest(record, Cardinality(Underway), replays + forced, retries)
    /\ \A o \in Operators :
          /\ copy[o] # NoRecord => Honest(copy[o], Cardinality(Underway), replays + forced, retries)
          /\ opPc[o] \in {"markset", "repeat", "write"} => copy[o] # NoRecord
          /\ opPc[o] = "write" /\ opJob[o] = "retry" => retries > 0

(* Until a replay is disturbed the lock keeps others out of the critical   *)
(* section, and a published replay shows in the record or in its section.  *)
Exclusive ==
    ~disturbed =>
        /\ \A o \in Operators : opPc[o] \in Critical => lock
        /\ \A o, p \in Operators : opPc[o] \in Critical /\ opPc[p] \in Critical => o = p

(* While nothing disturbed a replay its publications and its record agree. *)
Undisturbed ==
    ~disturbed =>
        /\ replays <= 1
        /\ \A o \in Operators : opPc[o] = "publish" /\ opJob[o] # "force" => replays = 0
        /\ replays > 0 => record = NoRecord \/ record.state = "replayed" \/ \E o \in Operators : Unmarked(o)
        /\ record # NoRecord /\ (\A o \in Operators : ~Unmarked(o)) => record.replays = replays + forced
        /\ record # NoRecord /\ (\E o \in Operators : Unmarked(o)) => record.replays + 1 = replays + forced

(* Without a crash of the API the lock is held by a request in its         *)
(* section.                                                                *)
LockOwned == apiCrashes = 0 /\ lock => \E o \in Operators : opPc[o] \in Critical

(* The inductive invariant of DLQRecords.                                  *)
ReplayInv == DlqTypeOK /\ CopiesHonest /\ Exclusive /\ Undisturbed /\ LockOwned

(* The invariant holds before the first request.                           *)
LEMMA InitReplay == DlqInit => ReplayInv
<1> SUFFICES ASSUME DlqInit PROVE ReplayInv
  OBVIOUS
<1>1. DlqTypeOK
  <2>1. record \in Record
    BY DEF DlqInit, Record
  <2>2. disturbed \in BOOLEAN /\ indexed \in BOOLEAN /\ lock \in BOOLEAN
    BY DEF DlqInit
  <2> QED BY DLQAssumption, <2>1, <2>2 DEF DlqInit, DlqTypeOK
<1>2. Underway = {}
  BY DEF DlqInit, Underway, Unmarked
<1>3. CopiesHonest
  BY <1>2, FS_EmptySet DEF DlqInit, CopiesHonest, Honest
<1>4. Exclusive /\ Undisturbed /\ LockOwned
  BY DEF DlqInit, Exclusive, Undisturbed, LockOwned, Critical, Unmarked
<1> QED BY <1>1, <1>3, <1>4 DEF ReplayInv

(* Every step of a request, a manual retry or a crash keeps the types.     *)
LEMMA NextDlqType == ReplayInv /\ [DlqNext]_dlqVars => DlqTypeOK'
<1> SUFFICES ASSUME ReplayInv, [DlqNext]_dlqVars PROVE DlqTypeOK'
  OBVIOUS
<1> USE DLQAssumption DEF ReplayInv, DlqTypeOK, Critical, GoOn, dlqKeys, published, dlqCounts
<1>1. CASE LockExpires
  BY <1>1 DEF LockExpires
<1>2. ASSUME NEW o \in Operators, NEW kind \in Requests, Lock(o, kind) \/ Read(o, kind)
      PROVE DlqTypeOK'
  <2>1. CASE Lock(o, kind)
    BY <2>1 DEF Lock
  <2>2. CASE Read(o, kind)
    BY <2>2 DEF Read
  <2> QED BY <1>2, <2>1, <2>2
<1>3. ASSUME NEW o \in Operators, Delete(o) PROVE DlqTypeOK'
  BY <1>3 DEF Delete
<1>4. ASSUME NEW o \in Operators, Claim(o) \/ PublishReplay(o) \/ MarkGet(o)
      PROVE DlqTypeOK'
  BY <1>4 DEF Claim, PublishReplay, MarkGet
<1>5. ASSUME NEW o \in Operators, MarkSet(o) PROVE DlqTypeOK'
  <2>1. copy[o] \in Record
    BY <1>5 DEF MarkSet, CopiesHonest
  <2>2. copy[o].replays + 1 \in Nat
    BY <2>1 DEF Record
  <2>3. record' = [copy[o] EXCEPT !.state = "replayed", !.replays = copy[o].replays + 1]
    BY <1>5 DEF MarkSet
  <2>4. record' \in Record
    BY <2>1, <2>2, <2>3 DEF Record
  <2>5. disturbed' \in BOOLEAN
    BY <1>5, Zenon DEF MarkSet
  <2> QED BY <1>5, <2>4, <2>5 DEF MarkSet
<1>6. ASSUME NEW o \in Operators, Write(o) PROVE DlqTypeOK'
  <2>1. copy[o] \in Record
    BY <1>6 DEF Write, CopiesHonest
  <2> QED BY <1>6, <2>1 DEF Write, Record
<1>7. ASSUME NEW o \in Operators, UnlockReplay(o) \/ PublishManualRetry(o) \/ Index(o) \/ Unindex(o)
      PROVE DlqTypeOK'
  <2>1. CASE UnlockReplay(o)
    BY <2>1 DEF UnlockReplay, End
  <2>2. CASE PublishManualRetry(o)
    BY <2>2 DEF PublishManualRetry
  <2>3. CASE Index(o) \/ Unindex(o)
    BY <2>3 DEF Index, Unindex, End
  <2> QED BY <1>7, <2>1, <2>2, <2>3
<1>8. ASSUME NEW o \in Operators, Failure(o) \/ ApiCrash(o) PROVE DlqTypeOK'
  <2>1. disturbed' \in BOOLEAN
    BY <1>8, Zenon DEF Failure, ApiCrash
  <2>2. CASE Failure(o)
    BY <2>1, <2>2 DEF Failure, End
  <2>3. CASE ApiCrash(o)
    BY <2>1, <2>3 DEF ApiCrash, End
  <2> QED BY <1>8, <2>2, <2>3
<1>9. CASE UNCHANGED dlqVars
  BY <1>9 DEF dlqVars
<1> QED BY <1>1, <1>2, <1>3, <1>4, <1>5, <1>6, <1>7, <1>8, <1>9 DEF DlqNext, RequestProgress

(* What a record may claim stays true as long as the publications keep     *)
(* pace with the replays under way.                                        *)
LEMMA HonestKept ==
    ASSUME NEW r \in Record,
           NEW u \in Nat, NEW s \in Nat, NEW a \in Nat, Honest(r, u, s, a),
           NEW v \in Nat, NEW t \in Nat, NEW b \in Nat,
           s <= t, v + s <= u + t, a <= b
    PROVE  Honest(r, v, t, b)
BY DEF Honest, Record

(* No step leaves a record that claims more than was published.            *)
LEMMA NextCopiesHonest == ReplayInv /\ [DlqNext]_dlqVars => CopiesHonest'
<1> SUFFICES ASSUME ReplayInv, [DlqNext]_dlqVars PROVE CopiesHonest'
  OBVIOUS
<1>0. DlqTypeOK /\ DlqTypeOK'
  BY NextDlqType DEF ReplayInv
<1>n. replays \in Nat /\ forced \in Nat /\ retries \in Nat /\ replays + forced \in Nat
  <2>1. replays \in Nat /\ forced \in Nat /\ retries \in Nat
    BY <1>0 DEF DlqTypeOK
  <2> QED BY <2>1
<1>m. replays' + forced' \in Nat /\ retries' \in Nat
  <2>1. \A x, y \in Nat : x + y \in Nat
    OBVIOUS
  <2>2. replays' \in Nat /\ forced' \in Nat /\ retries' \in Nat
    BY <1>0 DEF DlqTypeOK
  <2> QED BY <2>1, <2>2, Zenon
<1>r. /\ record \in Record \cup {NoRecord} 
      /\ copy \in [Operators -> Record \cup {NoRecord}]
      /\ opPc \in [Operators -> {"idle", "repeat", "write", "index", "unindex"} \cup Critical]
      /\ opJob \in [Operators -> Requests \cup {"none"}]
  BY <1>0 DEF DlqTypeOK
<1>u. IsFiniteSet(Underway) /\ Cardinality(Underway) \in Nat
  BY FS_CardinalityType DEF CopiesHonest, ReplayInv
<1> DEFINE H(r) == Honest(r, Cardinality(Underway), replays + forced, retries)
           K(r) == Honest(r, Cardinality(Underway'), replays' + forced', retries')
           Claims == /\ record' # NoRecord => K(record')
                     /\ \A p \in Operators : copy'[p] # NoRecord => K(copy'[p])
           Copied == \A p \in Operators :
                        /\ opPc'[p] \in {"markset", "repeat", "write"} => copy'[p] # NoRecord
                        /\ opPc'[p] = "write" /\ opJob'[p] = "retry" => retries' > 0
<1>s. SUFFICES IsFiniteSet(Underway') /\ Claims /\ Copied
  BY DEF CopiesHonest
<1>c. /\ record # NoRecord => record \in Record /\ H(record)
      /\ \A p \in Operators : copy[p] # NoRecord => copy[p] \in Record /\ H(copy[p])
  BY <1>r DEF CopiesHonest, ReplayInv
<1>d. \A p \in Operators :
          /\ opPc[p] \in {"markset", "repeat", "write"} => copy[p] # NoRecord
          /\ opPc[p] = "write" /\ opJob[p] = "retry" => retries > 0
  BY DEF CopiesHonest, ReplayInv
<1> HIDE DEF H, K
<1>k. ASSUME IsFiniteSet(Underway'),
             replays + forced <= replays' + forced',
             Cardinality(Underway') + (replays + forced) <= Cardinality(Underway) + (replays' + forced'),
             retries <= retries'
      PROVE  \A r \in Record : H(r) => K(r)
  <2>1. Cardinality(Underway') \in Nat
    BY <1>k, FS_CardinalityType
  <2> QED BY <1>k, <1>u, <1>n, <1>m, <2>1, HonestKept, Zenon DEF H, K
<1> USE DEF GoOn, dlqKeys, published, dlqCounts
(* Steps that neither publish nor enter or leave the marking steps.        *)
<1>q. ASSUME Underway' = Underway, UNCHANGED <<replays, forced>>, retries <= retries'
      PROVE  IsFiniteSet(Underway') /\ \A r \in Record : H(r) => K(r)
  BY <1>q, <1>u, <1>k, <1>n
(* Steps that leave the marking steps without publishing.                  *)
<1>l. ASSUME NEW o \in Operators, Underway' = Underway \ {o}, UNCHANGED published
      PROVE  IsFiniteSet(Underway') /\ \A r \in Record : H(r) => K(r)
  <2>1. IsFiniteSet(Underway') /\ Cardinality(Underway') <= Cardinality(Underway) /\ Cardinality(Underway') \in Nat
    <3>1. CASE o \in Underway
      <4>1. IsFiniteSet(Underway \ {o}) /\ Cardinality(Underway \ {o}) = Cardinality(Underway) - 1
        BY <1>u, <3>1, FS_RemoveElement
      <4>2. Cardinality(Underway \ {o}) \in Nat
        BY <4>1, FS_CardinalityType
      <4> QED BY <1>l, <1>u, <4>1, <4>2
    <3>2. CASE o \notin Underway
      <4>1. Underway' = Underway
        BY <1>l, <3>2
      <4> QED BY <1>u, <4>1
    <3> QED BY <3>1, <3>2
  <2> QED BY <1>l, <1>n, <1>u, <1>k, <2>1
<1>1. CASE UNCHANGED <<opPc, opJob, record, copy, published>>
  <2>1. Underway' = Underway
    BY <1>1 DEF Underway, Unmarked
  <2> QED BY <1>1, <1>c, <1>d, <1>q, <1>n, <2>1
<1>2. ASSUME NEW o \in Operators, NEW kind \in Requests, Lock(o, kind) \/ Read(o, kind)
      PROVE  IsFiniteSet(Underway') /\ Claims /\ Copied
  <2>1. Underway' = Underway
    BY <1>2, <1>r DEF Underway, Unmarked, Lock, Read
  <2>2. IsFiniteSet(Underway') /\ \A r \in Record : H(r) => K(r)
    BY <1>2, <1>n, <1>q, <2>1 DEF Lock, Read
  <2> QED BY <1>2, <1>c, <1>d, <1>r, <2>2 DEF Lock, Read
<1>3. ASSUME NEW o \in Operators, Delete(o)
      PROVE  IsFiniteSet(Underway') /\ Claims /\ Copied
  <2>1. Underway' = Underway
    BY <1>3, <1>r DEF Underway, Unmarked, Delete
  <2>2. IsFiniteSet(Underway') /\ \A r \in Record : H(r) => K(r)
    BY <1>3, <1>n, <1>q, <2>1 DEF Delete
  <2> QED BY <1>3, <1>c, <1>d, <1>r, <2>2 DEF Delete
<1>4. ASSUME NEW o \in Operators, Claim(o)
      PROVE  IsFiniteSet(Underway') /\ Claims /\ Copied
  <2>1. Underway' = Underway
    BY <1>4, <1>r DEF Underway, Unmarked, Claim
  <2>2. IsFiniteSet(Underway') /\ \A r \in Record : H(r) => K(r)
    BY <1>4, <1>n, <1>q, <2>1 DEF Claim
  <2> QED BY <1>4, <1>c, <1>d, <1>r, <2>2 DEF Claim
<1>5. ASSUME NEW o \in Operators, PublishReplay(o)
      PROVE  IsFiniteSet(Underway') /\ Claims /\ Copied
  <2>1. Underway' = Underway \cup {o} /\ o \notin Underway
    BY <1>5, <1>r DEF Underway, Unmarked, PublishReplay
  <2>2. IsFiniteSet(Underway') /\ Cardinality(Underway') = Cardinality(Underway) + 1
    BY <1>u, <2>1, FS_AddElement
  <2>3. replays' + forced' = replays + forced + 1 /\ retries' = retries
    <3>1. CASE opJob[o] = "force"
      BY <1>5, <1>n, <3>1 DEF PublishReplay
    <3>2. CASE opJob[o] # "force"
      BY <1>5, <1>n, <3>2 DEF PublishReplay
    <3> QED BY <3>1, <3>2
  <2>4. \A r \in Record : H(r) => K(r)
    <3>1. Cardinality(Underway') + (replays + forced) <= Cardinality(Underway) + (replays' + forced')
      BY <1>n, <1>u, <2>2, <2>3
    <3>2. replays + forced <= replays' + forced' /\ retries <= retries'
      BY <1>n, <2>3
    <3> QED BY <1>k, <2>2, <3>1, <3>2
  <2> QED BY <1>5, <1>c, <1>d, <1>r, <2>2, <2>4 DEF PublishReplay
<1>6. ASSUME NEW o \in Operators, MarkGet(o)
      PROVE  IsFiniteSet(Underway') /\ Claims /\ Copied
  <2>1. Underway' = Underway \/ Underway' = Underway \ {o}
    BY <1>6, <1>r DEF Underway, Unmarked, MarkGet
  <2>2. UNCHANGED published /\ retries <= retries'
    BY <1>6, <1>n DEF MarkGet
  <2>3. IsFiniteSet(Underway') /\ \A r \in Record : H(r) => K(r)
    BY <1>q, <1>l, <2>1, <2>2
  <2> QED BY <1>6, <1>c, <1>d, <1>r, <2>3 DEF MarkGet
<1>7. ASSUME NEW o \in Operators, MarkSet(o)
      PROVE  IsFiniteSet(Underway') /\ Claims /\ Copied
  <2>1. Underway' = Underway \ {o} /\ o \in Underway
    BY <1>7, <1>r DEF Underway, Unmarked, MarkSet
  <2>2. IsFiniteSet(Underway') /\ Cardinality(Underway') = Cardinality(Underway) - 1
    BY <1>u, <2>1, FS_RemoveElement
  <2>3. \A r \in Record : H(r) => K(r)
    BY <1>7, <1>l, <2>1 DEF MarkSet
  <2>4. copy[o] \in Record /\ H(copy[o])
    BY <1>7, <1>c, <1>d DEF MarkSet
  <2>5. /\ record'.replays = copy[o].replays + 1
        /\ record'.retried = copy[o].retried
        /\ copy[o].replays \in Nat
    BY <1>7, <2>4 DEF MarkSet, Record
  <2>6. copy[o].replays + Cardinality(Underway) <= replays + forced /\ (copy[o].retried => retries > 0)
    BY <2>4 DEF H, Honest
  <2>7. UNCHANGED published
    BY <1>7 DEF MarkSet
  <2>8. 1 <= Cardinality(Underway)
    BY <1>u, <2>1, <2>2, FS_CardinalityType
  <2>9. K(record')
    BY <1>n, <1>u, <2>2, <2>5, <2>6, <2>7, <2>8 DEF K, Honest
  <2> QED BY <1>7, <1>c, <1>d, <1>r, <2>2, <2>3, <2>9 DEF MarkSet
<1>8. ASSUME NEW o \in Operators, PublishManualRetry(o)
      PROVE  IsFiniteSet(Underway') /\ Claims /\ Copied
  <2>1. Underway' = Underway
    BY <1>8, <1>r DEF Underway, Unmarked, PublishManualRetry
  <2>2. IsFiniteSet(Underway') /\ \A r \in Record : H(r) => K(r)
    BY <1>8, <1>n, <1>q, <2>1 DEF PublishManualRetry
  <2>3. retries' > 0
    BY <1>8, <1>n DEF PublishManualRetry
  <2> QED BY <1>8, <1>c, <1>d, <1>r, <2>2, <2>3 DEF PublishManualRetry
<1>9. ASSUME NEW o \in Operators, Write(o)
      PROVE  IsFiniteSet(Underway') /\ Claims /\ Copied
  <2>1. Underway' = Underway
    BY <1>9, <1>r DEF Underway, Unmarked, Write
  <2>2. IsFiniteSet(Underway') /\ \A r \in Record : H(r) => K(r)
    BY <1>9, <1>n, <1>q, <2>1 DEF Write
  <2>4. copy[o] \in Record /\ K(copy[o])
    BY <1>9, <1>c, <1>d, <2>2 DEF Write
  <2>5. /\ record'.replays = copy[o].replays
        /\ record'.state = copy[o].state
        /\ record'.retried => copy[o].retried \/ opJob[o] = "retry"
    BY <1>9, <2>4 DEF Write, Record
  <2>6. K(record')
    BY <1>9, <1>d, <2>4, <2>5 DEF K, Honest, Write
  <2> QED BY <1>9, <1>c, <1>d, <1>r, <2>2, <2>6 DEF Write
<1>10. ASSUME NEW o \in Operators, UnlockReplay(o) \/ Index(o) \/ Unindex(o)
      PROVE  IsFiniteSet(Underway') /\ Claims /\ Copied
  <2>1. Underway' = Underway
    BY <1>10, <1>r DEF Underway, Unmarked, UnlockReplay, Index, Unindex, End
  <2>2. IsFiniteSet(Underway') /\ \A r \in Record : H(r) => K(r)
    BY <1>10, <1>n, <1>q, <2>1 DEF UnlockReplay, Index, Unindex
  <2> QED BY <1>10, <1>c, <1>d, <1>r, <2>2 DEF UnlockReplay, Index, Unindex, End
<1>11. ASSUME NEW o \in Operators, Failure(o) \/ ApiCrash(o)
      PROVE  IsFiniteSet(Underway') /\ Claims /\ Copied
  <2>1. Underway' = Underway \ {o}
    BY <1>11, <1>r DEF Underway, Unmarked, Failure, ApiCrash, End
  <2>2. IsFiniteSet(Underway') /\ \A r \in Record : H(r) => K(r)
    BY <1>11, <1>l, <2>1 DEF Failure, ApiCrash
  <2>3. Claims
    BY <1>11, <1>c, <1>r, <2>2 DEF Failure, ApiCrash, End
  <2>4. Copied
    BY <1>11, <1>d, <1>r DEF Failure, ApiCrash, End
  <2> QED BY <2>2, <2>3, <2>4
<1>12. CASE LockExpires
  BY <1>12, <1>1 DEF LockExpires
<1>13. CASE UNCHANGED dlqVars
  BY <1>13, <1>1 DEF dlqVars
<1> QED BY <1>2, <1>3, <1>4, <1>5, <1>6, <1>7, <1>8, <1>9, <1>10, <1>11, <1>12, <1>13 DEF DlqNext, RequestProgress

(* Until it is disturbed the lock admits one replay at a time.             *)
LEMMA NextExclusive == ReplayInv /\ [DlqNext]_dlqVars => Exclusive' /\ LockOwned'
<1> SUFFICES ASSUME ReplayInv, [DlqNext]_dlqVars PROVE Exclusive' /\ LockOwned'
  OBVIOUS
<1>1. /\ opPc \in [Operators -> {"idle", "repeat", "write", "index", "unindex"} \cup Critical]
      /\ disturbed \in BOOLEAN /\ lock \in BOOLEAN /\ apiCrashes \in Nat
  BY DLQAssumption DEF ReplayInv, DlqTypeOK
<1>2. Exclusive /\ LockOwned
  BY DEF ReplayInv
<1> USE <1>1, <1>2 DEF Exclusive, LockOwned, Critical, GoOn, End, dlqKeys, published, dlqCounts
<1>3. CASE LockExpires
  BY <1>3 DEF LockExpires
<1>4. ASSUME NEW o \in Operators, NEW kind \in Requests, Lock(o, kind)
      PROVE  Exclusive' /\ LockOwned'
  BY <1>4 DEF Lock
<1>5. ASSUME NEW o \in Operators, NEW kind \in Requests, Read(o, kind)
      PROVE  Exclusive' /\ LockOwned'
  BY <1>5 DEF Read
<1>6. ASSUME NEW o \in Operators, Delete(o) \/ PublishManualRetry(o) \/ Index(o) \/ Unindex(o)
      PROVE  Exclusive' /\ LockOwned'
  BY <1>6 DEF Delete, PublishManualRetry, Index, Unindex
<1>7. ASSUME NEW o \in Operators, Claim(o) \/ PublishReplay(o) \/ MarkGet(o)
      PROVE  Exclusive' /\ LockOwned'
  BY <1>7 DEF Claim, PublishReplay, MarkGet
<1>8. ASSUME NEW o \in Operators, MarkSet(o)
      PROVE  Exclusive' /\ LockOwned'
  <2>1. disturbed => disturbed'
    BY <1>8 DEF MarkSet
  <2> QED BY <1>8, <2>1 DEF MarkSet
<1>9. ASSUME NEW o \in Operators, Write(o)
      PROVE  Exclusive' /\ LockOwned'
  <2>1. disturbed => disturbed'
    BY <1>9 DEF Write
  <2> QED BY <1>9, <2>1 DEF Write
<1>10. ASSUME NEW o \in Operators, UnlockReplay(o)
      PROVE  Exclusive' /\ LockOwned'
  BY <1>10 DEF UnlockReplay
<1>11. ASSUME NEW o \in Operators, Failure(o)
      PROVE  Exclusive' /\ LockOwned'
  <2>1. disturbed => disturbed'
    BY <1>11 DEF Failure
  <2>2. UNCHANGED <<lock, apiCrashes>>
    BY <1>11 DEF Failure
  <2>3. \A p \in Operators : opPc'[p] \in Critical <=> opPc[p] \in Critical
    BY <1>11 DEF Failure
  <2> QED BY <2>1, <2>2, <2>3
<1>12. ASSUME NEW o \in Operators, ApiCrash(o)
      PROVE  Exclusive' /\ LockOwned'
  <2>1. disturbed => disturbed'
    BY <1>12 DEF ApiCrash
  <2>2. lock' = lock /\ apiCrashes' # 0
    BY <1>12 DEF ApiCrash
  <2>3. \A p \in Operators : opPc'[p] \in Critical => opPc[p] \in Critical
    BY <1>12 DEF ApiCrash
  <2> QED BY <2>1, <2>2, <2>3
<1>13. CASE UNCHANGED dlqVars
  BY <1>13 DEF dlqVars
<1> QED BY <1>3, <1>4, <1>5, <1>6, <1>7, <1>8, <1>9, <1>10, <1>11, <1>12, <1>13 DEF DlqNext, RequestProgress

(* Until it is disturbed the record accounts for every replay.             *)
LEMMA NextUndisturbed == ReplayInv /\ [DlqNext]_dlqVars => Undisturbed'
<1> SUFFICES ASSUME ReplayInv, [DlqNext]_dlqVars, ~disturbed' PROVE Undisturbed'
  BY DEF Undisturbed
<1>1. /\ opPc \in [Operators -> {"idle", "repeat", "write", "index", "unindex"} \cup Critical]
      /\ opJob \in [Operators -> Requests \cup {"none"}]
      /\ copy \in [Operators -> Record \cup {NoRecord}]
      /\ record \in Record \cup {NoRecord}
      /\ replays \in Nat /\ forced \in Nat
  BY DEF ReplayInv, DlqTypeOK
<1>2. ~disturbed
  <2>1. CASE DlqNext
    BY <2>1 DEF DlqNext, LockExpires, Lock, Read, Delete, RequestProgress, Claim, PublishReplay, MarkGet,
       MarkSet, UnlockReplay, PublishManualRetry, Write, Index, Unindex, Failure, ApiCrash
  <2>2. CASE UNCHANGED dlqVars
    BY <2>2 DEF dlqVars
  <2> QED BY <2>1, <2>2
<1>3. /\ \A o \in Operators : opPc[o] \in Critical => lock
      /\ \A o, p \in Operators : opPc[o] \in Critical /\ opPc[p] \in Critical => o = p
  BY <1>2 DEF ReplayInv, Exclusive
<1>4. /\ replays <= 1
      /\ \A o \in Operators : opPc[o] = "publish" /\ opJob[o] # "force" => replays = 0
      /\ replays > 0 => record = NoRecord \/ record.state = "replayed" \/ \E o \in Operators : Unmarked(o)
      /\ record # NoRecord /\ (\A o \in Operators : ~Unmarked(o)) => record.replays = replays + forced
      /\ record # NoRecord /\ (\E o \in Operators : Unmarked(o)) => record.replays + 1 = replays + forced
  BY <1>2 DEF ReplayInv, Undisturbed
<1> USE <1>1, <1>3, <1>4 DEF Undisturbed, Unmarked, Critical, GoOn, dlqKeys, published, dlqCounts
<1>5. CASE LockExpires
  BY <1>5 DEF LockExpires
<1>6. ASSUME NEW o \in Operators, NEW kind \in Requests, Lock(o, kind)
      PROVE  Undisturbed'
  BY <1>6 DEF Lock
<1>7. ASSUME NEW o \in Operators, NEW kind \in Requests, Read(o, kind)
      PROVE  Undisturbed'
  BY <1>7 DEF Read
<1>8. ASSUME NEW o \in Operators, Delete(o)
      PROVE  Undisturbed'
  BY <1>8 DEF Delete
<1>9. ASSUME NEW o \in Operators, PublishManualRetry(o)
      PROVE  Undisturbed'
  BY <1>9 DEF PublishManualRetry
<1>10. ASSUME NEW o \in Operators, Claim(o)
      PROVE  Undisturbed'
  BY <1>10 DEF Claim
<1>11. ASSUME NEW o \in Operators, PublishReplay(o)
      PROVE  Undisturbed'
  BY <1>11 DEF PublishReplay
<1>12. ASSUME NEW o \in Operators, MarkGet(o)
      PROVE  Undisturbed'
  BY <1>12 DEF MarkGet
<1>13. ASSUME NEW o \in Operators, MarkSet(o)
      PROVE  Undisturbed'
  <2>1. copy[o] = record /\ record \in Record
    BY <1>13 DEF MarkSet, ReplayInv, CopiesHonest
  <2>2. /\ record' # NoRecord => record'.state = "replayed"
        /\ record'.replays = record.replays + 1
    BY <1>13, <2>1 DEF MarkSet, Record
  <2>3. \A p \in Operators : ~Unmarked(p)'
    BY <1>13 DEF MarkSet
  <2>4. record.replays + 1 = replays + forced
    BY <1>13, <2>1, NoRecordAssumption DEF MarkSet
  <2>5. \A p \in Operators : opPc'[p] # "publish"
    BY <1>13 DEF MarkSet
  <2> QED BY <1>13, <2>2, <2>3, <2>4, <2>5 DEF MarkSet
<1>14. ASSUME NEW o \in Operators, Write(o)
      PROVE  Undisturbed'
  <2>1. copy[o] = record /\ record \in Record
    BY <1>14 DEF Write, ReplayInv, CopiesHonest
  <2>2. record'.state = record.state /\ record'.replays = record.replays
    BY <1>14, <2>1 DEF Write, Record
  <2>3. record # NoRecord
    BY <2>1, NoRecordAssumption
  <2>4. \A p \in Operators : (opPc'[p] \in {"markget", "markset"} <=> opPc[p] \in {"markget", "markset"})
                          /\ (opPc'[p] = "publish" <=> opPc[p] = "publish")
    BY <1>14 DEF Write
  <2>5. UNCHANGED <<opJob, replays, forced>>
    BY <1>14 DEF Write
  <2> QED BY <2>2, <2>3, <2>4, <2>5
<1>15. ASSUME NEW o \in Operators, UnlockReplay(o) \/ Index(o) \/ Unindex(o)
      PROVE  Undisturbed'
  BY <1>15 DEF UnlockReplay, Index, Unindex, End
<1>16. ASSUME NEW o \in Operators, Failure(o) \/ ApiCrash(o)
      PROVE  Undisturbed'
  BY <1>16 DEF Failure, ApiCrash, End
<1>17. CASE UNCHANGED dlqVars
  BY <1>17 DEF dlqVars
<1> QED BY <1>5, <1>6, <1>7, <1>8, <1>9, <1>10, <1>11, <1>12, <1>13, <1>14, <1>15, <1>16, <1>17 DEF DlqNext, RequestProgress

(* Whatever requests run together and whatever fails: a dead letter is     *)
(* replayed once unless its lock or its mark was lost, its record neither  *)
(* claims nor forgets a replay, and the lock outlives no request.          *)
THEOREM ReplaysSound == DlqSpec => []ReplaySound
<1>1. ReplayInv /\ [DlqNext]_dlqVars => ReplayInv'
  BY NextDlqType, NextCopiesHonest, NextExclusive, NextUndisturbed DEF ReplayInv
<1>2. ReplayInv => ReplaySound
  <2> SUFFICES ASSUME ReplayInv PROVE ReplaySound
    OBVIOUS
  <2>1. DlqTypeOK /\ ReplayedOnce /\ CountsReplays
    BY DEF ReplayInv, Undisturbed, ReplayedOnce, CountsReplays
  <2>2. MarkedIsPublished
    <3>1. CASE record # NoRecord
      <4>1. Cardinality(Underway) \in Nat
        BY FS_CardinalityType DEF ReplayInv, CopiesHonest
      <4>2. Honest(record, Cardinality(Underway), replays + forced, retries) /\ record.replays \in Nat
        BY <3>1 DEF ReplayInv, CopiesHonest, DlqTypeOK, Record
      <4>3. replays \in Nat /\ forced \in Nat
        BY DEF ReplayInv, DlqTypeOK
      <4> QED BY <3>1, <4>1, <4>2, <4>3 DEF MarkedIsPublished, Honest
    <3> QED BY <3>1 DEF MarkedIsPublished
  <2>3. LockFreed
    BY DEF ReplayInv, LockOwned, LockFreed, Critical
  <2> QED BY <2>1, <2>2, <2>3 DEF ReplaySound
<1> QED BY InitReplay, <1>1, <1>2, PTL DEF DlqSpec

-----------------------------------------------------------------------------
(* StatusHub: a status event is announced before it is acked, and stored   *)
(* once.                                                                   *)

(* The event is related in the graph and on the channel.                   *)
Announced(e) == e \in related /\ \E i \in 1 .. Len(channel) : channel[i] = e

(* What the state variables of StatusHub hold.                             *)
HubTypes ==
    /\ queue \subseteq Events
    /\ pc \in [Handlers -> Steps]
    /\ ev \in [Handlers -> Events \cup {NoEvent}]
    /\ marker \in [Events -> {"absent", "pending", "complete"}]
    /\ related \subseteq Events
    /\ channel \in Seq(Events)
    /\ pushes \in [Events -> Nat]
    /\ produced \in 0 .. N

(* A busy handler has an event, and has done for it what its step implies; *)
(* a complete marker stands for an event that was announced.               *)
Announcing ==
    /\ \A h \in Handlers :
          /\ pc[h] # "idle" => ev[h] \in Events
          /\ pc[h] \in {"publish", "complete"} => ev[h] \in related
          /\ pc[h] = "complete" => Announced(ev[h])
          /\ pc[h] = "ack" => ev[h] \in Unusable \/ Announced(ev[h])
    /\ \A e \in Events : marker[e] = "complete" => Announced(e)
    /\ AckedIsAnnounced

(* While no push has failed a stored event keeps its marker, and the only  *)
(* handler that may store one has set the marker itself.                   *)
Storing ==
    "push" \notin failed =>
        /\ \A h \in Handlers :
              /\ pc[h] # "undo"
              /\ pc[h] = "push" => pushes[ev[h]] = 0 /\ marker[ev[h]] # "absent"
        /\ \A g, h \in Handlers : pc[g] = "push" /\ pc[h] = "push" /\ ev[g] = ev[h] => g = h
        /\ \A e \in Events : pushes[e] <= 1 /\ (pushes[e] > 0 => marker[e] # "absent")

(* The inductive invariant of StatusHub.                                   *)
HubInv == HubTypes /\ Announcing /\ Storing

(* The invariant holds before the first delivery.                          *)
LEMMA InitHub == HubInit => HubInv
BY HubAssumption DEF HubInit, HubInv, HubTypes, Announcing, Storing, AckedIsAnnounced, Steps, Events

(* Every step of a handler, a crash or a lost channel keeps the types.     *)
LEMMA NextHubTypes == HubInv /\ [HubNext]_hubVars => HubTypes'
<1> SUFFICES ASSUME HubInv, [HubNext]_hubVars PROVE HubTypes'
  OBVIOUS
<1>1. HubTypes /\ \A h \in Handlers : pc[h] # "idle" => ev[h] \in Events
  BY DEF HubInv, Announcing
<1> USE <1>1 DEF HubTypes, Steps, Goto, Leave, Unlock, Free, control, redis, counts
<1>2. CASE Produce
  BY <1>2, HubAssumption DEF Produce, Events
<1>3. ASSUME NEW h \in Handlers, Deliver(h) PROVE HubTypes'
  BY <1>3 DEF Deliver
<1>4. ASSUME NEW h \in Handlers, Mark(h) \/ MarkFails(h) \/ Complete(h) \/ Undo(h) PROVE HubTypes'
  <2>1. CASE Mark(h)
    BY <2>1 DEF Mark
  <2>2. CASE MarkFails(h)
    BY <2>2 DEF MarkFails
  <2>3. CASE Complete(h)
    BY <2>3 DEF Complete
  <2>4. CASE Undo(h)
    BY <2>4 DEF Undo
  <2> QED BY <1>4, <2>1, <2>2, <2>3, <2>4
<1>5. ASSUME NEW h \in Handlers, Check(h) \/ CallFails(h) \/ Relate(h) \/ Publish(h) PROVE HubTypes'
  <2>1. CASE Check(h) \/ CallFails(h)
    BY <2>1 DEF Check, CallFails
  <2>2. CASE Relate(h)
    BY <2>2 DEF Relate
  <2>3. CASE Publish(h)
    BY <2>3 DEF Publish
  <2> QED BY <1>5, <2>1, <2>2, <2>3
<1>6. ASSUME NEW h \in Handlers, Push(h) \/ PushFails(h) PROVE HubTypes'
  <2>1. CASE Push(h)
    BY <2>1 DEF Push, Pushed
  <2>2. CASE PushFails(h)
    <3>1. pushes' \in [Events -> Nat]
      <4>1. CASE Pushed(ev[h])
        BY <2>2, <4>1 DEF PushFails, Pushed
      <4>2. CASE UNCHANGED <<history, pushes>>
        BY <4>2
      <4> QED BY <2>2, <4>1, <4>2 DEF PushFails
    <3> QED BY <2>2, <3>1 DEF PushFails
  <2> QED BY <1>6, <2>1, <2>2
<1>7. ASSUME NEW h \in Handlers, Ack(h) \/ Reject(h) PROVE HubTypes'
  BY <1>7 DEF Ack, Reject
<1>8. ASSUME NEW b \in Hubs, Crash(b) PROVE HubTypes'
  <2>1. Unsettled(b) \subseteq Events
    BY DEF Unsettled
  <2> QED BY <1>8, <2>1 DEF Crash
<1>9. ASSUME NEW b \in Hubs, LoseChannel(b) PROVE HubTypes'
  <2>1. Unsettled(b) \subseteq Events
    BY DEF Unsettled
  <2> QED BY <1>9, <2>1 DEF LoseChannel
<1>10. CASE UNCHANGED hubVars
  BY <1>10 DEF hubVars
<1> QED BY <1>2, <1>3, <1>4, <1>5, <1>6, <1>7, <1>8, <1>9, <1>10 DEF HubNext, Progress

(* Every step keeps the order announce, then mark complete, then ack.      *)
LEMMA NextAnnouncing == HubInv /\ [HubNext]_hubVars => Announcing'
<1> SUFFICES ASSUME HubInv, [HubNext]_hubVars PROVE Announcing'
  OBVIOUS
<1>1. HubTypes /\ Announcing
  BY DEF HubInv
<1> USE <1>1 DEF HubTypes, Announcing, Announced, AckedIsAnnounced, Steps, Goto, Leave, Unlock, Free, control, redis, counts
<1>2. CASE Produce
  BY <1>2 DEF Produce
<1>3. ASSUME NEW h \in Handlers, Deliver(h) PROVE Announcing'
  BY <1>3 DEF Deliver
<1>4. ASSUME NEW h \in Handlers, Mark(h) \/ MarkFails(h) \/ Complete(h) \/ Undo(h) PROVE Announcing'
  <2>1. CASE Mark(h)
    BY <2>1 DEF Mark
  <2>2. CASE MarkFails(h)
    BY <2>2 DEF MarkFails
  <2>3. CASE Complete(h)
    BY <2>3 DEF Complete
  <2>4. CASE Undo(h)
    BY <2>4 DEF Undo
  <2> QED BY <1>4, <2>1, <2>2, <2>3, <2>4
<1>5. ASSUME NEW h \in Handlers, Check(h) \/ CallFails(h) \/ Relate(h) \/ Publish(h) PROVE Announcing'
  <2>1. CASE Check(h)
    BY <2>1 DEF Check
  <2>2. CASE CallFails(h)
    BY <2>2 DEF CallFails
  <2>3. CASE Relate(h)
    BY <2>3 DEF Relate
  <2>4. CASE Publish(h)
    BY <2>4 DEF Publish
  <2> QED BY <1>5, <2>1, <2>2, <2>3, <2>4
<1>6. ASSUME NEW h \in Handlers, Push(h) \/ PushFails(h) PROVE Announcing'
  BY <1>6 DEF Push, PushFails
<1>7. ASSUME NEW h \in Handlers, Ack(h) \/ Reject(h) PROVE Announcing'
  BY <1>7 DEF Ack, Reject
<1>8. ASSUME NEW b \in Hubs, Crash(b) PROVE Announcing'
  BY <1>8 DEF Crash
<1>9. ASSUME NEW b \in Hubs, LoseChannel(b) PROVE Announcing'
  BY <1>9 DEF LoseChannel
<1>10. CASE UNCHANGED hubVars
  BY <1>10 DEF hubVars
<1> QED BY <1>2, <1>3, <1>4, <1>5, <1>6, <1>7, <1>8, <1>9, <1>10 DEF HubNext, Progress

(* Every step keeps the marker of a stored event.                          *)
LEMMA NextStoring == HubInv /\ [HubNext]_hubVars => Storing'
<1> SUFFICES ASSUME HubInv, [HubNext]_hubVars, "push" \notin failed' PROVE Storing'
  BY DEF Storing
<1>1. HubTypes /\ \A h \in Handlers : pc[h] # "idle" => ev[h] \in Events
  BY DEF HubInv, Announcing
<1>2. "push" \notin failed
  <2>1. CASE HubNext
    BY <2>1 DEF HubNext, Progress, Produce, Deliver, Mark, Check, Push, Undo, Relate, Publish, Complete, Ack, Reject,
       MarkFails, PushFails, CallFails, Crash, LoseChannel, Fails, counts
  <2>2. CASE UNCHANGED hubVars
    BY <2>2 DEF hubVars, counts
  <2> QED BY <2>1, <2>2
<1>3. /\ \A h \in Handlers :
              /\ pc[h] # "undo"
              /\ pc[h] = "push" => pushes[ev[h]] = 0 /\ marker[ev[h]] # "absent"
      /\ \A g, h \in Handlers : pc[g] = "push" /\ pc[h] = "push" /\ ev[g] = ev[h] => g = h
      /\ \A e \in Events : pushes[e] <= 1 /\ (pushes[e] > 0 => marker[e] # "absent")
  BY <1>2 DEF HubInv, Storing
<1> USE <1>1, <1>3 DEF HubTypes, Storing, Steps, Goto, Leave, Unlock, Free, control, redis, counts
<1>4. CASE Produce
  BY <1>4 DEF Produce
<1>5. ASSUME NEW h \in Handlers, Deliver(h) PROVE Storing'
  BY <1>5 DEF Deliver
<1>6. ASSUME NEW h \in Handlers, Mark(h) PROVE Storing'
  <2>1. ev[h] \in Events
    BY <1>6 DEF Mark
  <2>2. CASE marker[ev[h]] = "absent"
    BY <1>6, <2>1, <2>2 DEF Mark
  <2>3. CASE marker[ev[h]] # "absent"
    BY <1>6, <2>1, <2>3 DEF Mark
  <2> QED BY <2>2, <2>3
<1>7. ASSUME NEW h \in Handlers, MarkFails(h) PROVE Storing'
  BY <1>7 DEF MarkFails
<1>8. ASSUME NEW h \in Handlers, Complete(h) PROVE Storing'
  BY <1>8 DEF Complete
<1>9. ASSUME NEW h \in Handlers, Undo(h) \/ PushFails(h) PROVE Storing'
  BY <1>9 DEF Undo, PushFails, Fails
<1>10. ASSUME NEW h \in Handlers, Check(h) \/ CallFails(h) \/ Relate(h) \/ Publish(h) PROVE Storing'
  BY <1>10 DEF Check, CallFails, Relate, Publish
<1>11. ASSUME NEW h \in Handlers, Push(h) PROVE Storing'
  BY <1>11 DEF Push, Pushed
<1>12. ASSUME NEW h \in Handlers, Ack(h) \/ Reject(h) PROVE Storing'
  BY <1>12 DEF Ack, Reject
<1>13. ASSUME NEW b \in Hubs, Crash(b) PROVE Storing'
  BY <1>13 DEF Crash
<1>14. ASSUME NEW b \in Hubs, LoseChannel(b) PROVE Storing'
  BY <1>14 DEF LoseChannel
<1>15. CASE UNCHANGED hubVars
  BY <1>15 DEF hubVars
<1> QED BY <1>4, <1>5, <1>6, <1>7, <1>8, <1>9, <1>10, <1>11, <1>12, <1>13, <1>14, <1>15 DEF HubNext, Progress

(* With any number of hubs and handlers, failing calls, crashes and lost   *)
(* channels: an acked event was announced and related, and the marker      *)
(* keeps every event to one entry of the history unless a push failed.     *)
THEOREM HubsSound == HubSpec => []HubSound
<1>1. HubInv /\ [HubNext]_hubVars => HubInv'
  BY NextHubTypes, NextAnnouncing, NextStoring DEF HubInv
<1>2. HubInv => HubSound
  BY DEF HubInv, Announcing, Storing, HubSound, StoredOnce
<1> QED BY InitHub, <1>1, <1>2, PTL DEF HubSpec

-----------------------------------------------------------------------------
(* StatusStream over one hub: a client receives what was stored, in order. *)

(* The deployments the order of the history is about: with two hubs two    *)
(* events of a task are stored at the same time.                           *)
OneHub == \A a, b \in Hubs : a = b

(* Events that are stored, and the steps of a handler that has the lock.   *)
Usable == Events \ Unusable
HoldsLock == Locked \ {"mark"}

(* The rest of the hub's types.                                            *)
QueueTypes ==
    /\ lockq \in [Hubs -> Seq(Handlers)]
    /\ stale \subseteq Handlers
    /\ history \in Seq(Events) /\ Len(history) <= HistoryMaxlen
    /\ acked \subseteq Events
    /\ failed \subseteq FailingCalls
    /\ failures \in 0 .. MaxFailures /\ crashes \in 0 .. MaxCrashes /\ losses \in 0 .. MaxLosses

(* A handler between its delivery and its ack or reject is in line for the *)
(* lock of its hub, once, and past the first call is its holder.           *)
LineOf(b, line, step) ==
    /\ \A i, j \in 1 .. Len(line) : i # j => line[i] # line[j]
    /\ \A i \in 1 .. Len(line) : HubOf[line[i]] = b /\ step[line[i]] \in Locked
InLine ==
    /\ \A b \in Hubs : LineOf(b, lockq[b], pc)
    /\ \A h \in Handlers : pc[h] \in Locked => \E i \in 1 .. Len(lockq[HubOf[h]]) : lockq[HubOf[h]][i] = h
    /\ \A h \in Handlers : pc[h] \in HoldsLock => Holds(h)

(* What is at the lock is usable, and what waits was produced.             *)
Delivered ==
    /\ \A h \in Handlers : pc[h] \in Locked => ev[h] \in Usable
    /\ \A h \in Handlers : pc[h] # "idle" => ev[h] <= produced
    /\ \A e \in queue : e <= produced
    /\ \A h \in stale : pc[h] # "idle"

(* The history holds what was pushed, once unless a push failed.           *)
Kept ==
    /\ \A i \in 1 .. Len(history) : pushes[history[i]] > 0
    /\ "push" \notin failed => \A i, j \in 1 .. Len(history) : i # j => history[i] # history[j]

(* Until a call fails, events are marked in the order of their numbers,    *)
(* whatever comes back to the queue: whoever is in line has all unmarked   *)
(* earlier events before it.                                               *)
MarkedInOrder ==
    failed = {} =>
        /\ \A h \in Handlers : pc[h] \notin {"undo", "reject"}
        /\ \A h \in Handlers : pc[h] \in HoldsLock => marker[ev[h]] # "absent"
        /\ \A x \in Events, e \in Usable : e < x /\ marker[x] # "absent" => marker[e] # "absent"
        /\ \A b \in Hubs : \A i \in 1 .. Len(lockq[b]) : \A e \in Usable :
              e < ev[lockq[b][i]] => marker[e] # "absent" \/ \E j \in 1 .. i - 1 : ev[lockq[b][j]] = e
        /\ \A e \in Usable : e <= produced /\ marker[e] = "absent" =>
              e \in queue \/ \E h \in Handlers \ stale : ev[h] = e /\ pc[h] = "mark"

(* So the history is in that order, and a push adds the largest.           *)
PushedInOrder ==
    failed = {} =>
        /\ \A i \in 1 .. Len(history) : marker[history[i]] # "absent"
        /\ \A h \in Handlers : pc[h] = "push" => \A i \in 1 .. Len(history) : history[i] < ev[h]
        /\ \A i, j \in 1 .. Len(history) : i < j => history[i] >= history[j]

(* A marker stands for a stored event, or for the push of the lock holder. *)
Backed ==
    MarkersReliable =>
        /\ \A e \in Events : marker[e] # "absent" =>
              pushes[e] > 0 \/ \E h \in Handlers : Holds(h) /\ ev[h] = e /\ pc[h] \in {"push", "undo"}
        /\ \A h \in Handlers : pc[h] \in {"check", "relate", "publish", "complete"} => pushes[ev[h]] > 0
        /\ \A h \in Handlers : pc[h] = "ack" => ev[h] \in Unusable \/ pushes[ev[h]] > 0
        /\ \A e \in acked \ Unusable : pushes[e] > 0

(* Without failed calls and crashes an event is stored and announced only  *)
(* after all earlier ones.                                                 *)
Calm == failed = {} /\ crashes = 0
Concluded ==
    Calm =>
        /\ \A e \in Events : marker[e] = "pending" =>
              \E h \in Handlers : Holds(h) /\ ev[h] = e /\ pc[h] \in {"push", "relate", "publish", "complete"}
        /\ \A x \in Events, e \in Usable : e < x /\ pushes[x] > 0 => pushes[e] > 0
        /\ \A i \in 1 .. Len(channel) :
              /\ channel[i] \in Usable /\ pushes[channel[i]] > 0
              /\ \A e \in Usable : e < channel[i] => \E j \in 1 .. i - 1 : channel[j] = e

(* The clients.                                                            *)
StreamTypes ==
    /\ spc \in [Clients -> {"closed", "history", "replay", "live", "ended"}]
    /\ pos \in [Clients -> Nat]
    /\ todo \in [Clients -> Seq(Events)]
    /\ seen \in [Clients -> SUBSET Events]
    /\ got \in [Clients -> Seq(Events)]
    /\ drops \in 0 .. MaxDrops

(* The event is in the sequence.                                           *)
Has(s, e) == \E i \in 1 .. Len(s) : s[i] = e

(* On its only connection a client has what it has seen, once, and nothing *)
(* of it is to be replayed.                                                *)
FirstConnection ==
    drops = 0 /\ "push" \notin failed => \A c \in Clients :
        /\ spc[c] \in {"closed", "history"} => got[c] = <<>> /\ seen[c] = {}
        /\ \A i \in 1 .. Len(got[c]) : got[c][i] \in seen[c]
        /\ \A i, j \in 1 .. Len(got[c]) : i # j => got[c][i] # got[c][j]
        /\ spc[c] = "replay" =>
              /\ \A i, j \in 1 .. Len(todo[c]) : i # j => todo[c][i] # todo[c][j]
              /\ \A i \in 1 .. Len(todo[c]) : ~Has(got[c], todo[c][i])

(* What a client will be sent next has all earlier events before it, and   *)
(* what it skips of the channel it has.                                    *)
Caught(c) ==
    /\ \A e \in seen[c] : Has(got[c], e)
    /\ spc[c] \in {"history", "replay", "live"} => pos[c] <= Len(channel)
    /\ \A i \in 1 .. Len(got[c]) : \A e \in Usable :
          e < got[c][i] => Trimmed(e) \/ \E j \in 1 .. i - 1 : got[c][j] = e
    /\ spc[c] = "replay" =>
          /\ \A k \in 1 .. Len(todo[c]) : \A e \in Usable :
                e < todo[c][k] => Trimmed(e) \/ Has(got[c], e) \/ \E j \in 1 .. k - 1 : todo[c][j] = e
          /\ \A i \in 1 .. pos[c] : Trimmed(channel[i]) \/ Has(got[c], channel[i]) \/ Has(todo[c], channel[i])
    /\ spc[c] = "live" => \A i \in 1 .. pos[c] : Trimmed(channel[i]) \/ Has(got[c], channel[i])

(* Without failed calls and crashes every client is.                       *)
CaughtUp == Calm => \A c \in Clients : Caught(c)

(* What holds of the hub whatever fails.                                   *)
HubState == HubInv /\ QueueTypes /\ InLine /\ Delivered

(* What failed stays noted.                                                *)
LEMMA FailuresStay ==
    [HubNext]_hubVars /\ QueueTypes =>
        failed \subseteq failed' /\ crashes' \in Nat /\ crashes \in Nat /\ crashes <= crashes'
<1> SUFFICES ASSUME [HubNext]_hubVars, QueueTypes
             PROVE  failed \subseteq failed' /\ crashes' \in Nat /\ crashes \in Nat /\ crashes <= crashes'
  OBVIOUS
<1>1. crashes \in Nat
  BY HubAssumption DEF QueueTypes
<1>2. CASE \E b \in Hubs : Crash(b)
  BY <1>1, <1>2 DEF Crash
<1>3. CASE \E h \in Handlers : MarkFails(h) \/ PushFails(h) \/ CallFails(h)
  BY <1>1, <1>3 DEF MarkFails, PushFails, CallFails, Fails
<1>4. CASE Produce \/ (\E h \in Handlers : Deliver(h) \/ Progress(h)) \/ (\E b \in Hubs : LoseChannel(b))
  BY <1>1, <1>4 DEF Produce, Deliver, Progress, Mark, Check, Push, Undo, Relate, Publish, Complete, Ack, Reject,
     LoseChannel, counts
<1>5. CASE UNCHANGED hubVars
  BY <1>1, <1>5 DEF hubVars, counts
<1> QED BY <1>2, <1>3, <1>4, <1>5 DEF HubNext

(* The history after a push.                                               *)
LEMMA PushedHistory ==
    ASSUME QueueTypes, NEW e \in Events, Pushed(e)
    PROVE  /\ history' \in Seq(Events) /\ Len(history') <= HistoryMaxlen /\ Len(history') <= Len(history) + 1
           /\ \A i \in 1 .. Len(history') : history'[i] = IF i = 1 THEN e ELSE history[i - 1]
<1> DEFINE t == <<e>> \o history
           m == IF Len(history) < HistoryMaxlen THEN Len(history) + 1 ELSE HistoryMaxlen
<1>1. history \in Seq(Events) /\ Len(history) \in Nat /\ HistoryMaxlen \in Nat \ {0} /\ Len(history) <= HistoryMaxlen
  BY HubAssumption DEF QueueTypes
<1>2. t \in Seq(Events) /\ Len(t) = Len(history) + 1 /\ \A i \in 1 .. Len(t) : t[i] = IF i = 1 THEN e ELSE history[i - 1]
  BY <1>1
<1>3. m \in 1 .. Len(t) /\ m <= HistoryMaxlen /\ m <= Len(history) + 1
  BY <1>1, <1>2
<1>4. history' = SubSeq(t, 1, m)
  BY DEF Pushed
<1>5. history' \in Seq(Events) /\ Len(history') = m /\ \A i \in 1 .. m : history'[i] = t[i]
  BY <1>2, <1>3, <1>4
<1> HIDE DEF t, m
<1> QED BY <1>2, <1>3, <1>5

(* What the lock holder gives up.                                          *)
LEMMA UnlockFacts ==
    ASSUME HubState, NEW h \in Handlers, Holds(h), Unlock(h)
    PROVE  /\ lockq' \in [Hubs -> Seq(Handlers)] /\ HubOf[h] \in Hubs
           /\ \A b \in Hubs \ {HubOf[h]} : lockq'[b] = lockq[b]
           /\ lockq[HubOf[h]][1] = h /\ Len(lockq[HubOf[h]]) \in Nat \ {0}
           /\ Len(lockq'[HubOf[h]]) = Len(lockq[HubOf[h]]) - 1
           /\ \A i \in 1 .. Len(lockq'[HubOf[h]]) : lockq'[HubOf[h]][i] = lockq[HubOf[h]][i + 1]
<1> DEFINE s == lockq[HubOf[h]]
<1>1. HubOf[h] \in Hubs /\ lockq \in [Hubs -> Seq(Handlers)] /\ s \in Seq(Handlers) /\ s # <<>> /\ Head(s) = h
  BY HubAssumption DEF HubState, QueueTypes, Holds
<1>2. /\ Tail(s) \in Seq(Handlers) /\ Len(s) \in Nat \ {0} /\ Len(Tail(s)) = Len(s) - 1 /\ s[1] = h
      /\ \A i \in 1 .. Len(Tail(s)) : Tail(s)[i] = s[i + 1]
  BY <1>1
<1>3. lockq' = [lockq EXCEPT ![HubOf[h]] = Tail(s)]
  BY DEF Unlock
<1> QED BY <1>1, <1>2, <1>3

(* Every step keeps the types of the lock, the history and the counters.   *)
LEMMA NextQueueTypes == HubState /\ [HubNext]_hubVars => QueueTypes'
<1> SUFFICES ASSUME HubState, [HubNext]_hubVars PROVE QueueTypes'
  OBVIOUS
<1>1. /\ QueueTypes /\ \A h \in Handlers : pc[h] # "idle" => ev[h] \in Events
      /\ \A h \in Handlers : pc[h] \in HoldsLock => Holds(h)
      /\ HubOf \in [Handlers -> Hubs] /\ MaxFailures \in Nat /\ MaxCrashes \in Nat /\ MaxLosses \in Nat
  BY HubAssumption DEF HubState, HubInv, Announcing, InLine
<1>2. ASSUME NEW h \in Handlers, Fails(h)
      PROVE  failed' \subseteq FailingCalls /\ failures' \in 0 .. MaxFailures /\ UNCHANGED <<crashes, losses>>
  BY <1>1, <1>2 DEF Fails, QueueTypes
<1>3. ASSUME NEW h \in Handlers, pc[h] \in HoldsLock \/ Holds(h), Unlock(h) PROVE lockq' \in [Hubs -> Seq(Handlers)]
  BY <1>1, <1>3, UnlockFacts
<1>4. CASE Produce
  BY <1>1, <1>4 DEF Produce, QueueTypes, control, redis, counts
<1>5. ASSUME NEW h \in Handlers, Deliver(h) PROVE QueueTypes'
  <2>1. lockq' \in [Hubs -> Seq(Handlers)]
    <3>1. lockq \in [Hubs -> Seq(Handlers)] /\ HubOf[h] \in Hubs /\ Append(lockq[HubOf[h]], h) \in Seq(Handlers)
      BY <1>1 DEF QueueTypes
    <3>2. lockq' = lockq \/ lockq' = [lockq EXCEPT ![HubOf[h]] = Append(lockq[HubOf[h]], h)]
      BY <1>5 DEF Deliver
    <3> QED BY <3>1, <3>2
  <2> QED BY <1>1, <1>5, <2>1 DEF Deliver, QueueTypes, redis, counts
<1>6. ASSUME NEW h \in Handlers, Mark(h) \/ Relate(h) \/ Publish(h) PROVE QueueTypes'
  BY <1>1, <1>6 DEF Mark, Relate, Publish, QueueTypes, counts
<1>7. ASSUME NEW h \in Handlers, Check(h) PROVE QueueTypes'
  <2>1. lockq' \in [Hubs -> Seq(Handlers)]
    BY <1>1, <1>3, <1>7 DEF Check, Leave, QueueTypes, HoldsLock, Locked
  <2> QED BY <1>1, <1>7, <2>1 DEF Check, QueueTypes, redis, counts
<1>8. ASSUME NEW h \in Handlers, Complete(h) \/ Undo(h) PROVE QueueTypes'
  <2>1. lockq' \in [Hubs -> Seq(Handlers)]
    BY <1>1, <1>3, <1>8 DEF Complete, Undo, Leave, HoldsLock, Locked
  <2> QED BY <1>1, <1>8, <2>1 DEF Complete, Undo, QueueTypes, counts
<1>9. ASSUME NEW h \in Handlers, Push(h) \/ PushFails(h) PROVE QueueTypes'
  <2>1. history' \in Seq(Events) /\ Len(history') <= HistoryMaxlen
    BY <1>1, <1>9, PushedHistory DEF Push, PushFails, QueueTypes
  <2>2. CASE Push(h)
    BY <1>1, <2>1, <2>2 DEF Push, QueueTypes, counts
  <2>3. CASE PushFails(h)
    BY <1>1, <1>2, <2>1, <2>3 DEF PushFails, QueueTypes
  <2> QED BY <1>9, <2>2, <2>3
<1>10. ASSUME NEW h \in Handlers, MarkFails(h) \/ CallFails(h) PROVE QueueTypes'
  <2>1. lockq' \in [Hubs -> Seq(Handlers)]
    BY <1>1, <1>3, <1>10 DEF MarkFails, CallFails, Leave, HoldsLock, Locked
  <2>2. Fails(h) /\ UNCHANGED <<stale, history, acked>>
    BY <1>10 DEF MarkFails, CallFails, redis
  <2> QED BY <1>1, <1>2, <2>1, <2>2 DEF QueueTypes
<1>11. ASSUME NEW h \in Handlers, Ack(h) \/ Reject(h) PROVE QueueTypes'
  BY <1>1, <1>11 DEF Ack, Reject, Free, QueueTypes, redis, counts
<1>12. ASSUME NEW b \in Hubs, Crash(b) \/ LoseChannel(b) PROVE QueueTypes'
  <2>1. CASE Crash(b)
    <3>1. lockq' \in [Hubs -> Seq(Handlers)] /\ stale' \subseteq Handlers /\ crashes' \in 0 .. MaxCrashes
      BY <1>1, <2>1 DEF Crash, QueueTypes
    <3> QED BY <1>1, <2>1, <3>1 DEF Crash, QueueTypes, redis
  <2>2. CASE LoseChannel(b)
    <3>1. stale' \subseteq Handlers /\ losses' \in 0 .. MaxLosses
      BY <1>1, <2>2 DEF LoseChannel, QueueTypes
    <3> QED BY <1>1, <2>2, <3>1 DEF LoseChannel, QueueTypes, redis
  <2> QED BY <1>12, <2>1, <2>2
<1>13. CASE UNCHANGED hubVars
  BY <1>1, <1>13 DEF hubVars, QueueTypes, control, redis, counts
<1> QED BY <1>4, <1>5, <1>6, <1>7, <1>8, <1>9, <1>10, <1>11, <1>12, <1>13 DEF HubNext, Progress

(* How a step changes the line at the lock: not at all, by one that joins, *)
(* or by the holder that leaves.                                           *)
StaysInLine ==
    /\ lockq' = lockq
    /\ \A g \in Handlers : (pc'[g] \in Locked <=> pc[g] \in Locked) /\ (pc'[g] \in HoldsLock => Holds(g))
JoinsLine(h) ==
    /\ pc[h] = "idle" /\ pc' = [pc EXCEPT ![h] = "mark"]
    /\ lockq' = [lockq EXCEPT ![HubOf[h]] = Append(@, h)]
LeavesLine(h) ==
    /\ Holds(h) /\ Unlock(h)
    /\ \E step \in {"ack", "reject"} : pc' = [pc EXCEPT ![h] = step]

(* There is no other way.                                                  *)
LEMMA LineSteps ==
    HubState /\ HubNext =>
        StaysInLine \/ (\E h \in Handlers : JoinsLine(h) \/ LeavesLine(h)) \/ \E b \in Hubs : Crash(b)
<1> SUFFICES ASSUME HubState, HubNext
             PROVE  StaysInLine \/ (\E h \in Handlers : JoinsLine(h) \/ LeavesLine(h)) \/ \E b \in Hubs : Crash(b)
  OBVIOUS
<1>1. pc \in [Handlers -> Steps] /\ \A h \in Handlers : pc[h] \in HoldsLock => Holds(h)
  BY DEF HubState, HubInv, HubTypes, InLine
<1> USE DEF Locked, HoldsLock, StaysInLine, Goto
<1>2. CASE Produce \/ \E b \in Hubs : LoseChannel(b)
  BY <1>1, <1>2 DEF Produce, LoseChannel, control
<1>3. ASSUME NEW h \in Handlers, Deliver(h) PROVE StaysInLine \/ JoinsLine(h)
  BY <1>1, <1>3 DEF Deliver, JoinsLine
<1>4. ASSUME NEW h \in Handlers, Mark(h) \/ Relate(h) \/ Publish(h) \/ Push(h) \/ PushFails(h) PROVE StaysInLine
  BY <1>1, <1>4 DEF Mark, Relate, Publish, Push, PushFails
<1>5. ASSUME NEW h \in Handlers, Ack(h) \/ Reject(h) PROVE StaysInLine
  BY <1>1, <1>5 DEF Ack, Reject, Free
<1>6. ASSUME NEW h \in Handlers, Check(h) PROVE StaysInLine \/ LeavesLine(h)
  BY <1>1, <1>6 DEF Check, Leave, LeavesLine
<1>7. ASSUME NEW h \in Handlers, Complete(h) \/ Undo(h) \/ MarkFails(h) \/ CallFails(h) PROVE LeavesLine(h)
  BY <1>1, <1>7 DEF Complete, Undo, MarkFails, CallFails, Leave, LeavesLine
<1> QED BY <1>2, <1>3, <1>4, <1>5, <1>6, <1>7 DEF HubNext, Progress

(* A line that stays, with the steps of those in it.                       *)
LEMMA SameLine ==
    ASSUME NEW b, NEW line, NEW p, NEW q, LineOf(b, line, p),
           \A i \in 1 .. Len(line) : q[line[i]] \in Locked <=> p[line[i]] \in Locked
    PROVE  LineOf(b, line, q)
BY DEF LineOf

(* Every step keeps the line.                                              *)
LEMMA NextInLine == HubState /\ [HubNext]_hubVars => InLine'
<1> SUFFICES ASSUME HubState, [HubNext]_hubVars PROVE InLine'
  OBVIOUS
<1>1. InLine /\ HubOf \in [Handlers -> Hubs] /\ pc \in [Handlers -> Steps] /\ lockq \in [Hubs -> Seq(Handlers)]
  BY HubAssumption DEF HubState, HubInv, HubTypes, QueueTypes
<1>2. \A b \in Hubs : lockq[b] \in Seq(Handlers) /\ Len(lockq[b]) \in Nat /\ \A i \in 1 .. Len(lockq[b]) : lockq[b][i] \in Handlers
  BY <1>1
<1>3. /\ \A b \in Hubs : LineOf(b, lockq[b], pc)
      /\ \A h \in Handlers : pc[h] \in Locked => \E i \in 1 .. Len(lockq[HubOf[h]]) : lockq[HubOf[h]][i] = h
      /\ \A h \in Handlers : pc[h] \in HoldsLock => lockq[HubOf[h]][1] = h /\ Len(lockq[HubOf[h]]) > 0
  BY <1>1, <1>2 DEF InLine, Holds
<1>4. \A b \in Hubs : lockq'[b] \in Seq(Handlers)
  BY NextQueueTypes DEF QueueTypes
<1>5. ASSUME \A b \in Hubs : LineOf(b, lockq'[b], pc'),
             \A g \in Handlers : pc'[g] \in Locked =>
                \E i \in 1 .. Len(lockq'[HubOf[g]]) : lockq'[HubOf[g]][i] = g,
             \A g \in Handlers : pc'[g] \in HoldsLock => lockq'[HubOf[g]][1] = g /\ Len(lockq'[HubOf[g]]) > 0
      PROVE  InLine'
  <2>1. \A g \in Handlers : pc'[g] \in HoldsLock => Holds(g)'
    BY <1>1, <1>4, <1>5 DEF Holds
  <2> QED BY <1>5, <2>1 DEF InLine
<1>6. CASE StaysInLine
  <2>1. lockq' = lockq /\ \A g \in Handlers : (pc'[g] \in Locked <=> pc[g] \in Locked) /\ (pc'[g] \in HoldsLock => Holds(g))
    BY <1>6 DEF StaysInLine
  <2>2. \A b \in Hubs : LineOf(b, lockq'[b], pc')
    BY <1>2, <1>3, <2>1, SameLine
  <2>3. \A g \in Handlers : pc'[g] \in HoldsLock => lockq'[HubOf[g]][1] = g /\ Len(lockq'[HubOf[g]]) > 0
    BY <1>1, <1>2, <2>1 DEF Holds
  <2> QED BY <1>3, <1>5, <2>1, <2>2, <2>3
<1>7. ASSUME NEW h \in Handlers, JoinsLine(h) PROVE InLine'
  <2> DEFINE b == HubOf[h]
             n == Len(lockq[b])
  <2>1. b \in Hubs /\ n \in Nat /\ lockq[b] \in Seq(Handlers)
    BY <1>1, <1>2
  <2>2. (\A a \in Hubs \ {b} : lockq'[a] = lockq[a]) /\ lockq'[b] = Append(lockq[b], h)
    BY <1>1, <1>7, <2>1 DEF JoinsLine
  <2>3. Len(lockq'[b]) = n + 1 /\ (\A i \in 1 .. n : lockq'[b][i] = lockq[b][i]) /\ lockq'[b][n + 1] = h
    BY <2>1, <2>2
  <2>4. pc[h] \notin Locked /\ pc'[h] = "mark" /\ \A g \in Handlers \ {h} : pc'[g] = pc[g]
    BY <1>1, <1>7 DEF JoinsLine, Locked
  <2> HIDE DEF n
  <2>5. \A a \in Hubs : \A i \in 1 .. Len(lockq[a]) : lockq[a][i] # h /\ pc'[lockq[a][i]] = pc[lockq[a][i]]
    BY <1>2, <1>3, <2>4 DEF LineOf
  <2>6. ASSUME NEW a \in Hubs PROVE LineOf(a, lockq'[a], pc')
    <3>1. LineOf(a, lockq[a], pc')
      BY <1>3, <2>5, SameLine
    <3>2. CASE a # b
      BY <2>2, <3>1, <3>2
    <3>3. CASE a = b
      <4>1. \A i \in 1 .. n + 1 : i \in 1 .. n \/ i = n + 1
        BY <2>1
      <4>2. LineOf(b, lockq[b], pc') /\ Len(lockq[b]) = n /\ pc'[h] \in Locked
        BY <2>4, <3>1, <3>3 DEF n, Locked
      <4>3. \A i, j \in 1 .. n + 1 : i # j => lockq'[b][i] # lockq'[b][j]
        <5> SUFFICES ASSUME NEW i \in 1 .. n + 1, NEW j \in 1 .. n + 1, i # j PROVE lockq'[b][i] # lockq'[b][j]
          OBVIOUS
        <5>1. \A k \in 1 .. n : lockq[b][k] # h
          BY <2>1, <2>5 DEF n
        <5>2. CASE i \in 1 .. n /\ j \in 1 .. n
          BY <2>3, <4>2, <5>2 DEF LineOf
        <5>3. CASE i = n + 1 /\ j \in 1 .. n
          BY <2>3, <5>1, <5>3
        <5>4. CASE i \in 1 .. n /\ j = n + 1
          BY <2>3, <5>1, <5>4
        <5> QED BY <4>1, <5>2, <5>3, <5>4
      <4>4. \A i \in 1 .. n + 1 : HubOf[lockq'[b][i]] = b /\ pc'[lockq'[b][i]] \in Locked
        BY <2>3, <4>1, <4>2 DEF LineOf
      <4> QED BY <2>3, <3>3, <4>3, <4>4 DEF LineOf
    <3> QED BY <3>2, <3>3
  <2>7. ASSUME NEW g \in Handlers, pc'[g] \in Locked PROVE \E i \in 1 .. Len(lockq'[HubOf[g]]) : lockq'[HubOf[g]][i] = g
    <3>1. CASE g = h
      BY <2>1, <2>3, <3>1
    <3>2. CASE g # h
      <4>1. PICK i \in 1 .. Len(lockq[HubOf[g]]) : lockq[HubOf[g]][i] = g
        BY <1>3, <2>4, <2>7, <3>2
      <4>2. CASE HubOf[g] = b
        <5>1. i \in 1 .. n /\ i \in 1 .. n + 1
          BY <2>1, <4>1, <4>2 DEF n
        <5> QED BY <2>3, <4>1, <4>2, <5>1
      <4>3. CASE HubOf[g] # b
        BY <1>1, <2>2, <4>1, <4>3
      <4> QED BY <4>2, <4>3
    <3> QED BY <3>1, <3>2
  <2>8. ASSUME NEW g \in Handlers, pc'[g] \in HoldsLock PROVE lockq'[HubOf[g]][1] = g /\ Len(lockq'[HubOf[g]]) > 0
    <3>1. g # h /\ pc[g] \in HoldsLock
      BY <2>4, <2>8 DEF HoldsLock
    <3>2. lockq[HubOf[g]][1] = g /\ Len(lockq[HubOf[g]]) > 0
      BY <1>3, <3>1
    <3>3. CASE HubOf[g] = b
      <4>1. 1 \in 1 .. n /\ n + 1 > 0
        BY <2>1, <3>2, <3>3 DEF n
      <4> QED BY <2>3, <3>2, <3>3, <4>1
    <3>4. CASE HubOf[g] # b
      BY <1>1, <2>2, <3>2, <3>4
    <3> QED BY <3>3, <3>4
  <2> QED BY <1>5, <2>6, <2>7, <2>8
<1>8. ASSUME NEW h \in Handlers, LeavesLine(h) PROVE InLine'
  <2> DEFINE b == HubOf[h]
             n == Len(lockq[b])
  <2>1. /\ b \in Hubs /\ \A a \in Hubs \ {b} : lockq'[a] = lockq[a]
        /\ lockq[b][1] = h /\ n \in Nat \ {0} /\ Len(lockq'[b]) = n - 1
        /\ \A i \in 1 .. n - 1 : lockq'[b][i] = lockq[b][i + 1]
    BY <1>8, UnlockFacts DEF LeavesLine
  <2>2. pc'[h] \notin Locked /\ \A g \in Handlers \ {h} : pc'[g] = pc[g]
    BY <1>1, <1>8 DEF LeavesLine, Locked
  <2>3. LineOf(b, lockq[b], pc)
    BY <1>3, <2>1
  <2>4. \A i \in 1 .. n - 1 : i + 1 \in 1 .. n /\ i + 1 # 1 /\ 1 \in 1 .. n
    BY <2>1
  <2>5. \A i \in 1 .. n - 1 : lockq'[b][i] # h /\ lockq'[b][i] \in Handlers
    BY <1>2, <2>1, <2>3, <2>4 DEF LineOf
  <2>6. ASSUME NEW a \in Hubs PROVE LineOf(a, lockq'[a], pc')
    <3>1. CASE a # b
      <4>1. \A i \in 1 .. Len(lockq[a]) : lockq[a][i] \in Handlers \ {h}
        BY <1>2, <1>3, <3>1 DEF LineOf
      <4> QED BY <1>3, <2>1, <2>2, <3>1, <4>1, SameLine
    <3>2. CASE a = b
      <4>1. \A i, j \in 1 .. n - 1 : i # j => lockq'[b][i] # lockq'[b][j]
        <5> SUFFICES ASSUME NEW i \in 1 .. n - 1, NEW j \in 1 .. n - 1, i # j PROVE lockq'[b][i] # lockq'[b][j]
          OBVIOUS
        <5>1. i + 1 \in 1 .. n /\ j + 1 \in 1 .. n /\ i + 1 # j + 1
          BY <2>1
        <5>2. lockq'[b][i] = lockq[b][i + 1] /\ lockq'[b][j] = lockq[b][j + 1]
          BY <2>1
        <5>3. lockq[b][i + 1] # lockq[b][j + 1]
          BY <2>3, <5>1 DEF LineOf
        <5> QED BY <5>2, <5>3
      <4>2. \A i \in 1 .. n - 1 : HubOf[lockq'[b][i]] = b /\ pc[lockq'[b][i]] \in Locked
        <5> SUFFICES ASSUME NEW i \in 1 .. n - 1 PROVE HubOf[lockq'[b][i]] = b /\ pc[lockq'[b][i]] \in Locked
          OBVIOUS
        <5>1. i + 1 \in 1 .. n /\ lockq'[b][i] = lockq[b][i + 1]
          BY <2>1, <2>4
        <5>2. HubOf[lockq[b][i + 1]] = b /\ pc[lockq[b][i + 1]] \in Locked
          BY <2>3, <5>1 DEF LineOf
        <5> QED BY <5>1, <5>2
      <4>3. \A i \in 1 .. n - 1 : pc'[lockq'[b][i]] \in Locked
        BY <2>2, <2>5, <4>2
      <4> QED BY <2>1, <3>2, <4>1, <4>2, <4>3 DEF LineOf
    <3> QED BY <3>1, <3>2
  <2>7. ASSUME NEW g \in Handlers, pc'[g] \in Locked PROVE \E i \in 1 .. Len(lockq'[HubOf[g]]) : lockq'[HubOf[g]][i] = g
    <3>1. g # h /\ pc[g] \in Locked
      BY <2>2, <2>7
    <3>2. PICK i \in 1 .. Len(lockq[HubOf[g]]) : lockq[HubOf[g]][i] = g
      BY <1>3, <3>1
    <3>3. CASE HubOf[g] = b
      <4>1. i # 1 /\ i \in Nat /\ i - 1 \in 1 .. n - 1 /\ (i - 1) + 1 = i
        BY <2>1, <3>1, <3>2, <3>3
      <4>2. lockq'[b][i - 1] = lockq[b][i]
        BY <2>1, <4>1
      <4> QED BY <2>1, <3>2, <3>3, <4>1, <4>2
    <3>4. CASE HubOf[g] # b
      BY <1>1, <2>1, <3>2, <3>4
    <3> QED BY <3>3, <3>4
  <2>8. ASSUME NEW g \in Handlers, pc'[g] \in HoldsLock PROVE lockq'[HubOf[g]][1] = g /\ Len(lockq'[HubOf[g]]) > 0
    <3>1. g # h /\ pc[g] \in HoldsLock
      BY <2>2, <2>8 DEF HoldsLock
    <3>2. lockq[HubOf[g]][1] = g /\ Len(lockq[HubOf[g]]) > 0
      BY <1>3, <3>1
    <3>3. HubOf[g] # b
      BY <2>1, <3>1, <3>2
    <3> QED BY <1>1, <2>1, <3>2, <3>3
  <2> QED BY <1>5, <2>6, <2>7, <2>8
<1>9. ASSUME NEW b \in Hubs, Crash(b) PROVE InLine'
  <2>1. lockq'[b] = <<>> /\ \A a \in Hubs \ {b} : lockq'[a] = lockq[a]
    BY <1>1, <1>9 DEF Crash
  <2>2. \A g \in Handlers : pc'[g] = IF HubOf[g] = b THEN "idle" ELSE pc[g]
    BY <1>9 DEF Crash
  <2>3. \A g \in Handlers : pc'[g] \in Locked => HubOf[g] # b /\ pc'[g] = pc[g]
    BY <2>2 DEF Locked
  <2>4. ASSUME NEW a \in Hubs PROVE LineOf(a, lockq'[a], pc')
    <3>1. CASE a = b
      <4>1. Len(lockq'[a]) = 0
        BY <2>1, <3>1
      <4> QED BY <4>1 DEF LineOf
    <3>2. CASE a # b
      <4>1. \A i \in 1 .. Len(lockq[a]) : pc'[lockq[a][i]] = pc[lockq[a][i]]
        BY <1>2, <1>3, <2>2, <3>2 DEF LineOf
      <4> QED BY <1>3, <2>1, <3>2, <4>1, SameLine
    <3> QED BY <3>1, <3>2
  <2>5. \A g \in Handlers : pc'[g] \in Locked => \E i \in 1 .. Len(lockq'[HubOf[g]]) : lockq'[HubOf[g]][i] = g
    <3> SUFFICES ASSUME NEW g \in Handlers, pc'[g] \in Locked
                 PROVE  \E i \in 1 .. Len(lockq'[HubOf[g]]) : lockq'[HubOf[g]][i] = g
      OBVIOUS
    <3>1. HubOf[g] \in Hubs \ {b} /\ pc[g] \in Locked
      BY <1>1, <2>3
    <3>2. lockq'[HubOf[g]] = lockq[HubOf[g]]
      BY <2>1, <3>1
    <3> QED BY <1>3, <3>1, <3>2
  <2>6. \A g \in Handlers : pc'[g] \in HoldsLock => lockq'[HubOf[g]][1] = g /\ Len(lockq'[HubOf[g]]) > 0
    BY <1>1, <1>3, <2>1, <2>3 DEF HoldsLock
  <2> QED BY <1>5, <2>4, <2>5, <2>6
<1>10. CASE UNCHANGED hubVars
  BY <1>1, <1>10 DEF hubVars, control, InLine, Holds
<1> QED BY <1>6, <1>7, <1>8, <1>9, <1>10, LineSteps

(* Every step keeps what is known of the deliveries.                       *)
LEMMA NextDelivered == HubState /\ [HubNext]_hubVars => Delivered'
<1> SUFFICES ASSUME HubState, [HubNext]_hubVars PROVE Delivered'
  OBVIOUS
<1>11. Delivered /\ HubTypes /\ stale \subseteq Handlers /\ \A h \in Handlers : pc[h] # "idle" => ev[h] \in Events
  BY DEF HubState, HubInv, QueueTypes, Announcing
<1>12. N \in Nat /\ produced \in Nat /\ \A e \in Events : e \in Nat
  BY <1>11, HubAssumption DEF HubTypes, Events
<1>1. Delivered /\ HubTypes /\ stale \subseteq Handlers /\ (\A h \in Handlers : pc[h] # "idle" => ev[h] \in Events)
      /\ produced \in Nat /\ N \in Nat /\ \A e \in Events : e \in Nat
  BY <1>11, <1>12
<1>2. CASE Produce
  <2>1. produced' = produced + 1 /\ queue' = queue \cup {produced + 1} /\ UNCHANGED <<pc, ev, stale>>
    BY <1>2 DEF Produce, control
  <2>2. \A e \in queue' : e <= produced'
    BY <1>1, <2>1 DEF Delivered, HubTypes
  <2>3. \A h \in Handlers : pc[h] # "idle" => ev[h] <= produced'
    BY <1>1, <2>1 DEF Delivered
  <2> QED BY <1>1, <2>1, <2>2, <2>3 DEF Delivered
<1> USE <1>1 DEF Delivered, HubTypes, Locked, Goto, Leave
<1>3. ASSUME NEW h \in Handlers, Deliver(h) PROVE Delivered'
  <2>1. PICK e \in queue : /\ queue' = queue \ {e} /\ ev' = [ev EXCEPT ![h] = e]
                           /\ pc' = [pc EXCEPT ![h] = IF e \in Unusable THEN "ack" ELSE "mark"]
    BY <1>3 DEF Deliver
  <2>2. UNCHANGED <<produced, stale>>
    BY <1>3 DEF Deliver
  <2> QED BY <2>1, <2>2 DEF Usable
<1>4. ASSUME NEW h \in Handlers,
             Mark(h) \/ Relate(h) \/ Publish(h) \/ Push(h) \/ PushFails(h) \/ Check(h) \/ Complete(h) \/ Undo(h)
                \/ MarkFails(h) \/ CallFails(h)
      PROVE  Delivered'
  <2>1. pc[h] \in Locked /\ UNCHANGED <<produced, queue, ev, stale>>
    BY <1>4 DEF Mark, Relate, Publish, Push, PushFails, Check, Complete, Undo, MarkFails, CallFails
  <2>2. \E step \in Steps \ {"idle"} : pc' = [pc EXCEPT ![h] = step]
    BY <1>4 DEF Mark, Relate, Publish, Push, PushFails, Check, Complete, Undo, MarkFails, CallFails, Steps
  <2> QED BY <2>1, <2>2
<1>5. ASSUME NEW h \in Handlers, Ack(h) \/ Reject(h) PROVE Delivered'
  BY <1>5 DEF Ack, Reject, Free
<1>6. ASSUME NEW b \in Hubs, Crash(b) PROVE Delivered'
  <2>1. \A e \in Unsettled(b) : e <= produced
    BY DEF Unsettled
  <2> QED BY <1>6, <2>1 DEF Crash
<1>7. ASSUME NEW b \in Hubs, LoseChannel(b) PROVE Delivered'
  <2>1. \A e \in Unsettled(b) : e <= produced
    BY DEF Unsettled
  <2> QED BY <1>7, <2>1 DEF LoseChannel
<1>8. CASE UNCHANGED hubVars
  BY <1>8 DEF hubVars, control
<1> QED BY <1>2, <1>3, <1>4, <1>5, <1>6, <1>7, <1>8 DEF HubNext, Progress

(* The steps that leave the history and the pushes alone.                  *)
LEMMA OnlyPushes ==
    [HubNext]_hubVars =>
        UNCHANGED <<history, pushes>> \/ \E h \in Handlers : pc[h] = "push" /\ (Push(h) \/ PushFails(h)) /\ Pushed(ev[h])
BY DEF HubNext, Progress, Produce, Deliver, Mark, Check, Push, Undo, Relate, Publish, Complete, Ack, Reject,
   MarkFails, PushFails, CallFails, Crash, LoseChannel, hubVars, redis

(* Every step keeps the history to what was pushed.                        *)
LEMMA NextKept == HubState /\ Kept /\ [HubNext]_hubVars => Kept'
<1> SUFFICES ASSUME HubState, Kept, [HubNext]_hubVars PROVE Kept'
  OBVIOUS
<1>1. /\ history \in Seq(Events) /\ Len(history) \in Nat /\ (\A i \in 1 .. Len(history) : history[i] \in Events)
      /\ pushes \in [Events -> Nat] /\ QueueTypes
  BY DEF HubState, HubInv, HubTypes, QueueTypes
<1>2. failed \subseteq failed'
  BY <1>1, FailuresStay
<1>3. CASE UNCHANGED <<history, pushes>>
  BY <1>2, <1>3 DEF Kept
<1>4. ASSUME NEW h \in Handlers, pc[h] = "push", Push(h) \/ PushFails(h), Pushed(ev[h]) PROVE Kept'
  <2>1. ev[h] \in Events
    BY <1>4 DEF HubState, HubInv, Announcing
  <2>2. /\ Len(history') \in Nat /\ Len(history') <= Len(history) + 1
        /\ \A i \in 1 .. Len(history') : history'[i] = IF i = 1 THEN ev[h] ELSE history[i - 1]
    BY <1>1, <1>4, <2>1, PushedHistory
  <2>3. pushes' = [pushes EXCEPT ![ev[h]] = @ + 1]
    BY <1>4 DEF Pushed
  <2>4. \A i \in 1 .. Len(history') : i # 1 => i - 1 \in 1 .. Len(history) /\ history'[i] = history[i - 1]
    BY <1>1, <2>2
  <2>5. \A i \in 1 .. Len(history') : history'[i] \in Events /\ pushes'[history'[i]] > 0
    <3> SUFFICES ASSUME NEW i \in 1 .. Len(history') PROVE history'[i] \in Events /\ pushes'[history'[i]] > 0
      OBVIOUS
    <3>1. CASE i = 1
      BY <1>1, <2>1, <2>2, <2>3, <3>1
    <3>2. CASE i # 1
      <4>1. history'[i] \in Events /\ pushes[history'[i]] > 0
        BY <1>1, <2>4, <3>2 DEF Kept
      <4> QED BY <1>1, <2>1, <2>3, <4>1
    <3> QED BY <3>1, <3>2
  <2>6. ASSUME "push" \notin failed', NEW i \in 1 .. Len(history'), NEW j \in 1 .. Len(history'), i # j
        PROVE  history'[i] # history'[j]
    <3>1. "push" \notin failed
      BY <1>2, <2>6
    <3>2. pushes[ev[h]] = 0
      BY <1>4, <3>1 DEF HubState, HubInv, Storing
    <3>3. \A k \in 1 .. Len(history) : history[k] # ev[h]
      BY <1>1, <3>2 DEF Kept
    <3>4. CASE i = 1 \/ j = 1
      BY <2>2, <2>4, <2>6, <3>3, <3>4
    <3>5. CASE i # 1 /\ j # 1
      <4>1. i - 1 # j - 1 /\ i - 1 \in 1 .. Len(history) /\ j - 1 \in 1 .. Len(history)
        BY <2>4, <2>6, <3>5
      <4>2. history[i - 1] # history[j - 1]
        BY <3>1, <4>1 DEF Kept
      <4> QED BY <2>4, <3>5, <4>2
    <3> QED BY <3>4, <3>5
  <2> QED BY <2>5, <2>6 DEF Kept
<1> QED BY <1>3, <1>4, OnlyPushes

(* With one hub the lock has one holder, and the line is one.              *)
LEMMA OneHolder ==
    ASSUME HubState, OneHub
    PROVE  /\ \A g, h \in Handlers : HubOf[g] = HubOf[h] /\ (Holds(g) /\ Holds(h) => g = h)
           /\ \A b \in Hubs : \A h \in Handlers : HubOf[h] = b
           /\ \A g, h \in Handlers : pc[g] \in HoldsLock /\ Holds(h) => g = h
<1>1. HubOf \in [Handlers -> Hubs]
  BY HubAssumption
<1> QED BY <1>1 DEF OneHub, Holds, HubState, InLine

(* No call fails in a step after which none has failed.                    *)
LEMMA CalmSteps ==
    ASSUME HubState, MarkedInOrder, [HubNext]_hubVars, failed' = {}
    PROVE  /\ failed = {} /\ \A h \in Handlers : pc[h] \notin {"undo", "reject"}
           /\ \/ Produce \/ UNCHANGED hubVars \/ \E b \in Hubs : Crash(b) \/ LoseChannel(b)
              \/ \E h \in Handlers : Deliver(h) \/ Mark(h) \/ Check(h) \/ Push(h) \/ Relate(h) \/ Publish(h) \/ Complete(h) \/ Ack(h)
<1>1. failed = {}
  BY FailuresStay DEF HubState
<1>2. \A h \in Handlers : pc[h] \notin {"undo", "reject"}
  BY <1>1 DEF MarkedInOrder
<1>3. \A h \in Handlers : ~Fails(h)
  BY DEF Fails
<1> QED BY <1>1, <1>2, <1>3 DEF HubNext, Progress, MarkFails, PushFails, CallFails, Undo, Reject

(* Whoever is in line has the unmarked earlier events before it.           *)
Ahead(line, of, mark) ==
    \A i \in 1 .. Len(line) : \A e \in Usable :
        e < of[line[i]] => mark[e] # "absent" \/ \E j \in 1 .. i - 1 : of[line[j]] = e

(* The order of a line does not depend on markers set or on others.        *)
LEMMA AheadStays ==
    ASSUME NEW line, NEW of, NEW of2, NEW mark, NEW mark2, Ahead(line, of, mark),
           \A i \in 1 .. Len(line) : of2[line[i]] = of[line[i]], Len(line) \in Nat,
           \A e \in Usable : mark[e] # "absent" => mark2[e] # "absent"
    PROVE  Ahead(line, of2, mark2)
<1> SUFFICES ASSUME NEW i \in 1 .. Len(line), NEW e \in Usable, e < of2[line[i]], mark2[e] = "absent"
             PROVE  \E j \in 1 .. i - 1 : of2[line[j]] = e
  BY DEF Ahead
<1>1. PICK j \in 1 .. i - 1 : of[line[j]] = e
  BY DEF Ahead
<1>2. j \in 1 .. Len(line)
  OBVIOUS
<1> QED BY <1>1, <1>2

(* Every step keeps the order of the markers.                              *)
LEMMA NextMarkedInOrder == OneHub /\ HubState /\ MarkedInOrder /\ [HubNext]_hubVars => MarkedInOrder'
<1> SUFFICES ASSUME OneHub, HubState, MarkedInOrder, [HubNext]_hubVars, failed' = {} PROVE MarkedInOrder'
  BY DEF MarkedInOrder
<1>1. /\ HubTypes /\ QueueTypes /\ InLine /\ Delivered /\ HubOf \in [Handlers -> Hubs]
      /\ \A h \in Handlers : pc[h] # "idle" => ev[h] \in Events
  BY HubAssumption DEF HubState, HubInv, Announcing
<1>2. failed = {} /\ \A h \in Handlers : pc[h] \notin {"undo", "reject"}
  BY CalmSteps
<1>3. /\ \A h \in Handlers : pc[h] \in HoldsLock => marker[ev[h]] # "absent"
      /\ \A x \in Events, e \in Usable : e < x /\ marker[x] # "absent" => marker[e] # "absent"
      /\ \A b \in Hubs : Ahead(lockq[b], ev, marker)
      /\ \A e \in Usable : e <= produced /\ marker[e] = "absent" =>
            e \in queue \/ \E h \in Handlers \ stale : ev[h] = e /\ pc[h] = "mark"
  BY <1>2 DEF MarkedInOrder, Ahead
<1>4. \A b \in Hubs : lockq[b] \in Seq(Handlers) /\ Len(lockq[b]) \in Nat
                      /\ \A i \in 1 .. Len(lockq[b]) : lockq[b][i] \in Handlers /\ pc[lockq[b][i]] \in Locked
  BY <1>1 DEF QueueTypes, InLine, LineOf
<1>5. (\A e \in Usable : e \in Events) /\ \A e \in Events : e \in Nat
  BY HubAssumption DEF Usable, Events
<1>6. ASSUME \A h \in Handlers : pc'[h] \notin {"undo", "reject"},
             \A h \in Handlers : pc'[h] \in HoldsLock => marker'[ev'[h]] # "absent",
             \A x \in Events, e \in Usable : e < x /\ marker'[x] # "absent" => marker'[e] # "absent",
             \A b \in Hubs : Ahead(lockq'[b], ev', marker'),
             \A e \in Usable : e <= produced' /\ marker'[e] = "absent" =>
                e \in queue' \/ \E h \in Handlers \ stale' : ev'[h] = e /\ pc'[h] = "mark"
      PROVE  MarkedInOrder'
  BY <1>6 DEF MarkedInOrder, Ahead
<1>7. CASE Produce
  <2>1. produced' = produced + 1 /\ queue' = queue \cup {produced + 1} /\ UNCHANGED <<pc, ev, stale, marker, lockq>>
    BY <1>7 DEF Produce, control, redis
  <2>2. \A e \in Usable : e <= produced + 1 /\ marker[e] = "absent" =>
            e \in queue' \/ \E h \in Handlers \ stale : ev[h] = e /\ pc[h] = "mark"
    <3>1. produced \in Nat /\ \A e \in Usable : e <= produced + 1 => e <= produced \/ e = produced + 1
      BY <1>1, <1>5, HubAssumption DEF HubTypes
    <3> QED BY <1>3, <2>1, <3>1
  <2> QED BY <1>2, <1>3, <1>6, <2>1, <2>2
<1>8. ASSUME NEW h \in Handlers, Deliver(h) PROVE MarkedInOrder'
  <2>1. PICK e \in queue :
            /\ \A o \in queue : e <= o
            /\ queue' = queue \ {e} /\ ev' = [ev EXCEPT ![h] = e]
            /\ IF e \in Unusable THEN pc' = [pc EXCEPT ![h] = "ack"] /\ lockq' = lockq
               ELSE pc' = [pc EXCEPT ![h] = "mark"] /\ lockq' = [lockq EXCEPT ![HubOf[h]] = Append(@, h)]
    BY <1>8 DEF Deliver, Goto
  <2>2. pc[h] = "idle" /\ h \notin stale /\ UNCHANGED <<produced, stale, marker>>
    BY <1>1, <1>8 DEF Deliver, redis, Delivered
  <2>3. e \in Events /\ e <= produced
    BY <1>1 DEF HubTypes, Delivered
  <2>4. /\ \A g \in Handlers \ {h} : ev'[g] = ev[g] /\ pc'[g] = pc[g]
        /\ ev'[h] = e /\ pc'[h] \in {"ack", "mark"}
    BY <1>1, <2>1 DEF HubTypes
  <2>5. \A b \in Hubs : \A i \in 1 .. Len(lockq[b]) : lockq[b][i] \in Handlers \ {h}
    BY <1>4, <2>2 DEF Locked
  <2>6. \A b \in Hubs : Ahead(lockq[b], ev', marker')
    BY <1>3, <1>4, <2>2, <2>4, <2>5, AheadStays
  <2>7. \A b \in Hubs : Ahead(lockq'[b], ev', marker')
    <3>1. CASE e \in Unusable
      BY <2>1, <2>6, <3>1
    <3>2. CASE e \notin Unusable
      <4> SUFFICES ASSUME NEW b \in Hubs PROVE Ahead(lockq'[b], ev', marker')
        OBVIOUS
      <4> DEFINE n == Len(lockq[b])
      <4>1. HubOf[h] = b /\ lockq' = [lockq EXCEPT ![HubOf[h]] = Append(@, h)]
        BY <2>1, <3>2, OneHolder
      <4>2. lockq'[b] = Append(lockq[b], h)
        BY <1>1, <4>1 DEF QueueTypes
      <4>3. n \in Nat /\ Len(lockq'[b]) = n + 1 /\ (\A i \in 1 .. n : lockq'[b][i] = lockq[b][i]) /\ lockq'[b][n + 1] = h
        BY <1>4, <4>2
      <4>4. ASSUME NEW o \in Usable, o < e, marker[o] = "absent" PROVE \E j \in 1 .. n : ev'[lockq'[b][j]] = o
        <5>1. o <= produced
          BY <1>1, <1>5, <2>3, <4>4, HubAssumption DEF HubTypes
        <5>2. o \notin queue
          BY <1>5, <2>1, <2>3, <4>4
        <5>3. PICK g \in Handlers : ev[g] = o /\ pc[g] = "mark"
          BY <1>3, <4>4, <5>1, <5>2
        <5>4. HubOf[g] = b
          BY OneHolder
        <5>5. PICK j \in 1 .. n : lockq[b][j] = g
          BY <1>1, <5>3, <5>4 DEF InLine, Locked
        <5>6. g # h /\ lockq'[b][j] = g
          BY <2>2, <4>3, <5>3, <5>5
        <5> QED BY <2>4, <5>3, <5>5, <5>6
      <4> HIDE DEF n
      <4> SUFFICES ASSUME NEW i \in 1 .. n + 1, NEW o \in Usable, o < ev'[lockq'[b][i]], marker'[o] = "absent"
                   PROVE  \E j \in 1 .. i - 1 : ev'[lockq'[b][j]] = o
        BY <4>3 DEF Ahead
      <4>5. CASE i = n + 1
        <5>1. ev'[lockq'[b][i]] = e /\ i - 1 = n
          BY <2>4, <4>3, <4>5
        <5> QED BY <2>2, <4>4, <5>1
      <4>6. CASE i \in 1 .. n
        <5>1. lockq'[b][i] = lockq[b][i] /\ i \in 1 .. Len(lockq[b])
          BY <4>3, <4>6 DEF n
        <5>2. PICK j \in 1 .. i - 1 : ev'[lockq[b][j]] = o
          BY <2>6, <5>1 DEF Ahead
        <5>3. j \in 1 .. n
          BY <4>3, <4>6
        <5> QED BY <4>3, <5>2, <5>3
      <4> QED BY <4>3, <4>5, <4>6
    <3> QED BY <3>1, <3>2
  <2>8. ASSUME NEW o \in Usable, o <= produced', marker'[o] = "absent"
        PROVE  o \in queue' \/ \E g \in Handlers \ stale' : ev'[g] = o /\ pc'[g] = "mark"
    <3>1. CASE o = e
      <4>1. e \notin Unusable
        BY <2>8, <3>1 DEF Usable
      <4>2. pc' = [pc EXCEPT ![h] = "mark"]
        BY <2>1, <4>1
      <4>3. pc'[h] = "mark" /\ h \in Handlers \ stale'
        BY <1>1, <2>2, <4>2 DEF HubTypes
      <4> QED BY <2>4, <3>1, <4>3
    <3>2. CASE o # e /\ o \in queue
      BY <2>1, <3>2
    <3>3. ASSUME NEW g \in Handlers \ stale, ev[g] = o, pc[g] = "mark" PROVE \E k \in Handlers \ stale' : ev'[k] = o /\ pc'[k] = "mark"
      BY <2>2, <2>4, <3>3
    <3> QED BY <1>3, <2>2, <2>8, <3>1, <3>2, <3>3
  <2>9. /\ \A g \in Handlers : pc'[g] \notin {"undo", "reject"}
        /\ \A g \in Handlers : pc'[g] \in HoldsLock => marker'[ev'[g]] # "absent"
        /\ \A x \in Events, o \in Usable : o < x /\ marker'[x] # "absent" => marker'[o] # "absent"
    BY <1>2, <1>3, <2>2, <2>4 DEF HoldsLock, Locked
  <2> QED BY <1>6, <2>7, <2>8, <2>9
<1>9. ASSUME NEW h \in Handlers, Mark(h) PROVE MarkedInOrder'
  <2>1. /\ pc[h] = "mark" /\ Holds(h) /\ ev[h] \in Usable /\ ev[h] \in Events
        /\ UNCHANGED <<produced, queue, lockq, ev, stale>>
    BY <1>1, <1>5, <1>9 DEF Mark, Delivered, Locked
  <2>2. /\ \A g \in Handlers \ {h} : pc'[g] = pc[g]
        /\ pc'[h] \in {"push", "check"} /\ marker'[ev[h]] # "absent"
        /\ \A e \in Events \ {ev[h]} : marker'[e] = marker[e]
    BY <1>1, <1>9, <2>1 DEF Mark, Goto, HubTypes
  <2>3. \A e \in Events : marker[e] # "absent" => marker'[e] # "absent"
    BY <2>1, <2>2
  <2>4. \A b \in Hubs : Ahead(lockq'[b], ev', marker')
    BY <1>3, <1>4, <1>5, <2>1, <2>3, AheadStays
  <2>5. \A e \in Usable : e < ev[h] => marker[e] # "absent"
    <3>1. HubOf[h] \in Hubs /\ Len(lockq[HubOf[h]]) > 0 /\ lockq[HubOf[h]][1] = h
      BY <1>1, <1>4, <2>1 DEF Holds
    <3>2. 1 \in 1 .. Len(lockq[HubOf[h]]) /\ (1 .. 1 - 1) = {}
      BY <1>4, <3>1
    <3> QED BY <1>3, <3>1, <3>2 DEF Ahead
  <2>6. \A x \in Events, e \in Usable : e < x /\ marker'[x] # "absent" => marker'[e] # "absent"
    <3> SUFFICES ASSUME NEW x \in Events, NEW e \in Usable, e < x, marker'[x] # "absent" PROVE marker'[e] # "absent"
      OBVIOUS
    <3>1. CASE x = ev[h]
      BY <1>5, <2>3, <2>5, <3>1
    <3>2. CASE x # ev[h]
      BY <1>3, <1>5, <2>2, <2>3, <3>2
    <3> QED BY <3>1, <3>2
  <2>7. \A e \in Usable : e <= produced' /\ marker'[e] = "absent" =>
            e \in queue' \/ \E g \in Handlers \ stale' : ev'[g] = e /\ pc'[g] = "mark"
    <3> SUFFICES ASSUME NEW e \in Usable, e <= produced, marker'[e] = "absent", e \notin queue
                 PROVE  \E g \in Handlers \ stale' : ev'[g] = e /\ pc'[g] = "mark"
      BY <2>1
    <3>1. e # ev[h] /\ marker[e] = "absent"
      BY <1>5, <2>2
    <3>2. PICK g \in Handlers \ stale : ev[g] = e /\ pc[g] = "mark"
      BY <1>3, <3>1
    <3> QED BY <2>1, <2>2, <3>1, <3>2
  <2>8. /\ \A g \in Handlers : pc'[g] \notin {"undo", "reject"}
        /\ \A g \in Handlers : pc'[g] \in HoldsLock => marker'[ev'[g]] # "absent"
    <3>1. \A g \in Handlers : pc[g] \in HoldsLock => ev[g] \in Events
      BY <1>1 DEF HoldsLock, Locked
    <3> QED BY <1>2, <1>3, <2>1, <2>2, <2>3, <3>1
  <2> QED BY <1>6, <2>4, <2>6, <2>7, <2>8
<1>10. ASSUME NEW h \in Handlers, LeavesLine(h), pc[h] \in {"check", "complete"}, pc' = [pc EXCEPT ![h] = "ack"],
              UNCHANGED <<produced, queue, ev, stale>>, \A e \in Events : marker'[e] = "absent" <=> marker[e] = "absent"
       PROVE  MarkedInOrder'
  <2>1. \A b \in Hubs : Ahead(lockq'[b], ev', marker')
    <3> SUFFICES ASSUME NEW b \in Hubs PROVE Ahead(lockq'[b], ev', marker')
      OBVIOUS
    <3> DEFINE n == Len(lockq[b])
    <3>1. HubOf[h] = b
      BY OneHolder
    <3>2. /\ lockq[b][1] = h /\ n \in Nat \ {0} /\ Len(lockq'[b]) = n - 1
          /\ \A i \in 1 .. n - 1 : lockq'[b][i] = lockq[b][i + 1]
      BY <1>10, <3>1, UnlockFacts DEF LeavesLine
    <3>3. marker[ev[h]] # "absent"
      BY <1>3, <1>10 DEF HoldsLock, Locked
    <3> SUFFICES ASSUME NEW i \in 1 .. n - 1, NEW e \in Usable, e < ev[lockq'[b][i]], marker'[e] = "absent"
                 PROVE  \E j \in 1 .. i - 1 : ev[lockq'[b][j]] = e
      BY <1>10, <3>2 DEF Ahead
    <3>4. i + 1 \in 1 .. n /\ lockq'[b][i] = lockq[b][i + 1] /\ marker[e] = "absent"
      BY <1>5, <1>10, <3>2
    <3>5. PICK j \in 1 .. (i + 1) - 1 : ev[lockq[b][j]] = e
      BY <1>3, <3>4 DEF Ahead
    <3>6. j # 1
      BY <3>2, <3>3, <3>4, <3>5
    <3>7. j - 1 \in 1 .. i - 1 /\ j - 1 \in 1 .. n - 1 /\ (j - 1) + 1 = j
      BY <3>2, <3>5, <3>6
    <3>8. lockq'[b][j - 1] = lockq[b][j]
      BY <3>2, <3>7
    <3> QED BY <3>5, <3>7, <3>8
  <2>2. \A g \in Handlers \ {h} : pc'[g] = pc[g]
    BY <1>1, <1>10 DEF HubTypes
  <2>3. pc'[h] = "ack"
    BY <1>1, <1>10 DEF HubTypes
  <2>4. \A g \in Handlers : pc'[g] \in HoldsLock => marker'[ev'[g]] # "absent"
    BY <1>1, <1>3, <1>10, <2>2, <2>3 DEF HoldsLock, Locked
  <2>5. \A g \in Handlers : pc'[g] \notin {"undo", "reject"}
    BY <1>2, <2>2, <2>3
  <2>6. \A e \in Usable : e <= produced' /\ marker'[e] = "absent" =>
            e \in queue' \/ \E g \in Handlers \ stale' : ev'[g] = e /\ pc'[g] = "mark"
    BY <1>3, <1>5, <1>10, <2>2
  <2>7. \A x \in Events, e \in Usable : e < x /\ marker'[x] # "absent" => marker'[e] # "absent"
    BY <1>3, <1>5, <1>10
  <2> QED BY <1>6, <2>1, <2>4, <2>5, <2>6, <2>7
<1>11. ASSUME NEW h \in Handlers, Check(h) \/ Complete(h) PROVE MarkedInOrder'
  <2>1. pc[h] \in HoldsLock /\ Holds(h) /\ ev[h] \in Events
    BY <1>1, <1>11 DEF Check, Complete, InLine, HoldsLock, Locked
  <2>2. UNCHANGED <<produced, queue, ev, stale>> /\ \A e \in Events : marker'[e] = "absent" <=> marker[e] = "absent"
    BY <1>1, <1>3, <1>11, <2>1 DEF Check, Complete, redis, HubTypes
  <2>3. CASE Check(h) /\ marker[ev[h]] # "complete"
    <3>1. pc' = [pc EXCEPT ![h] = "relate"] /\ lockq' = lockq /\ marker' = marker
      BY <2>3 DEF Check, Goto, redis
    <3>2. pc[h] = "check" /\ pc'[h] = "relate" /\ \A g \in Handlers \ {h} : pc'[g] = pc[g]
      BY <1>1, <2>3, <3>1 DEF Check, HubTypes
    <3> QED BY <1>2, <1>3, <1>6, <2>1, <2>2, <3>1, <3>2
  <2>4. CASE ~(Check(h) /\ marker[ev[h]] # "complete")
    <3>1. pc' = [pc EXCEPT ![h] = "ack"] /\ Unlock(h) /\ pc[h] \in {"check", "complete"}
      BY <1>11, <2>4 DEF Check, Complete, Leave, Goto
    <3> QED BY <1>10, <2>1, <2>2, <3>1 DEF LeavesLine
  <2> QED BY <2>3, <2>4
<1>12. ASSUME NEW h \in Handlers, Push(h) \/ Relate(h) \/ Publish(h) PROVE MarkedInOrder'
  <2>1. pc[h] \in HoldsLock /\ UNCHANGED <<produced, queue, lockq, ev, stale, marker>>
    BY <1>12 DEF Push, Relate, Publish, HoldsLock, Locked
  <2>2. pc'[h] \in {"relate", "publish", "complete"} /\ pc[h] # "mark" /\ \A g \in Handlers \ {h} : pc'[g] = pc[g]
    BY <1>1, <1>12 DEF Push, Relate, Publish, Goto, HubTypes
  <2> QED BY <1>2, <1>3, <1>6, <2>1, <2>2
<1>13. ASSUME NEW h \in Handlers, Ack(h) PROVE MarkedInOrder'
  <2>1. pc[h] = "ack" /\ UNCHANGED <<produced, queue, lockq, marker>> /\ stale' = stale \ {h}
    BY <1>13 DEF Ack, Free, redis
  <2>2. pc'[h] = "idle" /\ \A g \in Handlers \ {h} : pc'[g] = pc[g] /\ ev'[g] = ev[g]
    BY <1>1, <1>13 DEF Ack, Free, Goto, HubTypes
  <2>3. \A b \in Hubs : \A i \in 1 .. Len(lockq[b]) : lockq[b][i] \in Handlers \ {h}
    BY <1>4, <2>1 DEF Locked
  <2>4. \A b \in Hubs : Ahead(lockq'[b], ev', marker')
    BY <1>3, <1>4, <2>1, <2>2, <2>3, AheadStays
  <2>5. \A g \in Handlers : pc'[g] \in HoldsLock => marker'[ev'[g]] # "absent"
    BY <1>3, <2>1, <2>2 DEF HoldsLock, Locked
  <2> QED BY <1>2, <1>3, <1>6, <2>1, <2>2, <2>4, <2>5
<1>14. ASSUME NEW b \in Hubs, Crash(b) PROVE MarkedInOrder'
  <2>1. \A h \in Handlers : HubOf[h] = b /\ \A a \in Hubs : a = b
    BY OneHolder DEF OneHub
  <2>2. (\A h \in Handlers : pc'[h] = "idle") /\ lockq'[b] = <<>> /\ marker' = marker /\ produced' = produced
    BY <1>1, <1>14, <2>1 DEF Crash, QueueTypes, redis
  <2>3. \A a \in Hubs : Ahead(lockq'[a], ev', marker')
    <3>1. \A a \in Hubs : Len(lockq'[a]) = 0
      BY <2>1, <2>2, OneHub DEF OneHub
    <3> QED BY <3>1 DEF Ahead
  <2>4. \A e \in Usable : e <= produced /\ marker[e] = "absent" => e \in queue'
    <3>1. queue' = queue \cup Unsettled(b)
      BY <1>14 DEF Crash
    <3>2. \A h \in Handlers \ stale : pc[h] = "mark" => ev[h] \in Unsettled(b)
      BY <2>1 DEF Unsettled
    <3> QED BY <1>3, <3>1, <3>2
  <2> QED BY <1>3, <1>6, <2>2, <2>3, <2>4 DEF HoldsLock, Locked
<1>15. ASSUME NEW b \in Hubs, LoseChannel(b) PROVE MarkedInOrder'
  <2>1. \A h \in Handlers : HubOf[h] = b
    BY OneHolder
  <2>2. UNCHANGED <<produced, lockq, pc, ev, marker>>
    BY <1>15 DEF LoseChannel, redis
  <2>3. \A e \in Usable : e <= produced /\ marker[e] = "absent" => e \in queue'
    <3>1. queue' = queue \cup Unsettled(b)
      BY <1>15 DEF LoseChannel
    <3>2. \A h \in Handlers \ stale : pc[h] = "mark" => ev[h] \in Unsettled(b)
      BY <2>1 DEF Unsettled
    <3> QED BY <1>3, <3>1, <3>2
  <2> QED BY <1>2, <1>3, <1>6, <2>2, <2>3
<1>16. CASE UNCHANGED hubVars
  BY <1>2, <1>3, <1>6, <1>16 DEF hubVars, control, redis
<1> QED BY <1>7, <1>8, <1>9, <1>11, <1>12, <1>13, <1>14, <1>15, <1>16, CalmSteps

(* In such a step markers stay, and only a marker that was absent leads to *)
(* a push.                                                                 *)
LEMMA CalmMarkers ==
    ASSUME HubState, MarkedInOrder, [HubNext]_hubVars, failed' = {}
    PROVE  /\ \A e \in Events : marker[e] # "absent" => marker'[e] # "absent"
           /\ \A g \in Handlers : pc'[g] = "push" =>
                 ev'[g] = ev[g] /\ (pc[g] = "push" \/ (Mark(g) /\ marker[ev[g]] = "absent"))
<1>1. HubTypes
  BY DEF HubState, HubInv
<1> USE <1>1 DEF HubTypes, Goto, Leave
<1>2. CASE Produce \/ UNCHANGED hubVars \/ \E b \in Hubs : LoseChannel(b)
  BY <1>2 DEF Produce, LoseChannel, hubVars, control, redis
<1>3. ASSUME NEW b \in Hubs, Crash(b)
      PROVE  marker' = marker /\ \A g \in Handlers : pc'[g] = "push" => ev'[g] = ev[g] /\ pc[g] = "push"
  BY <1>3 DEF Crash, redis
<1>4. ASSUME NEW h \in Handlers, Deliver(h) \/ Ack(h)
      PROVE  marker' = marker /\ \A g \in Handlers : pc'[g] = "push" => ev'[g] = ev[g] /\ pc[g] = "push"
  BY <1>4 DEF Deliver, Ack, Free, redis
<1>5. ASSUME NEW h \in Handlers, Check(h) \/ Push(h) \/ Relate(h) \/ Publish(h)
      PROVE  marker' = marker /\ \A g \in Handlers : pc'[g] = "push" => ev'[g] = ev[g] /\ pc[g] = "push"
  BY <1>5 DEF Check, Push, Relate, Publish, redis
<1>6. ASSUME NEW h \in Handlers, Complete(h)
      PROVE  /\ \A e \in Events : marker[e] # "absent" => marker'[e] # "absent"
             /\ \A g \in Handlers : pc'[g] = "push" => ev'[g] = ev[g] /\ pc[g] = "push"
  BY <1>6 DEF Complete
<1>7. ASSUME NEW h \in Handlers, Mark(h)
      PROVE  /\ \A e \in Events : marker[e] # "absent" => marker'[e] # "absent"
             /\ \A g \in Handlers : pc'[g] = "push" =>
                   ev'[g] = ev[g] /\ (pc[g] = "push" \/ (Mark(g) /\ marker[ev[g]] = "absent"))
  <2>1. \A e \in Events : marker[e] # "absent" => marker'[e] # "absent"
    BY <1>7 DEF Mark
  <2>2. ev' = ev /\ \A g \in Handlers \ {h} : pc'[g] = pc[g]
    BY <1>7 DEF Mark
  <2>3. pc'[h] = "push" => marker[ev[h]] = "absent"
    BY <1>7 DEF Mark
  <2> QED BY <1>7, <2>1, <2>2, <2>3
<1> QED BY <1>2, <1>3, <1>4, <1>5, <1>6, <1>7, CalmSteps

(* Every step keeps the order of the history.                              *)
LEMMA NextPushedInOrder ==
    OneHub /\ HubState /\ MarkedInOrder /\ PushedInOrder /\ [HubNext]_hubVars => PushedInOrder'
<1> SUFFICES ASSUME OneHub, HubState, MarkedInOrder, PushedInOrder, [HubNext]_hubVars, failed' = {} PROVE PushedInOrder'
  BY DEF PushedInOrder
<1>1. /\ HubTypes /\ QueueTypes /\ Len(history) \in Nat /\ \A i \in 1 .. Len(history) : history[i] \in Events
      /\ \A h \in Handlers : pc[h] # "idle" => ev[h] \in Events
  BY DEF HubState, HubInv, QueueTypes, Announcing
<1>2. failed = {}
  BY CalmSteps
<1>3. /\ \A i \in 1 .. Len(history) : marker[history[i]] # "absent"
      /\ \A h \in Handlers : pc[h] = "push" => \A i \in 1 .. Len(history) : history[i] < ev[h]
      /\ \A i, j \in 1 .. Len(history) : i < j => history[i] >= history[j]
  BY <1>2 DEF PushedInOrder
<1>4. \A e \in Events : e \in Nat
  BY HubAssumption DEF Events
<1>5. CASE UNCHANGED <<history, pushes>>
  <2>1. ASSUME NEW g \in Handlers, Mark(g), marker[ev[g]] = "absent", NEW i \in 1 .. Len(history) PROVE history[i] < ev[g]
    <3>1. ev[g] \in Usable /\ ev[g] \in Events
      BY <1>1, <2>1 DEF Mark, HubState, Delivered, Locked
    <3>2. ~(ev[g] < history[i])
      BY <1>1, <1>2, <1>3, <2>1, <3>1 DEF MarkedInOrder
    <3>3. ev[g] # history[i]
      BY <1>3, <2>1
    <3> QED BY <1>1, <1>4, <3>1, <3>2, <3>3
  <2>2. \A g \in Handlers : pc'[g] = "push" => \A i \in 1 .. Len(history) : history[i] < ev'[g]
    BY <1>3, <2>1, CalmMarkers
  <2>3. \A i \in 1 .. Len(history) : marker'[history[i]] # "absent"
    BY <1>1, <1>3, CalmMarkers
  <2> QED BY <1>3, <1>5, <2>2, <2>3 DEF PushedInOrder
<1>6. ASSUME NEW h \in Handlers, pc[h] = "push", Push(h) \/ PushFails(h), Pushed(ev[h]) PROVE PushedInOrder'
  <2>1. ev[h] \in Events /\ Push(h)
    BY <1>1, <1>6 DEF PushFails, Fails
  <2>2. /\ Len(history') \in Nat /\ Len(history') <= Len(history) + 1
        /\ \A i \in 1 .. Len(history') : history'[i] = IF i = 1 THEN ev[h] ELSE history[i - 1]
    BY <1>1, <1>6, <2>1, PushedHistory
  <2>3. \A i \in 1 .. Len(history') : i # 1 => i - 1 \in 1 .. Len(history) /\ history'[i] = history[i - 1]
    BY <1>1, <2>2
  <2>4. marker' = marker /\ ev' = ev /\ pc' = [pc EXCEPT ![h] = "relate"]
    BY <2>1 DEF Push, Goto
  <2>5. \A i \in 1 .. Len(history') : marker'[history'[i]] # "absent"
    <3>1. marker[ev[h]] # "absent"
      BY <1>2, <1>6 DEF MarkedInOrder, HoldsLock, Locked
    <3> QED BY <1>3, <2>2, <2>3, <2>4, <3>1
  <2>6. \A g \in Handlers : pc'[g] # "push"
    <3>1. \A g \in Handlers : pc[g] = "push" => g = h
      BY <1>6, OneHolder DEF HubState, InLine, HoldsLock, Locked
    <3> QED BY <1>1, <2>4, <3>1 DEF HubTypes
  <2>7. ASSUME NEW i \in 1 .. Len(history'), NEW j \in 1 .. Len(history'), i < j PROVE history'[i] >= history'[j]
    <3>1. j # 1 /\ j - 1 \in 1 .. Len(history) /\ history'[j] = history[j - 1] /\ history[j - 1] \in Nat
      BY <1>1, <1>4, <2>2, <2>3, <2>7
    <3>2. CASE i = 1
      BY <1>3, <1>4, <1>6, <2>1, <2>2, <3>1, <3>2
    <3>3. CASE i # 1
      <4>1. i - 1 \in 1 .. Len(history) /\ history'[i] = history[i - 1] /\ i - 1 < j - 1
        BY <2>2, <2>3, <2>7, <3>3
      <4> QED BY <1>3, <3>1, <4>1
    <3> QED BY <3>2, <3>3
  <2> QED BY <2>5, <2>6, <2>7 DEF PushedInOrder
<1> QED BY <1>5, <1>6, OnlyPushes

(* A push only adds.                                                       *)
LEMMA PushesGrow ==
    ASSUME HubState, [HubNext]_hubVars
    PROVE  \A e \in Events : pushes[e] > 0 => pushes'[e] > 0
<1>1. pushes \in [Events -> Nat] /\ \A h \in Handlers : pc[h] = "push" => ev[h] \in Events
  BY DEF HubState, HubInv, HubTypes, Announcing
<1>2. ASSUME NEW h \in Handlers, pc[h] = "push", Pushed(ev[h]), NEW e \in Events, pushes[e] > 0 PROVE pushes'[e] > 0
  <2>1. pushes' = [pushes EXCEPT ![ev[h]] = @ + 1] /\ ev[h] \in Events /\ pushes[e] \in Nat
    BY <1>1, <1>2 DEF Pushed
  <2>2. CASE e = ev[h]
    BY <1>1, <2>1, <2>2
  <2>3. CASE e # ev[h]
    BY <1>1, <1>2, <2>1, <2>3
  <2> QED BY <2>2, <2>3
<1> QED BY <1>2, OnlyPushes

(* Every step keeps the markers backed by stored events.                   *)
LEMMA NextBacked == OneHub /\ HubState /\ Backed /\ [HubNext]_hubVars => Backed'
<1> SUFFICES ASSUME OneHub, HubState, Backed, [HubNext]_hubVars, MarkersReliable' PROVE Backed'
  BY DEF Backed
<1>1. /\ HubTypes /\ QueueTypes /\ InLine'
      /\ \A h \in Handlers : pc[h] # "idle" => ev[h] \in Events
      /\ failed \subseteq failed' /\ crashes' = 0 /\ crashes = 0
  BY NextInLine, FailuresStay DEF HubState, HubInv, Announcing, MarkersReliable
<1>2. MarkersReliable
  BY <1>1 DEF MarkersReliable
<1>3. /\ \A e \in Events : marker[e] # "absent" =>
             pushes[e] > 0 \/ \E h \in Handlers : Holds(h) /\ ev[h] = e /\ pc[h] \in {"push", "undo"}
      /\ \A h \in Handlers : pc[h] \in {"check", "relate", "publish", "complete"} => pushes[ev[h]] > 0
      /\ \A h \in Handlers : pc[h] = "ack" => ev[h] \in Unusable \/ pushes[ev[h]] > 0
      /\ \A e \in acked \ Unusable : pushes[e] > 0
  BY <1>2 DEF Backed
<1>4. ASSUME \A e \in Events : marker'[e] # "absent" =>
                pushes'[e] > 0 \/ \E h \in Handlers : ev'[h] = e /\ pc'[h] \in {"push", "undo"},
             \A h \in Handlers : pc'[h] \in {"check", "relate", "publish", "complete"} => pushes'[ev'[h]] > 0,
             \A h \in Handlers : pc'[h] = "ack" => ev'[h] \in Unusable \/ pushes'[ev'[h]] > 0,
             \A e \in acked' \ Unusable : pushes'[e] > 0
      PROVE  Backed'
  <2>1. \A h \in Handlers : pc'[h] \in {"push", "undo"} => Holds(h)'
    BY <1>1 DEF InLine, HoldsLock, Locked
  <2> QED BY <1>4, <2>1 DEF Backed
<1>5. acked \subseteq Events /\ \A e \in Events : pushes[e] > 0 => pushes'[e] > 0
  BY <1>1, PushesGrow DEF QueueTypes
<1>6. ASSUME NEW h \in Handlers, pc[h] \notin {"push", "undo"}, UNCHANGED <<pushes, marker>>,
             pc'[h] \notin {"check", "relate", "publish", "complete"},
             pc'[h] = "ack" => ev'[h] \in Unusable \/ pushes[ev'[h]] > 0,
             \A g \in Handlers \ {h} : pc'[g] = pc[g] /\ ev'[g] = ev[g],
             \A e \in acked' \ Unusable : pushes[e] > 0
      PROVE  Backed'
  BY <1>3, <1>4, <1>6
<1>7. CASE Produce \/ UNCHANGED hubVars \/ \E b \in Hubs : LoseChannel(b)
  <2>1. UNCHANGED <<pc, ev, marker, pushes, acked>>
    BY <1>7 DEF Produce, LoseChannel, hubVars, control, redis
  <2> QED BY <1>3, <1>4, <2>1
<1>8. ASSUME NEW h \in Handlers, Deliver(h) PROVE Backed'
  <2>1. PICK e \in queue : /\ ev' = [ev EXCEPT ![h] = e]
                           /\ pc' = [pc EXCEPT ![h] = IF e \in Unusable THEN "ack" ELSE "mark"]
    BY <1>8 DEF Deliver, Goto
  <2>2. /\ pc'[h] = (IF e \in Unusable THEN "ack" ELSE "mark") /\ ev'[h] = e
        /\ \A g \in Handlers \ {h} : pc'[g] = pc[g] /\ ev'[g] = ev[g]
    BY <1>1, <2>1 DEF HubTypes
  <2>3. pc[h] = "idle" /\ UNCHANGED <<pushes, marker, acked>>
    BY <1>8 DEF Deliver, redis
  <2> QED BY <1>3, <1>6, <2>2, <2>3
<1>9. ASSUME NEW h \in Handlers, Mark(h) PROVE Backed'
  <2>1. /\ pc[h] = "mark" /\ Holds(h) /\ ev[h] \in Events /\ UNCHANGED <<ev, pushes, acked>>
        /\ \A g \in Handlers \ {h} : pc'[g] = pc[g]
    BY <1>1, <1>9 DEF Mark, Goto, HubTypes
  <2>2. CASE marker[ev[h]] = "absent"
    <3>1. pc'[h] = "push" /\ \A e \in Events \ {ev[h]} : marker'[e] = marker[e]
      BY <1>1, <1>9, <2>1, <2>2 DEF Mark, Goto, HubTypes
    <3>2. \A e \in Events : marker'[e] # "absent" =>
              pushes'[e] > 0 \/ \E g \in Handlers : ev'[g] = e /\ pc'[g] \in {"push", "undo"}
      BY <1>3, <2>1, <3>1
    <3> QED BY <1>3, <1>4, <2>1, <3>1, <3>2
  <2>3. CASE marker[ev[h]] # "absent"
    <3>1. pc'[h] = "check" /\ marker' = marker
      BY <1>1, <1>9, <2>3 DEF Mark, Goto, HubTypes
    <3>2. pushes[ev[h]] > 0
      BY <1>3, <2>1, <2>3, OneHolder
    <3>3. \A e \in Events : marker'[e] # "absent" =>
              pushes'[e] > 0 \/ \E g \in Handlers : ev'[g] = e /\ pc'[g] \in {"push", "undo"}
      BY <1>3, <2>1, <3>1
    <3> QED BY <1>3, <1>4, <2>1, <3>1, <3>2, <3>3
  <2> QED BY <2>2, <2>3
<1>10. ASSUME NEW h \in Handlers, Check(h) \/ Relate(h) \/ Publish(h) \/ Complete(h) PROVE Backed'
  <2>1. /\ pc[h] \in {"check", "relate", "publish", "complete"} /\ UNCHANGED <<ev, pushes, acked>>
        /\ \A g \in Handlers \ {h} : pc'[g] = pc[g]
        /\ pc'[h] \in {"relate", "publish", "complete", "ack"}
        /\ \A e \in Events \ {ev[h]} : marker'[e] = marker[e]
    BY <1>1, <1>10 DEF Check, Relate, Publish, Complete, Leave, Goto, redis, HubTypes
  <2>2. pushes[ev[h]] > 0
    BY <1>3, <2>1
  <2>3. \A e \in Events : marker'[e] # "absent" =>
            pushes'[e] > 0 \/ \E g \in Handlers : ev'[g] = e /\ pc'[g] \in {"push", "undo"}
    BY <1>3, <2>1, <2>2
  <2> QED BY <1>3, <1>4, <2>1, <2>2, <2>3
<1>11. ASSUME NEW h \in Handlers, Push(h) PROVE Backed'
  <2>1. /\ pc[h] = "push" /\ ev[h] \in Events /\ UNCHANGED <<ev, marker, acked>>
        /\ \A g \in Handlers \ {h} : pc'[g] = pc[g]
        /\ pc'[h] = "relate" /\ pushes' = [pushes EXCEPT ![ev[h]] = @ + 1]
    BY <1>1, <1>11 DEF Push, Pushed, Goto, HubTypes
  <2>2. pushes'[ev[h]] > 0
    BY <1>1, <2>1 DEF HubTypes
  <2>3. \A e \in Events : marker'[e] # "absent" =>
            pushes'[e] > 0 \/ \E g \in Handlers : ev'[g] = e /\ pc'[g] \in {"push", "undo"}
    BY <1>3, <1>5, <2>1, <2>2
  <2> QED BY <1>1, <1>3, <1>4, <1>5, <2>1, <2>2, <2>3
<1>12. ASSUME NEW h \in Handlers, PushFails(h) PROVE Backed'
  <2>1. /\ pc[h] = "push" /\ ev[h] \in Events /\ UNCHANGED <<ev, marker, acked>>
        /\ (\A g \in Handlers \ {h} : pc'[g] = pc[g]) /\ pc'[h] = "undo"
    BY <1>1, <1>12 DEF PushFails, Goto, HubTypes
  <2>2. \A e \in Events : marker'[e] # "absent" =>
            pushes'[e] > 0 \/ \E g \in Handlers : ev'[g] = e /\ pc'[g] \in {"push", "undo"}
    BY <1>3, <1>5, <2>1
  <2> QED BY <1>1, <1>3, <1>4, <1>5, <2>1, <2>2
<1>13. ASSUME NEW h \in Handlers, Undo(h) PROVE Backed'
  <2>1. /\ pc[h] = "undo" /\ ev[h] \in Events /\ UNCHANGED <<ev, pushes, acked>>
        /\ (\A g \in Handlers \ {h} : pc'[g] = pc[g]) /\ pc'[h] = "reject"
        /\ marker'[ev[h]] = "absent" /\ \A e \in Events \ {ev[h]} : marker'[e] = marker[e]
    BY <1>1, <1>13 DEF Undo, Leave, Goto, HubTypes
  <2>2. \A e \in Events : marker'[e] # "absent" =>
            pushes'[e] > 0 \/ \E g \in Handlers : ev'[g] = e /\ pc'[g] \in {"push", "undo"}
    BY <1>3, <2>1
  <2> QED BY <1>3, <1>4, <2>1, <2>2
<1>14. ASSUME NEW h \in Handlers, MarkFails(h) \/ CallFails(h) PROVE Backed'
  <2>1. pc[h] \in {"check", "relate", "publish", "complete"} /\ CallFails(h)
    BY <1>14 DEF MarkFails, CallFails, Fails, MarkersReliable
  <2> QED BY <1>1, <1>3, <1>6, <2>1 DEF CallFails, Leave, Goto, redis, HubTypes
<1>15. ASSUME NEW h \in Handlers, Ack(h) \/ Reject(h) PROVE Backed'
  <2>1. pc[h] \in {"ack", "reject"} /\ pc'[h] = "idle" /\ UNCHANGED <<pushes, marker>>
        /\ \A g \in Handlers \ {h} : pc'[g] = pc[g] /\ ev'[g] = ev[g]
    BY <1>1, <1>15 DEF Ack, Reject, Free, Goto, redis, HubTypes
  <2>2. \A e \in acked' \ Unusable : pushes[e] > 0
    BY <1>3, <1>15 DEF Ack, Reject
  <2> QED BY <1>6, <2>1, <2>2
<1>16. ASSUME NEW b \in Hubs, Crash(b) PROVE FALSE
  BY <1>1, <1>16 DEF Crash
<1> QED BY <1>7, <1>8, <1>9, <1>10, <1>11, <1>12, <1>13, <1>14, <1>15, <1>16 DEF HubNext, Progress

(* Every step keeps what is stored and announced without gaps.             *)
LEMMA NextConcluded ==
    OneHub /\ HubState /\ MarkedInOrder /\ Backed /\ Concluded /\ [HubNext]_hubVars => Concluded'
<1> SUFFICES ASSUME OneHub, HubState, MarkedInOrder, Backed, Concluded, [HubNext]_hubVars, Calm' PROVE Concluded'
  BY DEF Concluded
<1>1. /\ HubTypes /\ QueueTypes /\ InLine'
      /\ \A h \in Handlers : pc[h] # "idle" => ev[h] \in Events
      /\ failed' = {} /\ crashes' = 0 /\ crashes = 0
  BY NextInLine, FailuresStay DEF HubState, HubInv, Announcing, Calm
<1>2. /\ Calm /\ MarkersReliable
      /\ \/ Produce \/ UNCHANGED hubVars \/ \E b \in Hubs : Crash(b) \/ LoseChannel(b)
         \/ \E h \in Handlers : Deliver(h) \/ Mark(h) \/ Check(h) \/ Push(h) \/ Relate(h) \/ Publish(h) \/ Complete(h) \/ Ack(h)
  BY <1>1, CalmSteps DEF Calm, MarkersReliable
<1>3. /\ \A e \in Events : marker[e] = "pending" =>
             \E h \in Handlers : Holds(h) /\ ev[h] = e /\ pc[h] \in {"push", "relate", "publish", "complete"}
      /\ \A x \in Events, e \in Usable : e < x /\ pushes[x] > 0 => pushes[e] > 0
      /\ \A i \in 1 .. Len(channel) :
             /\ channel[i] \in Usable /\ pushes[channel[i]] > 0
             /\ \A e \in Usable : e < channel[i] => \E j \in 1 .. i - 1 : channel[j] = e
  BY <1>2 DEF Concluded
<1>4. /\ channel \in Seq(Events) /\ Len(channel) \in Nat /\ (\A e \in Usable : e \in Events)
      /\ \A e \in Events : pushes[e] > 0 => pushes'[e] > 0
  BY <1>1, PushesGrow, HubAssumption DEF HubTypes, Usable, Events
<1>5. ASSUME \A e \in Events : marker'[e] = "pending" =>
                \E h \in Handlers : ev'[h] = e /\ pc'[h] \in {"push", "relate", "publish", "complete"},
             \A x \in Events, e \in Usable : e < x /\ pushes'[x] > 0 => pushes'[e] > 0,
             \A i \in 1 .. Len(channel') :
                /\ channel'[i] \in Usable /\ pushes'[channel'[i]] > 0
                /\ \A e \in Usable : e < channel'[i] => \E j \in 1 .. i - 1 : channel'[j] = e
      PROVE  Concluded'
  <2>1. \A h \in Handlers : pc'[h] \in {"push", "relate", "publish", "complete"} => Holds(h)'
    BY <1>1 DEF InLine, HoldsLock, Locked
  <2> QED BY <1>5, <2>1 DEF Concluded
<1>6. ASSUME NEW h \in Handlers, UNCHANGED <<channel, pushes>>,
             \A g \in Handlers \ {h} : pc'[g] = pc[g] /\ ev'[g] = ev[g],
             pc[h] \in {"push", "relate", "publish", "complete"} =>
                ev'[h] = ev[h] /\ (pc'[h] \in {"push", "relate", "publish", "complete"} \/ marker'[ev[h]] # "pending"),
             \A e \in Events : marker'[e] = "pending" =>
                marker[e] = "pending" \/ (ev'[h] = e /\ pc'[h] \in {"push", "relate", "publish", "complete"})
      PROVE  Concluded'
  <2>1. \A e \in Events : marker'[e] = "pending" =>
            \E g \in Handlers : ev'[g] = e /\ pc'[g] \in {"push", "relate", "publish", "complete"}
    BY <1>3, <1>6
  <2> QED BY <1>3, <1>5, <1>6, <2>1
<1>7. CASE Produce \/ UNCHANGED hubVars \/ \E b \in Hubs : LoseChannel(b)
  <2>1. UNCHANGED <<pc, ev, marker, pushes, channel>>
    BY <1>7 DEF Produce, LoseChannel, hubVars, control, redis
  <2> QED BY <1>3, <1>5, <2>1
<1>8. ASSUME NEW h \in Handlers, Deliver(h) \/ Ack(h) \/ Check(h) PROVE Concluded'
  <2>1. /\ pc[h] \in {"idle", "ack", "check"} /\ UNCHANGED <<marker, channel, pushes>>
        /\ \A g \in Handlers \ {h} : pc'[g] = pc[g] /\ ev'[g] = ev[g]
    BY <1>1, <1>8 DEF Deliver, Ack, Check, Free, Leave, Goto, redis, HubTypes
  <2> QED BY <1>6, <2>1
<1>9. ASSUME NEW h \in Handlers, Mark(h) \/ Relate(h) \/ Complete(h) PROVE Concluded'
  <2>1. /\ UNCHANGED <<ev, channel, pushes>> /\ ev[h] \in Events
        /\ \A g \in Handlers \ {h} : pc'[g] = pc[g]
    BY <1>1, <1>9 DEF Mark, Relate, Complete, Leave, Goto, HubTypes
  <2>2. CASE Mark(h)
    <3>1. pc[h] = "mark" /\ \A e \in Events : marker'[e] = "pending" => marker[e] = "pending" \/ (e = ev[h] /\ pc'[h] = "push")
      BY <1>1, <2>1, <2>2 DEF Mark, Goto, HubTypes
    <3> QED BY <1>6, <2>1, <3>1
  <2>3. CASE Relate(h)
    BY <1>1, <1>6, <2>1, <2>3 DEF Relate, Goto, HubTypes
  <2>4. CASE Complete(h)
    BY <1>1, <1>6, <2>1, <2>4 DEF Complete, HubTypes
  <2> QED BY <1>9, <2>2, <2>3, <2>4
<1>10. ASSUME NEW h \in Handlers, pc[h] \in HoldsLock, NEW e \in Usable, e < ev[h]
       PROVE  marker[e] # "absent" /\ ev[h] # e
  <2>1. marker[ev[h]] # "absent" /\ ev[h] \in Events
    BY <1>1, <1>2, <1>10 DEF MarkedInOrder, HoldsLock, Locked, Calm
  <2> QED BY <1>2, <1>10, <2>1, HubAssumption DEF MarkedInOrder, Calm, Events
<1>11. ASSUME NEW h \in Handlers, Push(h) PROVE Concluded'
  <2>1. /\ pc[h] = "push" /\ ev[h] \in Events /\ UNCHANGED <<ev, marker, channel>>
        /\ \A g \in Handlers \ {h} : pc'[g] = pc[g]
        /\ pc'[h] = "relate" /\ pushes' = [pushes EXCEPT ![ev[h]] = @ + 1]
    BY <1>1, <1>11 DEF Push, Pushed, Goto, HubTypes
  <2>2. \A e \in Events : marker'[e] = "pending" =>
            \E g \in Handlers : ev'[g] = e /\ pc'[g] \in {"push", "relate", "publish", "complete"}
    BY <1>3, <2>1
  <2>3. ASSUME NEW x \in Events, NEW e \in Usable, e < x, pushes'[x] > 0 PROVE pushes'[e] > 0
    <3>1. CASE x = ev[h]
      <4>1. marker[e] # "absent" /\ ev[h] # e /\ e \in Events
        BY <1>4, <1>10, <2>1, <2>3, <3>1 DEF HoldsLock, Locked
      <4>2. \A g \in Handlers : Holds(g) => g = h
        BY <2>1, OneHolder DEF HoldsLock, Locked
      <4>3. pushes[e] > 0
        BY <1>2, <4>1, <4>2 DEF Backed
      <4> QED BY <1>4, <4>1, <4>3
    <3>2. CASE x # ev[h]
      BY <1>1, <1>3, <1>4, <2>1, <2>3, <3>2 DEF HubTypes
    <3> QED BY <3>1, <3>2
  <2>4. \A i \in 1 .. Len(channel) : pushes'[channel[i]] > 0
    BY <1>3, <1>4
  <2> QED BY <1>3, <1>5, <2>1, <2>2, <2>3, <2>4
<1>12. ASSUME NEW h \in Handlers, Publish(h) PROVE Concluded'
  <2> DEFINE n == Len(channel)
  <2>1. /\ pc[h] = "publish" /\ ev[h] \in Events /\ UNCHANGED <<ev, marker, pushes>>
        /\ \A g \in Handlers \ {h} : pc'[g] = pc[g]
        /\ pc'[h] = "complete" /\ channel' = Append(channel, ev[h])
    BY <1>1, <1>12 DEF Publish, Goto, HubTypes
  <2>2. \A e \in Events : marker'[e] = "pending" =>
            \E g \in Handlers : ev'[g] = e /\ pc'[g] \in {"push", "relate", "publish", "complete"}
    BY <1>3, <2>1
  <2>3. ev[h] \in Usable /\ pushes[ev[h]] > 0
    BY <1>2, <2>1 DEF HubState, Delivered, Locked, Backed
  <2>4. ASSUME NEW e \in Usable, e < ev[h] PROVE \E j \in 1 .. n : channel[j] = e
    <3>1. marker[e] # "absent" /\ ev[h] # e /\ e \in Events
      BY <1>4, <1>10, <2>1, <2>4 DEF HoldsLock, Locked
    <3>2. \A g \in Handlers : Holds(g) => g = h
      BY <2>1, OneHolder DEF HoldsLock, Locked
    <3>3. marker[e] = "complete"
      BY <1>1, <1>3, <3>1, <3>2 DEF HubTypes
    <3> QED BY <3>1, <3>3 DEF HubState, HubInv, Announcing, Announced
  <2>5. n \in Nat /\ Len(channel') = n + 1 /\ (\A i \in 1 .. n : channel'[i] = channel[i]) /\ channel'[n + 1] = ev[h]
    BY <1>4, <2>1
  <2>6. \A i \in 1 .. n :
            /\ channel[i] \in Usable /\ pushes[channel[i]] > 0
            /\ \A e \in Usable : e < channel[i] => \E j \in 1 .. i - 1 : channel[j] = e
    BY <1>3
  <2> HIDE DEF n
  <2>7. ASSUME NEW i \in 1 .. n + 1
        PROVE  /\ channel'[i] \in Usable /\ pushes'[channel'[i]] > 0
               /\ \A e \in Usable : e < channel'[i] => \E j \in 1 .. i - 1 : channel'[j] = e
    <3>1. CASE i = n + 1
      <4>1. i - 1 = n
        BY <2>5, <3>1
      <4> QED BY <2>1, <2>3, <2>4, <2>5, <3>1, <4>1
    <3>2. CASE i \in 1 .. n
      <4>1. \A j \in 1 .. i - 1 : channel'[j] = channel[j]
        BY <2>5, <3>2
      <4> QED BY <2>1, <2>5, <2>6, <3>2, <4>1
    <3> QED BY <2>5, <3>1, <3>2
  <2> QED BY <1>3, <1>5, <2>1, <2>2, <2>5, <2>7
<1>13. ASSUME NEW b \in Hubs, Crash(b) PROVE FALSE
  BY <1>1, <1>13 DEF Crash
<1> QED BY <1>2, <1>7, <1>8, <1>9, <1>11, <1>12, <1>13

(* A set of naturals with an element has a smallest one.                   *)
LEMMA Earliest ==
    ASSUME NEW S \in SUBSET Nat, NEW x \in S
    PROVE  \E m \in S : \A k \in S : m <= k
<1>1. PICK m \in S : \A k \in S : <<k, m>> \notin OpToRel(<, Nat)
  BY NatLessThanWellFounded, WFMin
<1>2. \A k \in S : ~(k < m)
  BY <1>1 DEF OpToRel
<1> QED BY <1>2

(* The replay leaves out a prefix of the history that ends with the event  *)
(* the client named.                                                       *)
LEMMA ReplayedFacts ==
    ASSUME NEW last \in Seq(Events), NEW items \in Seq(Events)
    PROVE  \E m \in 0 .. Len(items) :
              /\ Replayed(last, items) \in Seq(Events) /\ Len(Replayed(last, items)) = Len(items) - m
              /\ \A k \in 1 .. Len(items) - m : Replayed(last, items)[k] = items[m + k]
              /\ m > 0 => last # <<>> /\ items[m] = last[Len(last)]
<1>1. CASE ~(last # <<>> /\ \E i \in 1 .. Len(items) : items[i] = last[Len(last)])
  <2>1. Replayed(last, items) = items
    BY <1>1 DEF Replayed
  <2>2. 0 \in 0 .. Len(items) /\ Len(items) - 0 = Len(items) /\ ~(0 > 0) /\ \A k \in 1 .. Len(items) : 0 + k = k
    OBVIOUS
  <2>3. \A k \in 1 .. Len(items) - 0 : Replayed(last, items)[k] = items[0 + k]
    BY <2>1, <2>2
  <2> WITNESS 0 \in 0 .. Len(items)
  <2> QED BY <2>1, <2>2, <2>3
<1>2. CASE last # <<>> /\ \E i \in 1 .. Len(items) : items[i] = last[Len(last)]
  <2> DEFINE First(i) == items[i] = last[Len(last)] /\ \A j \in 1 .. i - 1 : items[j] # last[Len(last)]
             m == CHOOSE i \in 1 .. Len(items) : First(i)
  <2>1. \E i \in 1 .. Len(items) : First(i)
    <3> DEFINE S == {i \in 1 .. Len(items) : items[i] = last[Len(last)]}
    <3>1. S \in SUBSET Nat /\ \E x \in S : TRUE
      BY <1>2
    <3> HIDE DEF S
    <3>2. PICK i \in S : \A k \in S : i <= k
      BY <3>1, Earliest
    <3>3. i \in 1 .. Len(items) /\ items[i] = last[Len(last)]
      BY <3>2 DEF S
    <3>4. ASSUME NEW j \in 1 .. i - 1 PROVE items[j] # last[Len(last)]
      <4>1. j \in 1 .. Len(items) /\ ~(i <= j)
        BY <3>3
      <4> QED BY <3>2, <4>1 DEF S
    <3> QED BY <3>3, <3>4
  <2>2. m \in 1 .. Len(items) /\ First(m)
    BY <2>1
  <2>3. Replayed(last, items) = SubSeq(items, m + 1, Len(items))
    BY <1>2 DEF Replayed
  <2> HIDE DEF m
  <2>4. m + 1 \in Int /\ Len(items) \in Int /\ \A i \in m + 1 .. Len(items) : items[i] \in Events
    BY <2>2
  <2>5. /\ SubSeq(items, m + 1, Len(items)) \in Seq(Events)
        /\ Len(SubSeq(items, m + 1, Len(items))) = Len(items) - m
        /\ \A k \in 1 .. Len(items) - m : SubSeq(items, m + 1, Len(items))[k] = items[m + k]
    BY <2>2, <2>4, SubSeqProperties
  <2>6. m \in 0 .. Len(items) /\ items[m] = last[Len(last)]
    BY <2>2
  <2> QED BY <1>2, <2>3, <2>5, <2>6
<1> QED BY <1>1, <1>2

(* One more event received.                                                *)
LEMMA SentFacts ==
    ASSUME StreamTypes, NEW c \in Clients, NEW e \in Events, got' = [got EXCEPT ![c] = Append(@, e)]
    PROVE  /\ got' \in [Clients -> Seq(Events)] /\ Len(got[c]) \in Nat
           /\ Len(got'[c]) = Len(got[c]) + 1 /\ got'[c][Len(got[c]) + 1] = e
           /\ \A i \in 1 .. Len(got[c]) : got'[c][i] = got[c][i]
           /\ \A d \in Clients \ {c} : got'[d] = got[d]
           /\ \A x : Has(got'[c], x) <=> x = e \/ Has(got[c], x)
<1>1. got \in [Clients -> Seq(Events)] /\ got[c] \in Seq(Events)
  BY DEF StreamTypes
<1>2. got'[c] = Append(got[c], e) /\ got' \in [Clients -> Seq(Events)] /\ \A d \in Clients \ {c} : got'[d] = got[d]
  BY <1>1
<1>3. /\ Len(got[c]) \in Nat /\ Len(got'[c]) = Len(got[c]) + 1 /\ got'[c][Len(got[c]) + 1] = e
      /\ \A i \in 1 .. Len(got[c]) : got'[c][i] = got[c][i]
  BY <1>1, <1>2
<1>4. \A x : Has(got'[c], x) <=> x = e \/ Has(got[c], x)
  <2> DEFINE n == Len(got[c])
  <2>1. n \in Nat /\ Len(got'[c]) = n + 1 /\ got'[c][n + 1] = e /\ \A i \in 1 .. n : got'[c][i] = got[c][i]
    BY <1>3
  <2>2. \A x : Has(got[c], x) <=> \E i \in 1 .. n : got[c][i] = x
    BY DEF Has
  <2> HIDE DEF n
  <2>3. \A x : Has(got'[c], x) <=> \E i \in 1 .. n + 1 : got'[c][i] = x
    BY <2>1 DEF Has
  <2>4. \A i : i \in 1 .. n + 1 <=> i \in 1 .. n \/ i = n + 1
    BY <2>1
  <2> QED BY <2>1, <2>2, <2>3, <2>4
<1> QED BY <1>2, <1>3, <1>4

(* One event less to replay.                                               *)
LEMMA TodoFacts ==
    ASSUME StreamTypes, NEW c \in Clients, todo[c] # <<>>, todo' = [todo EXCEPT ![c] = Tail(@)]
    PROVE  /\ todo' \in [Clients -> Seq(Events)] /\ Head(todo[c]) \in Events /\ Head(todo[c]) = todo[c][1]
           /\ Len(todo[c]) \in Nat \ {0} /\ Len(todo'[c]) = Len(todo[c]) - 1
           /\ \A k \in 1 .. Len(todo'[c]) : todo'[c][k] = todo[c][k + 1]
           /\ \A d \in Clients \ {c} : todo'[d] = todo[d]
<1>1. todo \in [Clients -> Seq(Events)] /\ todo[c] \in Seq(Events)
  BY DEF StreamTypes
<1>2. todo'[c] = Tail(todo[c]) /\ \A d \in Clients \ {c} : todo'[d] = todo[d]
  BY <1>1
<1>3. /\ Tail(todo[c]) \in Seq(Events) /\ Head(todo[c]) \in Events /\ Head(todo[c]) = todo[c][1]
      /\ Len(todo[c]) \in Nat \ {0} /\ Len(Tail(todo[c])) = Len(todo[c]) - 1
      /\ \A k \in 1 .. Len(Tail(todo[c])) : Tail(todo[c])[k] = todo[c][k + 1]
  BY <1>1
<1> QED BY <1>1, <1>2, <1>3

(* The history read backwards.                                             *)
LEMMA OldestFacts ==
    ASSUME QueueTypes
    PROVE  /\ Oldest(history) \in Seq(Events) /\ Len(Oldest(history)) = Len(history) /\ Len(history) \in Nat
           /\ \A i \in 1 .. Len(history) : Oldest(history)[i] = history[Len(history) + 1 - i]
           /\ \A i \in 1 .. Len(history) : Len(history) + 1 - i \in 1 .. Len(history)
<1>1. history \in Seq(Events) /\ Len(history) \in Nat
  BY DEF QueueTypes
<1>2. \A i \in 1 .. Len(history) : Len(history) + 1 - i \in 1 .. Len(history) /\ history[Len(history) + 1 - i] \in Events
  BY <1>1
<1>3. Oldest(history) \in [1 .. Len(history) -> Events]
  BY <1>2 DEF Oldest
<1>4. Oldest(history) \in Seq(Events) /\ Len(Oldest(history)) = Len(history)
  BY <1>1, <1>3
<1> QED BY <1>1, <1>2, <1>4 DEF Oldest

(* The channel only grows.                                                 *)
LEMMA ChannelGrows ==
    ASSUME HubState, [HubNext]_hubVars
    PROVE  /\ Len(channel) \in Nat /\ Len(channel') \in Nat /\ Len(channel) <= Len(channel')
           /\ \A i \in 1 .. Len(channel) : channel'[i] = channel[i] /\ channel[i] \in Events
<1>1. channel \in Seq(Events) /\ \A h \in Handlers : pc[h] = "publish" => ev[h] \in Events
  BY DEF HubState, HubInv, HubTypes, Announcing
<1>2. channel' = channel \/ \E h \in Handlers : pc[h] = "publish" /\ channel' = Append(channel, ev[h])
  BY DEF HubNext, Progress, Produce, Deliver, Mark, Check, Push, Undo, Relate, Publish, Complete, Ack, Reject,
     MarkFails, PushFails, CallFails, Crash, LoseChannel, hubVars, redis
<1>3. CASE channel' = channel
  BY <1>1, <1>3
<1>4. ASSUME NEW h \in Handlers, pc[h] = "publish", channel' = Append(channel, ev[h])
      PROVE  /\ Len(channel) \in Nat /\ Len(channel') \in Nat /\ Len(channel) <= Len(channel')
             /\ \A i \in 1 .. Len(channel) : channel'[i] = channel[i] /\ channel[i] \in Events
  BY <1>1, <1>4
<1> QED BY <1>2, <1>3, <1>4

(* What has left the history does not come back while no push fails.       *)
LEMMA TrimmedStays ==
    ASSUME HubState, [HubNext]_hubVars, "push" \notin failed', NEW e \in Events, Trimmed(e)
    PROVE  Trimmed(e)'
<1>1. /\ QueueTypes /\ Len(history) \in Nat /\ "push" \notin failed
      /\ \A h \in Handlers : pc[h] = "push" => ev[h] \in Events /\ pushes[ev[h]] = 0
  <2>1. QueueTypes /\ Len(history) \in Nat
    BY DEF HubState, QueueTypes
  <2>2. "push" \notin failed
    BY <2>1, FailuresStay
  <2> QED BY <2>1, <2>2 DEF HubState, HubInv, Storing, Announcing
<1>2. pushes[e] > 0 /\ pushes'[e] > 0 /\ \A i \in 1 .. Len(history) : history[i] # e
  BY PushesGrow DEF Trimmed
<1>3. CASE UNCHANGED <<history, pushes>>
  BY <1>2, <1>3 DEF Trimmed
<1>4. ASSUME NEW h \in Handlers, pc[h] = "push", Pushed(ev[h]) PROVE Trimmed(e)'
  <2>1. /\ Len(history') \in Nat /\ Len(history') <= Len(history) + 1
        /\ \A i \in 1 .. Len(history') : history'[i] = IF i = 1 THEN ev[h] ELSE history[i - 1]
    BY <1>1, <1>4, PushedHistory
  <2>2. \A i \in 1 .. Len(history') : i # 1 => i - 1 \in 1 .. Len(history) /\ history'[i] = history[i - 1]
    BY <1>1, <2>1
  <2>3. ev[h] # e
    BY <1>1, <1>2, <1>4
  <2>4. \A i \in 1 .. Len(history') : history'[i] # e
    BY <1>2, <2>1, <2>2, <2>3
  <2> QED BY <1>2, <2>4 DEF Trimmed
<1> QED BY <1>3, <1>4, OnlyPushes

(* The invariant of the hub and its clients.                               *)
StreamState ==
    /\ HubState /\ Kept /\ MarkedInOrder /\ PushedInOrder /\ Backed /\ Concluded
    /\ StreamTypes /\ FirstConnection /\ CaughtUp

(* A step of the hub takes nothing from a client.                          *)
LEMMA HubKeepsClients ==
    ASSUME StreamState, [HubNext]_hubVars, UNCHANGED streamVars
    PROVE  StreamTypes' /\ FirstConnection' /\ CaughtUp'
<1>1. /\ HubState /\ QueueTypes /\ StreamTypes /\ FirstConnection /\ CaughtUp
      /\ UNCHANGED <<spc, pos, todo, seen, got, drops>>
  BY DEF StreamState, HubState, streamVars
<1>2. failed \subseteq failed' /\ crashes' \in Nat /\ crashes \in Nat /\ crashes <= crashes'
  BY <1>1, FailuresStay
<1>3. StreamTypes'
  BY <1>1 DEF StreamTypes
<1>4. FirstConnection'
  BY <1>1, <1>2 DEF FirstConnection, Has
<1>5. ASSUME Calm', NEW c \in Clients PROVE Caught(c)'
  <2>1. Caught(c) /\ "push" \notin failed'
    BY <1>1, <1>2, <1>5 DEF CaughtUp, Calm
  <2>2. /\ Len(channel) \in Nat /\ Len(channel') \in Nat /\ Len(channel) <= Len(channel')
        /\ \A i \in 1 .. Len(channel) : channel'[i] = channel[i] /\ channel[i] \in Events
    BY <1>1, ChannelGrows
  <2>3. (\A e \in Events : Trimmed(e) => Trimmed(e)') /\ (\A e \in Usable : e \in Events) /\ pos[c] \in Nat
    BY <1>1, <1>5, <2>1, TrimmedStays DEF Usable, StreamTypes
  <2>4. spc[c] \in {"history", "replay", "live"} => pos[c] <= Len(channel) /\ pos[c] <= Len(channel')
    BY <2>1, <2>2, <2>3 DEF Caught
  <2>5. spc[c] \in {"replay", "live"} => \A i \in 1 .. pos[c] : i \in 1 .. Len(channel)
    BY <2>2, <2>3, <2>4
  <2>6. \A i \in 1 .. Len(got[c]) : \A e \in Usable :
            e < got[c][i] => Trimmed(e)' \/ \E j \in 1 .. i - 1 : got[c][j] = e
    BY <2>1, <2>3 DEF Caught
  <2>7. spc[c] = "replay" =>
          /\ \A k \in 1 .. Len(todo[c]) : \A e \in Usable :
                e < todo[c][k] => Trimmed(e)' \/ Has(got[c], e) \/ \E j \in 1 .. k - 1 : todo[c][j] = e
          /\ \A i \in 1 .. pos[c] : Trimmed(channel[i])' \/ Has(got[c], channel'[i]) \/ Has(todo[c], channel'[i])
    <3>1. ASSUME spc[c] = "replay", NEW i \in 1 .. pos[c]
          PROVE  Trimmed(channel[i])' \/ Has(got[c], channel'[i]) \/ Has(todo[c], channel'[i])
      <4>1. channel'[i] = channel[i] /\ channel[i] \in Events
        BY <2>2, <2>5, <3>1
      <4> QED BY <2>1, <2>3, <3>1, <4>1 DEF Caught, Trimmed
    <3> QED BY <2>1, <2>3, <3>1 DEF Caught
  <2>8. spc[c] = "live" => \A i \in 1 .. pos[c] : Trimmed(channel[i])' \/ Has(got[c], channel'[i])
    <3>1. ASSUME spc[c] = "live", NEW i \in 1 .. pos[c] PROVE Trimmed(channel[i])' \/ Has(got[c], channel'[i])
      <4>1. channel'[i] = channel[i] /\ channel[i] \in Events
        BY <2>2, <2>5, <3>1
      <4> QED BY <2>1, <2>3, <3>1, <4>1 DEF Caught, Trimmed
    <3> QED BY <3>1
  <2>9. \A e \in seen[c] : Has(got[c], e)
    BY <2>1 DEF Caught
  <2> QED BY <1>1, <2>4, <2>6, <2>7, <2>8, <2>9 DEF Caught
<1> QED BY <1>3, <1>4, <1>5 DEF CaughtUp

(* What a step of client c leaves alone.                                   *)
LEMMA ClientSteps ==
    ASSUME StreamTypes, QueueTypes, HubTypes, NEW c \in Clients, Stream(c) \/ Drop(c)
    PROVE  /\ UNCHANGED hubVars /\ StreamTypes'
           /\ \A d \in Clients \ {c} :
                 spc'[d] = spc[d] /\ pos'[d] = pos[d] /\ todo'[d] = todo[d] /\ seen'[d] = seen[d] /\ got'[d] = got[d]
<1> USE DEF StreamTypes
<1>1. CASE Subscribe(c)
  <2>1. Len(channel) \in Nat
    BY DEF HubTypes
  <2> QED BY <1>1, <2>1 DEF Subscribe
<1>2. CASE ReadHistory(c)
  <2>1. got[c] \in Seq(Events) /\ Oldest(history) \in Seq(Events)
    BY OldestFacts
  <2>2. Replayed(got[c], Oldest(history)) \in Seq(Events)
    BY <2>1, ReplayedFacts
  <2> QED BY <1>2, <2>2 DEF ReadHistory
<1>3. CASE Replay(c)
  <2>1. Head(todo[c]) \in Events /\ todo' \in [Clients -> Seq(Events)] /\ \A d \in Clients \ {c} : todo'[d] = todo[d]
    BY <1>3, TodoFacts DEF Replay
  <2>2. got' \in [Clients -> Seq(Events)] /\ \A d \in Clients \ {c} : got'[d] = got[d]
    BY <1>3, <2>1, SentFacts DEF Replay, Send
  <2> QED BY <1>3, <2>1, <2>2 DEF Replay, Send
<1>4. CASE GoLive(c)
  BY <1>4 DEF GoLive
<1>5. CASE Listen(c)
  <2>1. channel[pos[c] + 1] \in Events /\ pos[c] + 1 \in Nat
    BY <1>5 DEF Listen, HubTypes
  <2>2. got' \in [Clients -> Seq(Events)] /\ \A d \in Clients \ {c} : got'[d] = got[d]
    BY <1>5, <2>1, SentFacts DEF Listen, Send
  <2>3. /\ seen' \in [Clients -> SUBSET Events] /\ \A d \in Clients \ {c} : seen'[d] = seen[d] /\ spc'[d] = spc[d]
        /\ spc' \in [Clients -> {"closed", "history", "replay", "live", "ended"}]
    <3>1. CASE channel[pos[c] + 1] \in seen[c]
      BY <1>5, <3>1 DEF Listen
    <3>2. CASE channel[pos[c] + 1] \notin seen[c]
      <4> DEFINE e == channel[pos[c] + 1]
      <4>1. seen' = [seen EXCEPT ![c] = @ \cup {e}] /\ spc' = [spc EXCEPT ![c] = IF e \in Terminal THEN "ended" ELSE "live"]
        BY <1>5, <3>2 DEF Listen, Send
      <4> HIDE DEF e
      <4>2. e \in Events
        BY <2>1 DEF e
      <4> QED BY <4>1, <4>2
    <3> QED BY <3>1, <3>2
  <2> QED BY <1>5, <2>1, <2>2, <2>3 DEF Listen
<1>6. CASE Drop(c)
  <2>1. drops' \in 0 .. MaxDrops
    BY <1>6, StreamAssumption DEF Drop
  <2> QED BY <1>6, <2>1 DEF Drop
<1> QED BY <1>1, <1>2, <1>3, <1>4, <1>5, <1>6 DEF Stream

(* A client on its first connection stays without duplicates.              *)
LEMMA ClientFirst ==
    ASSUME StreamState, NEW c \in Clients, Stream(c) \/ Drop(c)
    PROVE  FirstConnection'
<1>1. StreamTypes /\ QueueTypes /\ HubTypes /\ Kept /\ FirstConnection
  BY DEF StreamState, HubState, HubInv
<1>2. /\ UNCHANGED hubVars
      /\ \A d \in Clients \ {c} :
            spc'[d] = spc[d] /\ pos'[d] = pos[d] /\ todo'[d] = todo[d] /\ seen'[d] = seen[d] /\ got'[d] = got[d]
  BY <1>1, ClientSteps
<1> SUFFICES ASSUME drops' = 0, "push" \notin failed' PROVE FirstConnection'
  BY DEF FirstConnection
<1>3. drops = 0 /\ "push" \notin failed /\ ~Drop(c)
  BY <1>1, <1>2, StreamAssumption
     DEF hubVars, counts, Drop, Stream, Subscribe, ReadHistory, Replay, GoLive, Listen, StreamTypes
<1> DEFINE First(p, t, s, g) ==
        /\ p \in {"closed", "history"} => g = <<>> /\ s = {}
        /\ \A i \in 1 .. Len(g) : g[i] \in s
        /\ \A i, j \in 1 .. Len(g) : i # j => g[i] # g[j]
        /\ p = "replay" =>
              /\ \A i, j \in 1 .. Len(t) : i # j => t[i] # t[j]
              /\ \A i \in 1 .. Len(t) : ~Has(g, t[i])
<1>4. \A d \in Clients : First(spc[d], todo[d], seen[d], got[d])
  BY <1>1, <1>3 DEF FirstConnection
<1>5. SUFFICES First(spc'[c], todo'[c], seen'[c], got'[c])
  <2>1. \A d \in Clients : First(spc'[d], todo'[d], seen'[d], got'[d])
    BY <1>2, <1>4, <1>5
  <2>2. FirstConnection' <=> (drops' = 0 /\ "push" \notin failed' => \A d \in Clients : First(spc'[d], todo'[d], seen'[d], got'[d]))
    BY DEF FirstConnection, Has
  <2> QED BY <2>1, <2>2
<1>6. First(spc[c], todo[c], seen[c], got[c])
  BY <1>4
<1>7. CASE Subscribe(c)
  BY <1>1, <1>6, <1>7 DEF Subscribe, StreamTypes
<1>8. CASE ReadHistory(c)
  <2>1. got[c] = <<>> /\ got' = got /\ seen' = seen /\ spc'[c] = "replay" /\ todo'[c] = Replayed(got[c], Oldest(history))
    BY <1>1, <1>6, <1>8 DEF ReadHistory, StreamTypes
  <2>2. todo'[c] = Oldest(history)
    BY <2>1 DEF Replayed
  <2>3. ASSUME NEW i \in 1 .. Len(history), NEW j \in 1 .. Len(history), i # j PROVE Oldest(history)[i] # Oldest(history)[j]
    <3> DEFINE n == Len(history)
    <3>1. n + 1 - i # n + 1 - j /\ n + 1 - i \in 1 .. n /\ n + 1 - j \in 1 .. n
      BY <1>1, <2>3, OldestFacts
    <3> QED BY <1>1, <1>3, <3>1, OldestFacts DEF Kept
  <2>4. Len(Oldest(history)) = Len(history) /\ Len(<<>>) = 0
    BY <1>1, OldestFacts
  <2>5. \A x : ~Has(<<>>, x)
    BY <2>4 DEF Has
  <2> QED BY <1>6, <2>1, <2>2, <2>3, <2>4, <2>5
<1>9. CASE Replay(c)
  <2> DEFINE n == Len(got[c])
             m == Len(todo[c])
             e == todo[c][1]
  <2>1. /\ m \in Nat \ {0} /\ Len(todo'[c]) = m - 1 /\ \A k \in 1 .. m - 1 : todo'[c][k] = todo[c][k + 1]
        /\ e \in Events /\ Head(todo[c]) = e
    BY <1>1, <1>9, TodoFacts DEF Replay
  <2>2. /\ n \in Nat /\ Len(got'[c]) = n + 1 /\ got'[c][n + 1] = e
        /\ \A i \in 1 .. n : got'[c][i] = got[c][i]
        /\ \A x : Has(got'[c], x) <=> x = e \/ Has(got[c], x)
    <3>1. got' = [got EXCEPT ![c] = Append(@, e)]
      BY <1>9, <2>1 DEF Replay, Send
    <3> HIDE DEF e
    <3> QED BY <1>1, <2>1, <3>1, SentFacts
  <2>3. seen'[c] = seen[c] \cup {e} /\ spc[c] = "replay" /\ spc'[c] \in {"ended", "replay"}
    BY <1>1, <1>9, <2>1 DEF Replay, Send, StreamTypes
  <2>4. /\ \A i \in 1 .. n : got[c][i] \in seen[c]
        /\ \A i, j \in 1 .. n : i # j => got[c][i] # got[c][j]
        /\ \A i, j \in 1 .. m : i # j => todo[c][i] # todo[c][j]
        /\ \A i \in 1 .. m : ~Has(got[c], todo[c][i])
    BY <1>6, <2>3
  <2>5. \A i \in 1 .. n : got[c][i] # e
    BY <2>1, <2>4 DEF Has
  <2>6. 1 \in 1 .. m /\ \A k \in 1 .. m - 1 : k + 1 \in 1 .. m /\ k + 1 # 1
    BY <2>1
  <2>7. \A k \in 1 .. m - 1 : ~Has(got'[c], todo'[c][k])
    BY <2>1, <2>2, <2>4, <2>6
  <2> HIDE DEF n, m, e
  <2>8. \A i, j \in 1 .. m - 1 : i # j => todo'[c][i] # todo'[c][j]
    <3> SUFFICES ASSUME NEW i \in 1 .. m - 1, NEW j \in 1 .. m - 1, i # j PROVE todo'[c][i] # todo'[c][j]
      OBVIOUS
    <3>1. i + 1 # j + 1
      BY <2>1
    <3>2. todo[c][i + 1] # todo[c][j + 1]
      BY <2>4, <2>6, <3>1
    <3> QED BY <2>1, <3>2
  <2>9. \A i \in 1 .. n + 1 : i \in 1 .. n \/ i = n + 1
    BY <2>2
  <2>10. \A i, j \in 1 .. n + 1 : i # j => got'[c][i] # got'[c][j]
    BY <2>2, <2>4, <2>5, <2>9
  <2>11. \A i \in 1 .. n + 1 : got'[c][i] \in seen'[c]
    BY <2>2, <2>3, <2>4, <2>9
  <2> QED BY <2>1, <2>2, <2>3, <2>7, <2>8, <2>10, <2>11
<1>10. CASE GoLive(c)
  BY <1>1, <1>6, <1>10 DEF GoLive, StreamTypes
<1>11. CASE Listen(c)
  <2> DEFINE n == Len(got[c])
             e == channel[pos[c] + 1]
  <2>1. spc[c] = "live" /\ e \in Events
    BY <1>1, <1>11 DEF Listen, StreamTypes, HubTypes
  <2>2. CASE e \in seen[c]
    BY <1>6, <1>11, <2>1, <2>2 DEF Listen
  <2>3. CASE e \notin seen[c]
    <3>1. /\ n \in Nat /\ Len(got'[c]) = n + 1 /\ got'[c][n + 1] = e
          /\ \A i \in 1 .. n : got'[c][i] = got[c][i]
      BY <1>1, <1>11, <2>1, <2>3, SentFacts DEF Listen, Send
    <3>2. seen'[c] = seen[c] \cup {e} /\ spc'[c] \in {"ended", "live"}
      BY <1>1, <1>11, <2>3 DEF Listen, Send, StreamTypes
    <3>3. /\ \A i \in 1 .. n : got[c][i] \in seen[c]
          /\ \A i, j \in 1 .. n : i # j => got[c][i] # got[c][j]
      BY <1>6
    <3> HIDE DEF n, e
    <3>4. \A i \in 1 .. n + 1 : i \in 1 .. n \/ i = n + 1
      BY <3>1
    <3>5. \A i, j \in 1 .. n + 1 : i # j => got'[c][i] # got'[c][j]
      BY <2>3, <3>1, <3>3, <3>4
    <3>6. \A i \in 1 .. n + 1 : got'[c][i] \in seen'[c]
      BY <3>1, <3>2, <3>3, <3>4
    <3> QED BY <3>1, <3>2, <3>5, <3>6
  <2> QED BY <2>2, <2>3
<1> QED BY <1>3, <1>7, <1>8, <1>9, <1>10, <1>11 DEF Stream

(* A stored event the history still holds is to be replayed, unless the    *)
(* client that connects again has it.                                      *)
LEMMA ReplayCovers ==
    ASSUME StreamState, Calm, NEW c \in Clients,
           NEW m \in 0 .. Len(history),
           m > 0 => got[c] # <<>> /\ Oldest(history)[m] = got[c][Len(got[c])],
           NEW e \in Usable, pushes[e] > 0, ~Trimmed(e)
    PROVE  \E r \in 1 .. Len(history) : Oldest(history)[r] = e /\ (r > m \/ Has(got[c], e))
<1> DEFINE n == Len(history)
<1>1. QueueTypes /\ n \in Nat /\ failed = {} /\ got[c] \in Seq(Events) /\ Caught(c) /\ HubTypes
  BY DEF StreamState, HubState, HubInv, QueueTypes, Calm, StreamTypes, CaughtUp
<1>2. \A i \in 1 .. n : Oldest(history)[i] = history[n + 1 - i] /\ n + 1 - i \in 1 .. n /\ history[i] \in Events
  BY <1>1, OldestFacts DEF QueueTypes
<1>3. /\ \A i, j \in 1 .. n : i < j => history[i] >= history[j]
      /\ \A i, j \in 1 .. n : i # j => history[i] # history[j]
  BY <1>1 DEF StreamState, PushedInOrder, Kept
<1>4. PICK q \in 1 .. n : history[q] = e
  BY DEF Trimmed
<1> HIDE DEF n
<1>5. n + 1 - q \in 1 .. n /\ n + 1 - (n + 1 - q) = q
  BY <1>1
<1>6. Oldest(history)[n + 1 - q] = e
  BY <1>2, <1>4, <1>5
<1>7. ASSUME ~(n + 1 - q > m) PROVE Has(got[c], e)
  <2>1. m \in 1 .. n /\ m > 0 /\ n + 1 - m \in 1 .. n /\ n + 1 - m <= q
    BY <1>1, <1>5, <1>7 DEF n
  <2>2. Oldest(history)[m] = history[n + 1 - m] /\ history[n + 1 - m] \in Events
    BY <1>2, <2>1
  <2>3. got[c] # <<>> /\ history[n + 1 - m] = got[c][Len(got[c])]
    BY <2>1, <2>2
  <2>4. Len(got[c]) \in 1 .. Len(got[c])
    BY <1>1, <2>3
  <2>5. CASE n + 1 - m = q
    BY <1>4, <2>3, <2>4, <2>5 DEF Has
  <2>6. CASE n + 1 - m # q
    <3>1. n + 1 - m < q
      BY <1>1, <2>1, <2>6
    <3>2. history[n + 1 - m] >= e /\ history[n + 1 - m] # e
      BY <1>3, <1>4, <2>1, <2>6, <3>1
    <3>3. e < got[c][Len(got[c])]
      <4>1. \A x \in Events : x \in Nat
        BY HubAssumption DEF Events
      <4>2. e \in Nat /\ history[n + 1 - m] \in Nat
        BY <1>2, <1>4, <2>2, <4>1
      <4>3. e < history[n + 1 - m]
        BY <3>2, <4>2
      <4> QED BY <2>3, <4>3
    <3>4. PICK j \in 1 .. Len(got[c]) - 1 : got[c][j] = e
      BY <1>1, <2>4, <3>3 DEF Caught
    <3>5. j \in 1 .. Len(got[c])
      BY <1>1
    <3> QED BY <3>4, <3>5 DEF Has
  <2> QED BY <2>5, <2>6
<1> QED BY <1>5, <1>6, <1>7 DEF n

(* A client stays caught up.                                               *)
LEMMA ClientCaught ==
    ASSUME StreamState, NEW c \in Clients, Stream(c) \/ Drop(c)
    PROVE  CaughtUp'
<1>1. StreamTypes /\ QueueTypes /\ HubTypes /\ Concluded /\ CaughtUp
  BY DEF StreamState, HubState, HubInv
<1>2. /\ UNCHANGED hubVars /\ StreamTypes'
      /\ \A d \in Clients \ {c} :
            spc'[d] = spc[d] /\ pos'[d] = pos[d] /\ todo'[d] = todo[d] /\ seen'[d] = seen[d] /\ got'[d] = got[d]
  BY <1>1, ClientSteps
<1>3. UNCHANGED <<history, pushes, channel, failed, crashes>>
  BY <1>2 DEF hubVars, redis, counts
<1> SUFFICES ASSUME Calm PROVE \A d \in Clients : Caught(d)'
  BY <1>3 DEF CaughtUp, Calm
<1>4. /\ \A d \in Clients : Caught(d)
      /\ \A x \in Events, e \in Usable : e < x /\ pushes[x] > 0 => pushes[e] > 0
      /\ \A i \in 1 .. Len(channel) :
             /\ channel[i] \in Usable /\ pushes[channel[i]] > 0
             /\ \A e \in Usable : e < channel[i] => \E j \in 1 .. i - 1 : channel[j] = e
  BY <1>1 DEF CaughtUp, Concluded
<1>5. \A d \in Clients \ {c} : Caught(d)'
  <2> SUFFICES ASSUME NEW d \in Clients \ {c} PROVE Caught(d)'
    OBVIOUS
  <2>1. spc'[d] = spc[d] /\ pos'[d] = pos[d] /\ todo'[d] = todo[d] /\ seen'[d] = seen[d] /\ got'[d] = got[d]
    BY <1>2
  <2>2. Caught(d)
    BY <1>4
  <2> QED BY <1>3, <2>1, <2>2 DEF Caught, Trimmed, Has
<1>6. /\ Len(channel) \in Nat /\ pos[c] \in Nat /\ got[c] \in Seq(Events) /\ todo[c] \in Seq(Events)
      /\ Len(got[c]) \in Nat /\ Len(todo[c]) \in Nat
  BY <1>1 DEF HubTypes, StreamTypes
<1>7. \A e : Trimmed(e)' <=> Trimmed(e)
  BY <1>3 DEF Trimmed
<1>8. /\ \A e \in seen[c] : Has(got[c], e)
      /\ spc[c] \in {"history", "replay", "live"} => pos[c] <= Len(channel)
      /\ \A i \in 1 .. Len(got[c]) : \A e \in Usable :
            e < got[c][i] => Trimmed(e) \/ \E j \in 1 .. i - 1 : got[c][j] = e
      /\ spc[c] = "replay" =>
            /\ \A k \in 1 .. Len(todo[c]) : \A e \in Usable :
                  e < todo[c][k] => Trimmed(e) \/ Has(got[c], e) \/ \E j \in 1 .. k - 1 : todo[c][j] = e
            /\ \A i \in 1 .. pos[c] : Trimmed(channel[i]) \/ Has(got[c], channel[i]) \/ Has(todo[c], channel[i])
      /\ spc[c] = "live" => \A i \in 1 .. pos[c] : Trimmed(channel[i]) \/ Has(got[c], channel[i])
  BY <1>4 DEF Caught
<1>9. SUFFICES
        /\ \A e \in seen'[c] : Has(got'[c], e)
        /\ spc'[c] \in {"history", "replay", "live"} => pos'[c] <= Len(channel)
        /\ \A i \in 1 .. Len(got'[c]) : \A e \in Usable :
              e < got'[c][i] => Trimmed(e) \/ \E j \in 1 .. i - 1 : got'[c][j] = e
        /\ spc'[c] = "replay" =>
              /\ \A k \in 1 .. Len(todo'[c]) : \A e \in Usable :
                    e < todo'[c][k] => Trimmed(e) \/ Has(got'[c], e) \/ \E j \in 1 .. k - 1 : todo'[c][j] = e
              /\ \A i \in 1 .. pos'[c] : Trimmed(channel[i]) \/ Has(got'[c], channel[i]) \/ Has(todo'[c], channel[i])
        /\ spc'[c] = "live" => \A i \in 1 .. pos'[c] : Trimmed(channel[i]) \/ Has(got'[c], channel[i])
  <2>1. Caught(c)'
    BY <1>3, <1>9 DEF Caught, Trimmed, Has
  <2> QED BY <1>5, <2>1
<1>10. CASE Subscribe(c)
  <2>1. spc'[c] = "history" /\ seen'[c] = {} /\ pos'[c] = Len(channel) /\ got' = got
    BY <1>1, <1>10 DEF Subscribe, StreamTypes
  <2> QED BY <1>6, <1>8, <2>1
<1>11. CASE ReadHistory(c)
  <2> DEFINE items == Oldest(history)
             n == Len(history)
  <2>1. spc[c] = "history" /\ spc'[c] = "replay" /\ UNCHANGED <<seen, pos, got>> /\ todo'[c] = Replayed(got[c], items)
    BY <1>1, <1>11 DEF ReadHistory, StreamTypes
  <2>2. /\ items \in Seq(Events) /\ Len(items) = n /\ n \in Nat
        /\ \A i \in 1 .. n : items[i] = history[n + 1 - i] /\ n + 1 - i \in 1 .. n
    BY <1>1, OldestFacts
  <2>3. PICK m \in 0 .. n :
            /\ Len(todo'[c]) = n - m /\ \A k \in 1 .. n - m : todo'[c][k] = items[m + k]
            /\ m > 0 => got[c] # <<>> /\ items[m] = got[c][Len(got[c])]
    <3> HIDE DEF items, n
    <3>1. PICK m \in 0 .. Len(items) :
              /\ Len(Replayed(got[c], items)) = Len(items) - m
              /\ \A k \in 1 .. Len(items) - m : Replayed(got[c], items)[k] = items[m + k]
              /\ m > 0 => got[c] # <<>> /\ items[m] = got[c][Len(got[c])]
      BY <1>6, <2>2, ReplayedFacts
    <3> QED BY <2>1, <2>2, <3>1
  <2>4. ASSUME NEW e \in Usable, pushes[e] > 0, ~Trimmed(e)
        PROVE  \E r \in 1 .. n : items[r] = e /\ (r > m \/ Has(got[c], e))
    BY <2>3, <2>4, ReplayCovers
  <2>5. \A i \in 1 .. n : pushes[items[i]] > 0 /\ items[i] \in Events
    BY <2>2 DEF StreamState, Kept
  <2>6. \A i, j \in 1 .. n : i < j => items[i] <= items[j]
    <3> SUFFICES ASSUME NEW i \in 1 .. n, NEW j \in 1 .. n, i < j PROVE items[i] <= items[j]
      OBVIOUS
    <3>1. n + 1 - j < n + 1 - i /\ n + 1 - j \in 1 .. n /\ n + 1 - i \in 1 .. n
      BY <2>2
    <3>2. history[n + 1 - j] >= history[n + 1 - i]
      BY <3>1 DEF StreamState, PushedInOrder, Calm
    <3>3. items[i] = history[n + 1 - i] /\ items[j] = history[n + 1 - j] /\ items[i] \in Nat /\ items[j] \in Nat
      <4> HIDE DEF n, items
      <4>1. items[i] = history[n + 1 - i] /\ items[j] = history[n + 1 - j]
        BY Zenon, <2>2
      <4>2. items[i] \in Events /\ items[j] \in Events
        BY Zenon, <2>5
      <4>3. items[i] \in Nat /\ items[j] \in Nat
        BY <4>2, HubAssumption DEF Events
      <4> QED BY Zenon, <4>1, <4>3
    <3> QED BY <3>2, <3>3
  <2> HIDE DEF n, items
  <2>7. \A r \in 1 .. n : r > m => r - m \in 1 .. n - m /\ todo'[c][r - m] = items[r]
    <3> SUFFICES ASSUME NEW r \in 1 .. n, r > m PROVE r - m \in 1 .. n - m /\ todo'[c][r - m] = items[r]
      OBVIOUS
    <3>1. r - m \in 1 .. n - m /\ m + (r - m) = r
      BY <2>2
    <3> QED BY <2>3, <3>1
  <2>8. ASSUME NEW k \in 1 .. n - m, NEW e \in Usable, e < todo'[c][k]
        PROVE  Trimmed(e) \/ Has(got[c], e) \/ \E j \in 1 .. k - 1 : todo'[c][j] = e
    <3>1. todo'[c][k] = items[m + k]
      BY <2>3
    <3>10. m + k \in 1 .. n
      BY <2>2
    <3>2. pushes[e] > 0
      BY <1>4, <2>5, <2>8, <3>1, <3>10
    <3> SUFFICES ASSUME ~Trimmed(e), ~Has(got[c], e) PROVE \E j \in 1 .. k - 1 : todo'[c][j] = e
      OBVIOUS
    <3>3. PICK r \in 1 .. n : items[r] = e /\ r > m
      BY <2>4, <3>2
    <3>4. r < m + k
      <4> SUFFICES ASSUME ~(r < m + k) PROVE FALSE
        OBVIOUS
      <4>1. r = m + k \/ m + k < r
        BY <2>2, <3>10
      <4>2. items[m + k] <= items[r]
        BY <2>5, <2>6, <3>10, <4>1, HubAssumption DEF Events
      <4>3. items[r] \in Nat /\ items[m + k] \in Nat /\ items[r] < items[m + k]
        BY <2>5, <2>8, <3>1, <3>10, <3>3, HubAssumption DEF Events
      <4> QED BY <4>2, <4>3
    <3>5. r - m \in 1 .. k - 1
      BY <2>2, <3>3, <3>4
    <3> QED BY <2>7, <3>3, <3>5
  <2>9. ASSUME NEW i \in 1 .. pos[c] PROVE Trimmed(channel[i]) \/ Has(got[c], channel[i]) \/ Has(todo'[c], channel[i])
    <3>1. i \in 1 .. Len(channel)
      BY <1>6, <1>8, <2>1
    <3>2. channel[i] \in Usable /\ pushes[channel[i]] > 0
      BY <1>4, <3>1
    <3> SUFFICES ASSUME ~Trimmed(channel[i]), ~Has(got[c], channel[i]) PROVE Has(todo'[c], channel[i])
      OBVIOUS
    <3>3. PICK r \in 1 .. n : items[r] = channel[i] /\ r > m
      BY <2>4, <3>2
    <3> QED BY <2>3, <2>7, <3>3 DEF Has
  <2> QED BY <1>8, <2>1, <2>3, <2>8, <2>9
<1>12. ASSUME NEW e \in Events, got' = [got EXCEPT ![c] = Append(@, e)], seen' = [seen EXCEPT ![c] = @ \cup {e}],
              \A x \in Usable : x < e => Trimmed(x) \/ Has(got[c], x)
       PROVE  /\ \A x \in seen'[c] : Has(got'[c], x)
              /\ \A x : Has(got'[c], x) <=> x = e \/ Has(got[c], x)
              /\ \A i \in 1 .. Len(got'[c]) : \A x \in Usable :
                    x < got'[c][i] => Trimmed(x) \/ \E j \in 1 .. i - 1 : got'[c][j] = x
  <2> DEFINE n == Len(got[c])
  <2>1. /\ n \in Nat /\ Len(got'[c]) = n + 1 /\ got'[c][n + 1] = e
        /\ \A i \in 1 .. n : got'[c][i] = got[c][i]
        /\ \A x : Has(got'[c], x) <=> x = e \/ Has(got[c], x)
    BY <1>1, <1>12, SentFacts
  <2>2. seen'[c] = seen[c] \cup {e}
    BY <1>1, <1>12 DEF StreamTypes
  <2>3. (\A x : Has(got[c], x) => \E j \in 1 .. n : got[c][j] = x)
        /\ \A i \in 1 .. n : \A x \in Usable : x < got[c][i] => Trimmed(x) \/ \E j \in 1 .. i - 1 : got[c][j] = x
    BY <1>8 DEF Has
  <2> HIDE DEF n
  <2>4. ASSUME NEW i \in 1 .. n + 1, NEW x \in Usable, x < got'[c][i], ~Trimmed(x) PROVE \E j \in 1 .. i - 1 : got'[c][j] = x
    <3>1. CASE i = n + 1
      <4>1. i - 1 = n
        BY <2>1, <3>1
      <4> QED BY <1>12, <2>1, <2>3, <2>4, <3>1, <4>1
    <3>2. CASE i \in 1 .. n
      <4>1. \A j \in 1 .. i - 1 : got'[c][j] = got[c][j]
        BY <2>1, <3>2
      <4> QED BY <2>1, <2>3, <2>4, <3>2, <4>1
    <3> QED BY <2>1, <3>1, <3>2
  <2> QED BY <1>8, <2>1, <2>2, <2>4
<1>13. CASE Replay(c)
  <2> DEFINE m == Len(todo[c])
             e == todo[c][1]
  <2>1. /\ m \in Nat \ {0} /\ Len(todo'[c]) = m - 1 /\ \A k \in 1 .. m - 1 : todo'[c][k] = todo[c][k + 1]
        /\ e \in Events /\ Head(todo[c]) = e
    BY <1>1, <1>13, TodoFacts DEF Replay
  <2>2. /\ got' = [got EXCEPT ![c] = Append(@, e)] /\ seen' = [seen EXCEPT ![c] = @ \cup {e}]
        /\ spc[c] = "replay" /\ pos' = pos
    BY <1>13, <2>1 DEF Replay, Send
  <2>3. spc'[c] \in {"replay", "ended"}
    BY <1>1, <1>13 DEF Replay, Send, StreamTypes
  <2>4. /\ \A k \in 1 .. m : \A x \in Usable :
              x < todo[c][k] => Trimmed(x) \/ Has(got[c], x) \/ \E j \in 1 .. k - 1 : todo[c][j] = x
        /\ \A i \in 1 .. pos[c] : Trimmed(channel[i]) \/ Has(got[c], channel[i]) \/ \E j \in 1 .. m : todo[c][j] = channel[i]
    BY <1>8, <2>2 DEF Has
  <2>5. \A x \in Usable : x < e => Trimmed(x) \/ Has(got[c], x)
    <3>1. 1 \in 1 .. m /\ (1 .. 1 - 1) = {}
      BY <2>1
    <3> QED BY <2>4, <3>1
  <2> HIDE DEF m, e
  <2>6. /\ \A x \in seen'[c] : Has(got'[c], x)
        /\ \A x : Has(got'[c], x) <=> x = e \/ Has(got[c], x)
        /\ \A i \in 1 .. Len(got'[c]) : \A x \in Usable :
              x < got'[c][i] => Trimmed(x) \/ \E j \in 1 .. i - 1 : got'[c][j] = x
    BY <1>12, <2>1, <2>2, <2>5
  <2>7. ASSUME NEW j \in 1 .. m PROVE todo[c][j] = e \/ (j - 1 \in 1 .. m - 1 /\ todo'[c][j - 1] = todo[c][j])
    <3>1. CASE j = 1
      BY <3>1 DEF e
    <3>2. CASE j # 1
      <4>1. j - 1 \in 1 .. m - 1 /\ (j - 1) + 1 = j
        BY <2>1, <3>2
      <4> QED BY <2>1, <4>1
    <3> QED BY <3>1, <3>2
  <2>8. ASSUME NEW k \in 1 .. m - 1, NEW x \in Usable, x < todo'[c][k], ~Trimmed(x), ~Has(got'[c], x)
        PROVE  \E j \in 1 .. k - 1 : todo'[c][j] = x
    <3>1. k + 1 \in 1 .. m /\ todo'[c][k] = todo[c][k + 1] /\ (k + 1) - 1 = k
      BY <2>1
    <3>2. PICK j \in 1 .. (k + 1) - 1 : todo[c][j] = x
      BY <2>4, <2>6, <2>8, <3>1
    <3>3. j \in 1 .. m /\ x # e
      BY <2>1, <2>6, <2>8, <3>1
    <3>4. j - 1 \in 1 .. m - 1 /\ todo'[c][j - 1] = x
      BY <2>7, <3>2, <3>3
    <3>5. j - 1 \in 1 .. k - 1
      BY <3>1, <3>2, <3>4
    <3> QED BY <3>4, <3>5
  <2>9. \A i \in 1 .. pos[c] : Trimmed(channel[i]) \/ Has(got'[c], channel[i]) \/ Has(todo'[c], channel[i])
    <3> SUFFICES ASSUME NEW i \in 1 .. pos[c], ~Trimmed(channel[i]), ~Has(got'[c], channel[i]) PROVE Has(todo'[c], channel[i])
      OBVIOUS
    <3>1. channel[i] # e /\ ~Has(got[c], channel[i])
      BY <2>6
    <3>2. PICK j \in 1 .. m : todo[c][j] = channel[i]
      BY <2>4, <3>1
    <3>3. j - 1 \in 1 .. Len(todo'[c]) /\ todo'[c][j - 1] = channel[i]
      BY <2>1, <2>7, <3>1, <3>2
    <3> QED BY <3>3 DEF Has
  <2> QED BY <1>8, <2>1, <2>2, <2>3, <2>6, <2>8, <2>9
<1>14. CASE GoLive(c)
  <2>1. spc[c] = "replay" /\ todo[c] = <<>> /\ spc'[c] = "live" /\ UNCHANGED <<pos, seen, got>>
    BY <1>1, <1>14 DEF GoLive, StreamTypes
  <2>2. \A e : ~Has(todo[c], e)
    BY <2>1 DEF Has
  <2> QED BY <1>8, <2>1, <2>2
<1>15. CASE Listen(c)
  <2> DEFINE e == channel[pos[c] + 1]
  <2>1. spc[c] = "live" /\ pos[c] + 1 \in 1 .. Len(channel) /\ pos'[c] = pos[c] + 1
    BY <1>1, <1>6, <1>15 DEF Listen, StreamTypes
  <2>2. e \in Usable /\ e \in Events /\ \A x \in Usable : x < e => \E j \in 1 .. (pos[c] + 1) - 1 : channel[j] = x
    BY <1>4, <2>1 DEF Usable
  <2>3. (pos[c] + 1) - 1 = pos[c] /\ \A i \in 1 .. pos[c] + 1 : i \in 1 .. pos[c] \/ i = pos[c] + 1
    BY <1>6
  <2>4. \A x \in Usable : x < e => Trimmed(x) \/ Has(got[c], x)
    BY <1>8, <2>1, <2>2, <2>3
  <2>5. CASE e \in seen[c]
    <3>1. UNCHANGED <<spc, seen, got>> /\ Has(got[c], e)
      BY <1>8, <1>15, <2>5 DEF Listen
    <3> QED BY <1>8, <2>1, <2>3, <3>1
  <2>6. CASE e \notin seen[c]
    <3>1. got' = [got EXCEPT ![c] = Append(@, e)] /\ seen' = [seen EXCEPT ![c] = @ \cup {e}]
      BY <1>15, <2>6 DEF Listen, Send
    <3>2. spc'[c] \in {"live", "ended"}
      BY <1>1, <1>15, <2>6 DEF Listen, Send, StreamTypes
    <3>3. channel[pos[c] + 1] = e
      OBVIOUS
    <3> HIDE DEF e
    <3>4. /\ \A x \in seen'[c] : Has(got'[c], x)
          /\ \A x : Has(got'[c], x) <=> x = e \/ Has(got[c], x)
          /\ \A i \in 1 .. Len(got'[c]) : \A x \in Usable :
                x < got'[c][i] => Trimmed(x) \/ \E j \in 1 .. i - 1 : got'[c][j] = x
      BY <1>12, <2>2, <2>4, <3>1
    <3>5. \A i \in 1 .. pos[c] + 1 : Trimmed(channel[i]) \/ Has(got'[c], channel[i])
      BY <1>8, <2>1, <2>3, <3>3, <3>4
    <3> QED BY <2>1, <3>2, <3>4, <3>5
  <2> QED BY <2>5, <2>6
<1>16. CASE Drop(c)
  <2>1. spc'[c] = "closed" /\ UNCHANGED <<seen, got>>
    BY <1>1, <1>16 DEF Drop, StreamTypes
  <2> QED BY <1>8, <2>1
<1> QED BY <1>10, <1>11, <1>13, <1>14, <1>15, <1>16 DEF Stream

(* The invariant holds before the first event.                             *)
LEMMA InitStream == Init => StreamState
<1> SUFFICES ASSUME Init PROVE StreamState
  OBVIOUS
<1>1. HubInv
  BY InitHub DEF Init
<1>2. QueueTypes /\ InLine /\ Delivered
  BY HubAssumption DEF Init, HubInit, QueueTypes, InLine, LineOf, Delivered, Locked, HoldsLock
<1>3. Kept /\ MarkedInOrder /\ PushedInOrder /\ Backed /\ Concluded
  <2>1. Len(<<>>) = 0 /\ \A e \in Usable : e \in Events /\ ~(e <= 0)
    BY HubAssumption DEF Usable, Events
  <2> QED BY <2>1, HubAssumption DEF Init, HubInit, Kept, MarkedInOrder, PushedInOrder, Backed, Concluded, HoldsLock, Locked, Usable, Events
<1>4. StreamTypes /\ FirstConnection /\ CaughtUp
  BY StreamAssumption DEF Init, StreamTypes, FirstConnection, CaughtUp, Caught
<1> QED BY <1>1, <1>2, <1>3, <1>4 DEF StreamState, HubState

(* Every step of the one hub and of the clients keeps it.                  *)
LEMMA NextStream == OneHub /\ StreamState /\ [Next]_vars => StreamState'
<1> SUFFICES ASSUME OneHub, StreamState, [Next]_vars PROVE StreamState'
  OBVIOUS
<1>1. HubState /\ HubInv /\ Kept /\ MarkedInOrder /\ PushedInOrder /\ Backed /\ Concluded /\ StreamTypes /\ QueueTypes /\ HubTypes
  BY DEF StreamState, HubState, HubInv
<1>2. ASSUME NEW c \in Clients, Stream(c) \/ Drop(c) PROVE UNCHANGED hubVars
  BY <1>1, <1>2, ClientSteps
<1>3. [HubNext]_hubVars
  BY <1>2 DEF Next, vars
<1>4. HubInv'
  BY <1>1, <1>3, NextHubTypes, NextAnnouncing, NextStoring DEF HubInv
<1>5. HubState' /\ Kept' /\ MarkedInOrder' /\ PushedInOrder' /\ Backed' /\ Concluded'
  BY <1>1, <1>3, <1>4, NextQueueTypes, NextInLine, NextDelivered, NextKept, NextMarkedInOrder, NextPushedInOrder, NextBacked,
     NextConcluded DEF HubState
<1>6. CASE UNCHANGED streamVars
  BY <1>3, <1>5, <1>6, HubKeepsClients DEF StreamState
<1>7. ASSUME NEW c \in Clients, Stream(c) \/ Drop(c) PROVE StreamState'
  BY <1>1, <1>5, <1>7, ClientSteps, ClientFirst, ClientCaught DEF StreamState
<1> QED BY <1>6, <1>7 DEF Next, vars

(* With one hub, whatever its handlers, the calls that fail, its crashes   *)
(* and lost channels, and however often the clients reconnect: what is     *)
(* acked was stored, the history is in order, a connection delivers        *)
(* nothing twice, and a client receives no event before the earlier ones   *)
(* (StatusStream.StreamDelivers).                                          *)
THEOREM StreamsDeliver ==
    ASSUME OneHub
    PROVE  Spec => []StreamDelivers
<1>1. StreamState => StreamDelivers
  <2> SUFFICES ASSUME StreamState PROVE StreamDelivers
    OBVIOUS
  <2>1. TypeOK
    BY DEF StreamState, HubState, HubInv, HubTypes, QueueTypes, StreamTypes, TypeOK, HubTypeOK
  <2>2. AckedIsStored /\ HistoryInOrder
    BY DEF StreamState, Backed, PushedInOrder, AckedIsStored, HistoryInOrder
  <2>3. ReceivedOnce
    BY DEF StreamState, FirstConnection, ReceivedOnce
  <2>4. ReceivedInOrder
    BY DEF StreamState, CaughtUp, Caught, Calm, ReceivedInOrder, Usable
  <2> QED BY <2>1, <2>2, <2>3, <2>4 DEF StreamDelivers
<1>2. StreamState /\ [Next]_vars => StreamState'
  BY NextStream
<1> QED BY <1>1, <1>2, InitStream, PTL DEF Spec

-----------------------------------------------------------------------------
(* Aggregation: no event is lost between its queues, retries and the       *)
(* dead-letter queue.                                                      *)

(* An event and the queue it is routed to.                                 *)
Routes == Children \X AggregationQueues

(* A message of the aggregation exchange.                                  *)
CopyType == [n : Nat, event : Children, queue : AggregationQueues, attempt : Nat,
             place : {"ready", "held", "retry", "dead"},
             step : {"none", "handler", "retry", "dead", "record", "ack", "reject"}]

(* What the state variables of Aggregation hold.                           *)
AggregationTypes ==
    /\ retryPolicyGiven \in BOOLEAN
    /\ publications \in [Routes -> Nat] /\ handlerFailures \in [Routes -> Nat]
    /\ declaredQueues \subseteq AggregationQueues
    /\ copies \subseteq CopyType

(* A message is numbered, routed, and has reached its step for a reason.   *)
Placed(c, policy, made, fails, reached) ==
    /\ 1 <= c.n /\ c.n <= made[Key(c)]
    /\ Key(c) \in reached
    /\ c.place = "held" <=> c.step # "none"
    /\ c.event \notin Malformed => c.attempt <= fails[Key(c)]
    /\ c.step = "handler" => c.event \notin Malformed
    /\ c.step = "retry" => policy /\ c.attempt < fails[Key(c)]
    /\ c.step = "dead" => policy /\ (c.event \in Malformed \/ fails[Key(c)] > AggregationRetries)
    /\ c.step = "reject" => ~policy /\ (c.event \in Malformed \/ fails[Key(c)] > 0)
    /\ c.place = "dead" => c.event \in Malformed \/ fails[Key(c)] > AggregationRetries

(* One about to be acked was aggregated or has a later copy; one about to  *)
(* be recorded has a copy in the dead-letter queue.                        *)
Followed(c, policy, C, done) ==
    /\ c.step = "ack" => \/ Key(c) \in done
                         \/ policy /\ \E d \in C : Key(d) = Key(c) /\ d.n > c.n
    /\ c.step = "record" => policy /\ \E d \in C : Key(d) = Key(c) /\ d.n > c.n /\ d.place = "dead"

(* The inductive invariant of Aggregation.                                 *)
AggregationInv ==
    /\ AggregationTypes
    /\ \A c \in copies : /\ Placed(c, retryPolicyGiven, publications, handlerFailures, reachedQueues)
                         /\ Followed(c, retryPolicyGiven, copies, aggregated)
    /\ reachedQueues \subseteq Routes
    /\ \A x \in reachedQueues :
         \/ x \in aggregated \/ \E c \in copies : Key(c) = x
         \/ ~retryPolicyGiven /\ (x[1] \in Malformed \/ handlerFailures[x] > 0)
    /\ \A x \in dlqRecords : \E c \in copies : Key(c) = x /\ c.place = "dead"
    /\ \A x \in Routes : x[1] \in unpublished => publications[x] = 0

(* Whatever was there is there still, or a later copy of it, or was        *)
(* aggregated; a dead letter stays.                                        *)
Covers(C, D, done) ==
    \A c \in C : \/ c.place # "dead" /\ Key(c) \in done
                 \/ \E d \in D : Key(d) = Key(c) /\ d.n >= c.n /\ (c.place = "dead" => d.place = "dead")

(* The key of a message is a route.                                        *)
LEMMA KeyRoutes == \A c \in CopyType : Key(c) \in Routes /\ c.n \in Nat /\ c.attempt \in Nat /\ Key(c)[1] = c.event
BY DEF CopyType, Key, Routes

(* Moving a message to a step changes nothing else of it.                  *)
LEMMA AtFields ==
    ASSUME NEW c \in CopyType,
           NEW s \in {"none", "handler", "retry", "dead", "record", "ack", "reject"}
    PROVE  /\ At(c, s) \in CopyType /\ Key(At(c, s)) = Key(c) /\ At(c, s).n = c.n
           /\ At(c, s).event = c.event /\ At(c, s).attempt = c.attempt
           /\ At(c, s).place = c.place /\ At(c, s).step = s
BY DEF At, CopyType, Key

(* A message that is placed stays so when counters grow.                   *)
LEMMA PlacedKept ==
    ASSUME NEW c \in CopyType, NEW policy \in BOOLEAN,
           NEW p \in [Routes -> Nat], NEW f \in [Routes -> Nat], NEW r,
           NEW p2 \in [Routes -> Nat], NEW f2 \in [Routes -> Nat], NEW r2,
           Placed(c, policy, p, f, r),
           \A x \in Routes : f[x] <= f2[x], p[Key(c)] <= p2[Key(c)], r \subseteq r2
    PROVE  Placed(c, policy, p2, f2, r2)
<1>1. Key(c) \in Routes /\ c.n \in Nat /\ c.attempt \in Nat
  BY KeyRoutes
<1>2. p[Key(c)] \in Nat /\ p2[Key(c)] \in Nat /\ f[Key(c)] \in Nat /\ f2[Key(c)] \in Nat /\ f[Key(c)] <= f2[Key(c)]
  BY <1>1
<1> QED BY <1>1, <1>2, AggregationAssumption DEF Placed

(* A message that is followed stays so when its followers are covered.     *)
LEMMA FollowedKept ==
    ASSUME NEW C \in SUBSET CopyType, NEW D \in SUBSET CopyType, NEW done, NEW done2, NEW policy \in BOOLEAN,
           done \subseteq done2, policy => Covers(C, D, done2),
           NEW c \in CopyType, Followed(c, policy, C, done)
    PROVE  Followed(c, policy, D, done2)
<1> USE KeyRoutes DEF Followed, Covers
<1>1. CASE c.step = "ack" /\ policy /\ Key(c) \notin done2
  <2>1. PICK d \in C : Key(d) = Key(c) /\ d.n > c.n
    BY <1>1
  <2>2. PICK e \in D : Key(e) = Key(d) /\ e.n >= d.n
    BY <1>1, <2>1
  <2>3. e.n > c.n
    BY <2>1, <2>2
  <2> QED BY <1>1, <2>1, <2>2, <2>3
<1>2. CASE c.step = "record"
  <2>1. PICK d \in C : Key(d) = Key(c) /\ d.n > c.n /\ d.place = "dead"
    BY <1>2
  <2>2. PICK e \in D : Key(e) = Key(d) /\ e.n >= d.n /\ e.place = "dead"
    BY <1>2, <2>1
  <2>3. e.n > c.n
    BY <2>1, <2>2
  <2> QED BY <1>2, <2>1, <2>2, <2>3
<1> QED BY <1>1, <1>2

(* The invariant holds before the first event.                             *)
LEMMA InitAggregation == AggregationInit => AggregationInv
BY DEF AggregationInit, AggregationInv, AggregationTypes, Routes

(* What a step has to show.                                                *)
LEMMA AggregationStep ==
    ASSUME AggregationInv, AggregationTypes', UNCHANGED retryPolicyGiven,
           \A x \in Routes : publications[x] <= publications'[x],
           \A x \in Routes : handlerFailures[x] <= handlerFailures'[x],
           reachedQueues \subseteq reachedQueues', aggregated \subseteq aggregated',
           retryPolicyGiven => Covers(copies, copies', aggregated'),
           \A c \in copies' : \/ c \in copies
                              \/ /\ Placed(c, retryPolicyGiven, publications', handlerFailures', reachedQueues')
                                 /\ Followed(c, retryPolicyGiven, copies', aggregated')
    PROVE  \A c \in copies' : /\ Placed(c, retryPolicyGiven', publications', handlerFailures', reachedQueues')
                              /\ Followed(c, retryPolicyGiven', copies', aggregated')
<1> SUFFICES ASSUME NEW c \in copies, c \in copies'
             PROVE  /\ Placed(c, retryPolicyGiven, publications', handlerFailures', reachedQueues')
                    /\ Followed(c, retryPolicyGiven, copies', aggregated')
  OBVIOUS
<1>1. /\ c \in CopyType /\ copies \in SUBSET CopyType /\ copies' \in SUBSET CopyType /\ retryPolicyGiven \in BOOLEAN
      /\ publications \in [Routes -> Nat] /\ publications' \in [Routes -> Nat]
      /\ handlerFailures \in [Routes -> Nat] /\ handlerFailures' \in [Routes -> Nat]
  BY DEF AggregationInv, AggregationTypes
<1>2. /\ Placed(c, retryPolicyGiven, publications, handlerFailures, reachedQueues)
      /\ Followed(c, retryPolicyGiven, copies, aggregated)
  BY DEF AggregationInv
<1>3. Key(c) \in Routes
  BY <1>1, KeyRoutes
<1>4. Placed(c, retryPolicyGiven, publications', handlerFailures', reachedQueues')
  BY <1>1, <1>2, <1>3, PlacedKept, Zenon
<1>5. Followed(c, retryPolicyGiven, copies', aggregated')
  BY <1>1, <1>2, FollowedKept
<1> QED BY <1>4, <1>5

(* Changing the step or the place of one message, which keeps its number   *)
(* and is not in the dead-letter queue.                                    *)
LEMMA MovedCovers ==
    ASSUME NEW C \in SUBSET CopyType, NEW c \in C, NEW d, NEW D, NEW done, c.place # "dead",
           Key(d) = Key(c), d.n = c.n, (C \ {c}) \cup {d} \subseteq D
    PROVE  Covers(C, D, done)
BY KeyRoutes DEF Covers

(* Every step of a publisher, a worker or the broker keeps the invariant.  *)
LEMMA NextAggregation == AggregationInv /\ [AggregationNext]_aggregationVars => AggregationInv'
<1> SUFFICES ASSUME AggregationInv, [AggregationNext]_aggregationVars PROVE AggregationInv'
  OBVIOUS
<1>t. AggregationTypes
  BY DEF AggregationInv
<1>p. \A c \in copies : /\ Placed(c, retryPolicyGiven, publications, handlerFailures, reachedQueues)
                        /\ Followed(c, retryPolicyGiven, copies, aggregated)
  BY DEF AggregationInv
<1>r. /\ reachedQueues \subseteq Routes
      /\ \A x \in reachedQueues :
           \/ x \in aggregated \/ \E c \in copies : Key(c) = x
           \/ ~retryPolicyGiven /\ (x[1] \in Malformed \/ handlerFailures[x] > 0)
      /\ \A x \in dlqRecords : \E c \in copies : Key(c) = x /\ c.place = "dead"
      /\ \A x \in Routes : x[1] \in unpublished => publications[x] = 0
  BY DEF AggregationInv
<1>n. /\ \A x \in Routes : publications[x] <= publications[x]
      /\ \A x \in Routes : handlerFailures[x] <= handlerFailures[x]
  BY <1>t DEF AggregationTypes
<1>k. \A c \in copies : /\ c \in CopyType /\ Key(c) \in Routes /\ c.n \in Nat /\ c.attempt \in Nat
                        /\ publications[Key(c)] \in Nat /\ handlerFailures[Key(c)] \in Nat
  BY <1>t, KeyRoutes DEF AggregationTypes
(* A step of one message that publishes nothing and keeps the message.     *)
<1>m. ASSUME NEW c \in copies, c.place # "dead", NEW d \in CopyType,
             Key(d) = Key(c), d.n = c.n,
             copies' = Without(c) \cup {d},
             Placed(d, retryPolicyGiven, publications, handlerFailures', reachedQueues),
             Followed(d, retryPolicyGiven, copies', aggregated'),
             handlerFailures' \in [Routes -> Nat],
             \A x \in Routes : handlerFailures[x] <= handlerFailures'[x],
             aggregated \subseteq aggregated',
             \A x \in dlqRecords' : x \in dlqRecords \/ \E b \in copies : Key(b) = x /\ b.place = "dead",
             UNCHANGED <<retryPolicyGiven, publications, declaredQueues, unpublished, reachedQueues>>
      PROVE  AggregationInv'
  <2>1. AggregationTypes'
    BY <1>m, <1>t DEF AggregationTypes, Without
  <2>2. Covers(copies, copies', aggregated')
    BY <1>m, <1>t, MovedCovers DEF AggregationTypes, Without
  <2>3. \A b \in copies' : b \in copies \/ b = d
    BY <1>m DEF Without
  <2>4. \A b \in copies' : /\ Placed(b, retryPolicyGiven', publications', handlerFailures', reachedQueues')
                           /\ Followed(b, retryPolicyGiven', copies', aggregated')
    BY <1>m, <1>n, <2>1, <2>2, <2>3, AggregationStep
  <2>5. \A x \in reachedQueues :
           \/ x \in aggregated' \/ \E b \in copies' : Key(b) = x
           \/ ~retryPolicyGiven /\ (x[1] \in Malformed \/ handlerFailures'[x] > 0)
    <3> SUFFICES ASSUME NEW x \in reachedQueues
                 PROVE  \/ x \in aggregated' \/ \E b \in copies' : Key(b) = x
                        \/ ~retryPolicyGiven /\ (x[1] \in Malformed \/ handlerFailures'[x] > 0)
      OBVIOUS
    <3>1. CASE x \in aggregated \/ \E b \in copies : Key(b) = x
      BY <1>m, <2>2, <3>1 DEF Covers
    <3>2. CASE ~retryPolicyGiven /\ (x[1] \in Malformed \/ handlerFailures[x] > 0)
      <4>1. x \in Routes
        BY <1>r
      <4>2. \A i, j \in Nat : i > 0 /\ i <= j => j > 0
        OBVIOUS
      <4>3. handlerFailures[x] \in Nat /\ handlerFailures'[x] \in Nat /\ handlerFailures[x] <= handlerFailures'[x]
        BY <1>m, <1>t, <4>1, Zenon DEF AggregationTypes
      <4>4. handlerFailures[x] > 0 => handlerFailures'[x] > 0
        BY <4>2, <4>3, Zenon
      <4> QED BY <3>2, <4>4, Zenon
    <3> QED BY <1>r, <3>1, <3>2, Zenon
  <2>6. \A x \in dlqRecords' : \E b \in copies' : Key(b) = x /\ b.place = "dead"
    BY <1>m, <1>r, <2>2 DEF Covers
  <2> QED BY <1>m, <1>r, <2>1, <2>4, <2>5, <2>6 DEF AggregationInv
(* A step that publishes one more copy of a message and goes on with it.   *)
<1>o. ASSUME NEW c \in copies, c.step # "none", NEW step \in {"record", "ack"}, NEW d \in CopyType,
             Key(d) = Key(c), d.n = publications[Key(c)] + 1, d.step = "none",
             copies' = Without(c) \cup {At(c, step), d}, Published(c),
             retryPolicyGiven, step = "record" => d.place = "dead",
             Placed(d, TRUE, publications', handlerFailures, reachedQueues),
             UNCHANGED <<retryPolicyGiven, declaredQueues, unpublished, reachedQueues, aggregated, handlerFailures, dlqRecords>>
      PROVE  AggregationInv'
  <2>1. /\ At(c, step) \in CopyType /\ Key(At(c, step)) = Key(c) /\ At(c, step).n = c.n
        /\ At(c, step).event = c.event /\ At(c, step).attempt = c.attempt
        /\ At(c, step).place = c.place /\ At(c, step).step = step
    BY <1>k, AtFields
  <2>2. AggregationTypes'
    <3>1. publications' \in [Routes -> Nat]
      BY <1>k, <1>o, <1>t DEF Published, AggregationTypes
    <3> QED BY <1>o, <1>t, <2>1, <3>1 DEF AggregationTypes, Without
  <2>3. /\ \A x \in Routes : publications[x] <= publications'[x]
        /\ publications'[Key(c)] = publications[Key(c)] + 1
    <3>1. /\ \A x \in Routes : x # Key(c) => publications'[x] = publications[x]
          /\ publications'[Key(c)] = publications[Key(c)] + 1
      BY <1>k, <1>o, <1>t DEF Published, AggregationTypes
    <3>2. \A x \in Routes : publications[x] \in Nat
      BY <1>t DEF AggregationTypes
    <3> QED BY <1>k, <3>1, <3>2
  <2>4. c.place # "dead" /\ c.place = "held" /\ c.n <= publications[Key(c)]
    BY <1>o, <1>p DEF Placed
  <2>5. Covers(copies, copies', aggregated')
    BY <1>o, <1>t, <2>1, <2>4, MovedCovers DEF AggregationTypes, Without
  <2>6. \A b \in copies' : b \in copies \/ b = d \/ b = At(c, step)
    BY <1>o DEF Without
  <2>7. Placed(At(c, step), retryPolicyGiven, publications', handlerFailures', reachedQueues')
    <3>1. 1 <= c.n /\ Key(c) \in reachedQueues /\ (c.event \notin Malformed => c.attempt <= handlerFailures[Key(c)])
      BY <1>p DEF Placed
    <3>2. c.n <= publications'[Key(c)]
      BY <1>k, <2>3, <2>4
    <3> QED BY <1>o, <2>1, <2>4, <3>1, <3>2 DEF Placed
  <2>8. Followed(At(c, step), retryPolicyGiven, copies', aggregated')
    <3>1. d.n > c.n
      BY <1>k, <1>o, <2>4
    <3> QED BY <1>o, <2>1, <3>1 DEF Followed
  <2>9. Placed(d, retryPolicyGiven, publications', handlerFailures', reachedQueues')
    BY <1>o
  <2>10. Followed(d, retryPolicyGiven, copies', aggregated')
    BY <1>o DEF Followed
  <2>11. \A b \in copies' : /\ Placed(b, retryPolicyGiven', publications', handlerFailures', reachedQueues')
                            /\ Followed(b, retryPolicyGiven', copies', aggregated')
    BY <1>o, <1>n, <2>2, <2>3, <2>5, <2>6, <2>7, <2>8, <2>9, <2>10, AggregationStep
  <2>12. \A x \in reachedQueues : x \in aggregated' \/ \E b \in copies' : Key(b) = x
    BY <1>o, <1>r, <2>5 DEF Covers
  <2>13. \A x \in dlqRecords : \E b \in copies' : Key(b) = x /\ b.place = "dead"
    BY <1>r, <2>5 DEF Covers
  <2>14. \A x \in Routes : x[1] \in unpublished => publications'[x] = 0
    <3>1. Key(c)[1] \notin unpublished
      <4>1. 1 <= c.n
        BY <1>p DEF Placed
      <4> QED BY <1>k, <1>r, <2>4, <4>1
    <3>2. \A x \in Routes : x # Key(c) => publications'[x] = publications[x]
      BY <1>k, <1>o, <1>t DEF Published, AggregationTypes
    <3> QED BY <1>r, <3>1, <3>2
  <2> QED BY <1>o, <1>r, <2>2, <2>11, <2>12, <2>13, <2>14 DEF AggregationInv
<1>1. ASSUME NEW c \in copies, Receive(c) PROVE AggregationInv'
  <2> DEFINE step == IF c.event \notin Malformed THEN "handler" ELSE IF retryPolicyGiven THEN "dead" ELSE "reject"
             held == [c EXCEPT !.place = "held"]
  <2>1. held \in CopyType /\ Key(held) = Key(c) /\ held.n = c.n /\ held.attempt = c.attempt
        /\ held.event = c.event /\ held.place = "held"
    BY <1>k DEF CopyType, Key
  <2> HIDE DEF held
  <2>2. step \in {"handler", "dead", "reject"}
    OBVIOUS
  <2>3. /\ At(held, step) \in CopyType /\ Key(At(held, step)) = Key(c) /\ At(held, step).n = c.n
        /\ At(held, step).event = c.event /\ At(held, step).attempt = c.attempt
        /\ At(held, step).place = "held" /\ At(held, step).step = step
    BY <2>1, <2>2, AtFields
  <2>4. Placed(At(held, step), retryPolicyGiven, publications, handlerFailures, reachedQueues)
    BY <1>p, <2>2, <2>3 DEF Placed
  <2>5. Followed(At(held, step), retryPolicyGiven, copies', aggregated)
    BY <2>2, <2>3 DEF Followed
  <2>6. copies' = Without(c) \cup {At(held, step)} /\ c.place # "dead"
    BY <1>1 DEF Receive, held
  <2>7. UNCHANGED <<retryPolicyGiven, publications, declaredQueues, unpublished, reachedQueues, aggregated, handlerFailures, dlqRecords>>
    BY <1>1 DEF Receive
  <2> HIDE DEF step
  <2> QED BY <1>m, <1>n, <1>t, <2>3, <2>4, <2>5, <2>6, <2>7 DEF AggregationTypes
<1>2. ASSUME NEW c \in copies, HandlerSucceeds(c) PROVE AggregationInv'
  <2>1. /\ At(c, "ack") \in CopyType /\ Key(At(c, "ack")) = Key(c) /\ At(c, "ack").n = c.n
        /\ At(c, "ack").event = c.event /\ At(c, "ack").attempt = c.attempt
        /\ At(c, "ack").place = c.place /\ At(c, "ack").step = "ack"
    BY <1>k, AtFields
  <2>2. c.place = "held" /\ Placed(At(c, "ack"), retryPolicyGiven, publications, handlerFailures, reachedQueues)
    BY <1>2, <1>p, <2>1 DEF Placed, HandlerSucceeds
  <2>3. Followed(At(c, "ack"), retryPolicyGiven, copies', aggregated')
    BY <1>2, <2>1 DEF Followed, HandlerSucceeds
  <2>4. UNCHANGED <<retryPolicyGiven, publications, declaredQueues, unpublished, reachedQueues, handlerFailures, dlqRecords>>
    BY <1>2 DEF HandlerSucceeds
  <2>5. copies' = Without(c) \cup {At(c, "ack")} /\ aggregated \subseteq aggregated'
    BY <1>2 DEF HandlerSucceeds
  <2> QED BY <1>m, <1>n, <1>t, <2>1, <2>2, <2>3, <2>4, <2>5 DEF AggregationTypes
<1>3. ASSUME NEW c \in copies, HandlerFails(c) PROVE AggregationInv'
  <2> DEFINE step == IF ~retryPolicyGiven THEN "reject" ELSE IF c.attempt < AggregationRetries THEN "retry" ELSE "dead"
  <2>1. step \in {"reject", "retry", "dead"}
    OBVIOUS
  <2>2. /\ At(c, step) \in CopyType /\ Key(At(c, step)) = Key(c) /\ At(c, step).n = c.n
        /\ At(c, step).event = c.event /\ At(c, step).attempt = c.attempt
        /\ At(c, step).place = c.place /\ At(c, step).step = step
    BY <1>k, <2>1, AtFields
  <2>3. /\ handlerFailures' \in [Routes -> Nat]
        /\ handlerFailures'[Key(c)] = handlerFailures[Key(c)] + 1
        /\ \A x \in Routes : x # Key(c) => handlerFailures'[x] = handlerFailures[x]
    BY <1>3, <1>k, <1>t DEF HandlerFails, AggregationTypes
  <2>4. \A x \in Routes : handlerFailures[x] <= handlerFailures'[x]
    <3>1. \A x \in Routes : handlerFailures[x] \in Nat
      BY <1>t DEF AggregationTypes
    <3>2. /\ handlerFailures'[Key(c)] = handlerFailures[Key(c)] + 1
          /\ \A x \in Routes : x # Key(c) => handlerFailures'[x] = handlerFailures[x]
      BY <2>3
    <3> QED BY <3>1, <3>2
  <2>5. /\ c.place = "held" /\ 1 <= c.n /\ c.n <= publications[Key(c)] /\ Key(c) \in reachedQueues
        /\ c.event \notin Malformed /\ c.attempt <= handlerFailures[Key(c)]
    BY <1>3, <1>p DEF Placed, HandlerFails
  <2>6. /\ c.attempt < handlerFailures'[Key(c)] /\ handlerFailures'[Key(c)] > 0 /\ c.attempt <= handlerFailures'[Key(c)]
        /\ ~(c.attempt < AggregationRetries) => handlerFailures'[Key(c)] > AggregationRetries
    <3>1. handlerFailures'[Key(c)] = handlerFailures[Key(c)] + 1
      BY <2>3
    <3> QED BY <1>k, <2>5, <3>1, AggregationAssumption
  <2>7. Placed(At(c, step), retryPolicyGiven, publications, handlerFailures', reachedQueues)
    BY <2>1, <2>2, <2>5, <2>6 DEF Placed
  <2>8. Followed(At(c, step), retryPolicyGiven, copies', aggregated)
    BY <2>1, <2>2 DEF Followed
  <2>9. copies' = Without(c) \cup {At(c, step)}
    BY <1>3 DEF HandlerFails
  <2>10. UNCHANGED <<retryPolicyGiven, publications, declaredQueues, unpublished, reachedQueues, aggregated, dlqRecords>>
    BY <1>3 DEF HandlerFails
  <2> HIDE DEF step
  <2> QED BY <1>m, <2>2, <2>3, <2>4, <2>5, <2>7, <2>8, <2>9, <2>10
<1>4. ASSUME NEW c \in copies, PublishRetryAction(c) PROVE AggregationInv'
  <2> DEFINE d == Copy(c.event, c.queue, c.attempt + 1, "retry")
  <2>1. c.step = "retry" /\ copies' = Without(c) \cup {At(c, "ack"), d} /\ Published(c)
    BY <1>4 DEF PublishRetryAction, PublishRetry
  <2>2. UNCHANGED <<retryPolicyGiven, declaredQueues, unpublished, reachedQueues, aggregated, handlerFailures, dlqRecords>>
    BY <1>4 DEF PublishRetryAction
  <2>3. retryPolicyGiven /\ c.attempt < handlerFailures[Key(c)] /\ Key(c) \in reachedQueues
    BY <1>p, <2>1 DEF Placed
  <2>4. publications[Key(c)] + 1 \in Nat /\ c.attempt + 1 \in Nat
    BY <1>k
  <2>5. /\ d.event = c.event /\ d.queue = c.queue /\ d.attempt = c.attempt + 1
        /\ d.place = "retry" /\ d.step = "none" /\ Key(d) = Key(c) /\ d.n = publications[Key(c)] + 1
    BY DEF Copy, Key
  <2>6. d \in CopyType
    BY <1>k, <2>4 DEF Copy, Key, CopyType
  <2> HIDE DEF d
  <2>7. publications'[Key(c)] = publications[Key(c)] + 1
    BY <1>k, <1>t, <2>1 DEF Published, AggregationTypes
  <2>8. Placed(d, TRUE, publications', handlerFailures, reachedQueues)
    <3>1. 1 <= d.n /\ d.n <= publications'[Key(d)]
      BY <1>k, <2>5, <2>7
    <3>2. d.attempt <= handlerFailures[Key(d)]
      BY <1>k, <2>3, <2>5
    <3> QED BY <2>3, <2>5, <3>1, <3>2 DEF Placed
  <2> QED BY <1>o, <2>1, <2>2, <2>3, <2>5, <2>6, <2>8
<1>5. ASSUME NEW c \in copies, PublishDead(c) PROVE AggregationInv'
  <2> DEFINE d == Copy(c.event, c.queue, c.attempt, "dead")
  <2>1. c.step = "dead" /\ copies' = Without(c) \cup {At(c, "record"), d} /\ Published(c)
    BY <1>5 DEF PublishDead
  <2>2. UNCHANGED <<retryPolicyGiven, declaredQueues, unpublished, reachedQueues, aggregated, handlerFailures, dlqRecords>>
    BY <1>5 DEF PublishDead
  <2>3. /\ retryPolicyGiven /\ (c.event \in Malformed \/ handlerFailures[Key(c)] > AggregationRetries)
        /\ Key(c) \in reachedQueues /\ (c.event \notin Malformed => c.attempt <= handlerFailures[Key(c)])
    BY <1>p, <2>1 DEF Placed
  <2>4. publications[Key(c)] + 1 \in Nat
    BY <1>k
  <2>5. /\ d.event = c.event /\ d.queue = c.queue /\ d.attempt = c.attempt
        /\ d.place = "dead" /\ d.step = "none" /\ Key(d) = Key(c) /\ d.n = publications[Key(c)] + 1
    BY DEF Copy, Key
  <2>6. d \in CopyType
    BY <1>k, <2>4 DEF Copy, Key, CopyType
  <2> HIDE DEF d
  <2>7. publications'[Key(c)] = publications[Key(c)] + 1
    BY <1>k, <1>t, <2>1 DEF Published, AggregationTypes
  <2>8. Placed(d, TRUE, publications', handlerFailures, reachedQueues)
    <3>1. 1 <= d.n /\ d.n <= publications'[Key(d)]
      BY <1>k, <2>5, <2>7
    <3> QED BY <2>3, <2>5, <3>1 DEF Placed
  <2> QED BY <1>o, <2>1, <2>2, <2>3, <2>5, <2>6, <2>8
<1>6. ASSUME NEW c \in copies, NEW stored \in BOOLEAN, PersistRecord(c, stored) PROVE AggregationInv'
  <2>1. /\ At(c, "ack") \in CopyType /\ Key(At(c, "ack")) = Key(c) /\ At(c, "ack").n = c.n
        /\ At(c, "ack").event = c.event /\ At(c, "ack").attempt = c.attempt
        /\ At(c, "ack").place = c.place /\ At(c, "ack").step = "ack"
    BY <1>k, AtFields
  <2>2. /\ c.place = "held" /\ copies' = Without(c) \cup {At(c, "ack")}
        /\ Placed(At(c, "ack"), retryPolicyGiven, publications, handlerFailures, reachedQueues)
    BY <1>6, <1>p, <2>1 DEF Placed, PersistRecord
  <2>3. PICK b \in copies : Key(b) = Key(c) /\ b.n > c.n /\ b.place = "dead"
    BY <1>6, <1>p DEF Followed, PersistRecord
  <2>4. b # c /\ b \in copies' /\ retryPolicyGiven
    BY <1>6, <1>p, <2>2, <2>3 DEF Without, Followed, PersistRecord
  <2>5. Followed(At(c, "ack"), retryPolicyGiven, copies', aggregated)
    BY <2>1, <2>3, <2>4 DEF Followed
  <2>6. UNCHANGED <<retryPolicyGiven, publications, declaredQueues, unpublished, reachedQueues, aggregated, handlerFailures>>
    BY <1>6 DEF PersistRecord
  <2>7. \A x \in dlqRecords' : x \in dlqRecords \/ \E a \in copies : Key(a) = x /\ a.place = "dead"
    BY <1>6, <2>3 DEF PersistRecord
  <2> QED BY <1>m, <1>n, <1>t, <2>1, <2>2, <2>5, <2>6, <2>7 DEF AggregationTypes
<1>7. ASSUME NEW c \in copies, RetryDelayOver(c) PROVE AggregationInv'
  <2> DEFINE d == [c EXCEPT !.place = "ready"]
  <2>1. /\ d \in CopyType /\ Key(d) = Key(c) /\ d.n = c.n /\ d.event = c.event /\ d.attempt = c.attempt
        /\ d.place = "ready" /\ d.step = c.step
    BY <1>k DEF CopyType, Key
  <2>2. copies' = Without(c) \cup {d} /\ c.place = "retry"
    BY <1>7 DEF RetryDelayOver
  <2> HIDE DEF d
  <2>3. c.step = "none" /\ Placed(d, retryPolicyGiven, publications, handlerFailures, reachedQueues)
    BY <1>p, <2>1, <2>2 DEF Placed
  <2>4. Followed(d, retryPolicyGiven, copies', aggregated)
    BY <2>1, <2>3 DEF Followed
  <2>5. UNCHANGED <<retryPolicyGiven, publications, declaredQueues, unpublished, reachedQueues, aggregated, handlerFailures, dlqRecords>>
    BY <1>7 DEF RetryDelayOver
  <2> QED BY <1>m, <1>n, <1>t, <2>1, <2>2, <2>3, <2>4, <2>5 DEF AggregationTypes
<1>8. ASSUME NEW c \in copies, AckOrReject(c) PROVE AggregationInv'
  <2>1. copies' = copies \ {c} /\ c.step \in {"ack", "reject"}
    BY <1>8 DEF AckOrReject, Without
  <2>2. UNCHANGED <<retryPolicyGiven, publications, declaredQueues, unpublished, reachedQueues, aggregated, handlerFailures, dlqRecords>>
    BY <1>8 DEF AckOrReject
  <2>3. AggregationTypes'
    BY <1>t, <2>1, <2>2 DEF AggregationTypes
  <2>4. c.place = "held"
    BY <1>p, <2>1 DEF Placed
  <2>5. retryPolicyGiven => Covers(copies, copies', aggregated')
    <3> SUFFICES ASSUME retryPolicyGiven PROVE Covers(copies, copies \ {c}, aggregated)
      BY <2>1, <2>2
    <3>1. c.step = "ack"
      BY <1>p, <2>1 DEF Placed
    <3>2. Key(c) \in aggregated \/ \E b \in copies : Key(b) = Key(c) /\ b.n > c.n
      BY <1>p, <3>1 DEF Followed
    <3>3. Key(c) \in aggregated \/ \E b \in copies \ {c} : Key(b) = Key(c) /\ b.n >= c.n
      BY <1>k, <3>2
    <3>4. \A b \in copies : b.n >= b.n
      BY <1>k
    <3> QED BY <2>4, <3>3, <3>4 DEF Covers
  <2>6. \A b \in copies' : /\ Placed(b, retryPolicyGiven', publications', handlerFailures', reachedQueues')
                           /\ Followed(b, retryPolicyGiven', copies', aggregated')
    BY <1>n, <2>1, <2>2, <2>3, <2>5, AggregationStep
  <2>7. \A x \in reachedQueues :
           \/ x \in aggregated \/ \E b \in copies' : Key(b) = x
           \/ ~retryPolicyGiven /\ (x[1] \in Malformed \/ handlerFailures[x] > 0)
    <3>1. CASE retryPolicyGiven
      BY <1>r, <2>2, <2>5, <3>1 DEF Covers
    <3>2. CASE ~retryPolicyGiven
      <4>1. Key(c) \in aggregated \/ c.event \in Malformed \/ handlerFailures[Key(c)] > 0
        BY <1>p, <2>1, <3>2 DEF Placed, Followed
      <4>2. Key(c)[1] = c.event
        BY DEF Key
      <4> QED BY <1>r, <2>1, <3>2, <4>1, <4>2
    <3> QED BY <3>1, <3>2
  <2>8. \A x \in dlqRecords : \E b \in copies' : Key(b) = x /\ b.place = "dead"
    BY <1>r, <2>1, <2>4
  <2> QED BY <1>r, <2>2, <2>3, <2>6, <2>7, <2>8 DEF AggregationInv
<1>9. ASSUME NEW q \in AggregationQueues, ChannelCloses(q) PROVE AggregationInv'
  <2> DEFINE given(c) == [c EXCEPT !.place = "ready", !.step = "none"]
             after(c) == IF c \in Held(q) THEN given(c) ELSE c
  <2>1. copies' = {after(c) : c \in copies}
    BY <1>9 DEF ChannelCloses
  <2>2. UNCHANGED <<retryPolicyGiven, publications, declaredQueues, unpublished, reachedQueues, aggregated, handlerFailures, dlqRecords>>
    BY <1>9 DEF ChannelCloses
  <2>3. ASSUME NEW c \in copies
        PROVE  /\ given(c) \in CopyType /\ Key(given(c)) = Key(c) /\ given(c).n = c.n /\ given(c).event = c.event
               /\ given(c).attempt = c.attempt /\ given(c).place = "ready" /\ given(c).step = "none"
    BY <1>k DEF CopyType, Key
  <2>4. \A c \in copies : /\ after(c) \in CopyType /\ Key(after(c)) = Key(c) /\ after(c).n = c.n
                          /\ c.place = "dead" => after(c) = c
    BY <1>k, <2>3 DEF Held
  <2> HIDE DEF after
  <2>5. AggregationTypes'
    <3>1. copies' \subseteq CopyType
      BY <2>1, <2>4, Zenon
    <3> QED BY <1>t, <2>2, <3>1 DEF AggregationTypes
  <2>6. Covers(copies, copies', aggregated')
    <3> SUFFICES ASSUME NEW c \in copies
                 PROVE  \E d \in copies' : Key(d) = Key(c) /\ d.n >= c.n /\ (c.place = "dead" => d.place = "dead")
      BY Zenon DEF Covers
    <3>1. after(c) \in copies'
      BY <2>1, Zenon
    <3>2. Key(after(c)) = Key(c) /\ after(c).n = c.n /\ (c.place = "dead" => after(c) = c)
      BY <2>4, Zenon
    <3>3. c.n >= c.n
      BY <1>k
    <3> QED BY <3>1, <3>2, <3>3, Zenon
  <2>7. \A b \in copies' : \/ b \in copies
                           \/ /\ Placed(b, retryPolicyGiven, publications, handlerFailures, reachedQueues)
                              /\ Followed(b, retryPolicyGiven, copies', aggregated)
    <3> SUFFICES ASSUME NEW c \in copies, c \in Held(q)
                 PROVE  /\ Placed(given(c), retryPolicyGiven, publications, handlerFailures, reachedQueues)
                        /\ Followed(given(c), retryPolicyGiven, copies', aggregated)
      BY <2>1 DEF after
    <3> HIDE DEF given
    <3> QED BY <1>p, <2>3 DEF Placed, Followed
  <2>8. \A b \in copies' : /\ Placed(b, retryPolicyGiven', publications', handlerFailures', reachedQueues')
                           /\ Followed(b, retryPolicyGiven', copies', aggregated')
    BY <1>n, <2>2, <2>5, <2>6, <2>7, AggregationStep
  <2>9. \A x \in reachedQueues :
           \/ x \in aggregated \/ \E b \in copies' : Key(b) = x
           \/ ~retryPolicyGiven /\ (x[1] \in Malformed \/ handlerFailures[x] > 0)
    BY <1>r, <2>2, <2>6 DEF Covers
  <2>10. \A x \in dlqRecords : \E b \in copies' : Key(b) = x /\ b.place = "dead"
    BY <1>r, <2>6 DEF Covers
  <2> QED BY <1>r, <2>2, <2>5, <2>8, <2>9, <2>10 DEF AggregationInv
<1>10. ASSUME NEW q \in AggregationQueues, DeclareQueue(q) PROVE AggregationInv'
  BY <1>10 DEF DeclareQueue, AggregationInv, AggregationTypes
<1>11. ASSUME NEW e \in Children, PublishAggregation(e) PROVE AggregationInv'
  <2> DEFINE bound == {q \in declaredQueues : ShardOf[e] \in q}
             new(q) == Copy(e, q, 0, "ready")
  <2>1. /\ e \in unpublished /\ unpublished' = unpublished \ {e}
        /\ copies' = copies \cup {new(q) : q \in bound}
        /\ reachedQueues' = reachedQueues \cup {<<e, q>> : q \in bound}
        /\ publications' = [x \in DOMAIN publications |-> IF x[1] = e /\ x[2] \in bound THEN 1 ELSE publications[x]]
        /\ UNCHANGED <<retryPolicyGiven, declaredQueues, aggregated, handlerFailures, dlqRecords>>
    BY <1>11 DEF PublishAggregation
  <2>2. bound \subseteq AggregationQueues
    BY <1>t DEF AggregationTypes
  <2> HIDE DEF bound
  <2>3. \A q \in bound : <<e, q>> \in Routes /\ publications[<<e, q>>] = 0
    BY <1>r, <2>1, <2>2 DEF Routes
  <2>4. \A q \in bound : new(q) = [n |-> publications[<<e, q>>] + 1, event |-> e, queue |-> q, attempt |-> 0,
                                   place |-> "ready", step |-> "none"]
    BY DEF Copy
  <2>5. \A q \in bound : new(q) = [n |-> 1, event |-> e, queue |-> q, attempt |-> 0,
                                   place |-> "ready", step |-> "none"]
    <3>1. 0 + 1 = 1
      OBVIOUS
    <3> QED BY <2>3, <2>4, <3>1, Zenon
  <2>6. ASSUME NEW q \in bound
        PROVE  /\ new(q) \in CopyType /\ Key(new(q)) = <<e, q>> /\ new(q).n = 1 /\ new(q).event = e
               /\ new(q).attempt = 0 /\ new(q).place = "ready" /\ new(q).step = "none"
    BY <2>2, <2>5 DEF CopyType, Key
  <2> HIDE DEF new
  <2>7. /\ publications' \in [Routes -> Nat]
        /\ \A x \in Routes : publications'[x] = IF x[1] = e /\ x[2] \in bound THEN 1 ELSE publications[x]
    <3>1. DOMAIN publications = Routes
      BY <1>t DEF AggregationTypes
    <3> QED BY <1>t, <2>1, <3>1 DEF AggregationTypes
  <2>8. AggregationTypes'
    BY <1>t, <2>1, <2>6, <2>7 DEF AggregationTypes
  <2>9. \A x \in Routes : publications[x] <= publications'[x]
    <3>1. \A x \in Routes : publications[x] \in Nat
      BY <1>t DEF AggregationTypes
    <3>2. \A x \in Routes : publications'[x] = IF x[1] = e /\ x[2] \in bound THEN 1 ELSE publications[x]
      BY <2>7
    <3>3. \A x \in Routes : x[1] = e => publications[x] = 0
      BY <1>r, <2>1
    <3> QED BY <3>1, <3>2, <3>3
  <2>10. Covers(copies, copies', aggregated')
    BY <1>k, <2>1 DEF Covers
  <2>11. \A b \in copies' : \/ b \in copies
                            \/ /\ Placed(b, retryPolicyGiven, publications', handlerFailures', reachedQueues')
                               /\ Followed(b, retryPolicyGiven, copies', aggregated')
    <3> SUFFICES ASSUME NEW q \in bound
                 PROVE  /\ Placed(new(q), retryPolicyGiven, publications', handlerFailures, reachedQueues')
                        /\ Followed(new(q), retryPolicyGiven, copies', aggregated)
      BY <2>1
    <3>1. publications'[<<e, q>>] = 1 /\ <<e, q>> \in reachedQueues' /\ handlerFailures[<<e, q>>] \in Nat
      BY <1>t, <2>1, <2>3, <2>7 DEF AggregationTypes
    <3>2. 1 <= new(q).n /\ new(q).n <= publications'[<<e, q>>]
      BY <2>6, <3>1
    <3>3. new(q).attempt <= handlerFailures[<<e, q>>]
      BY <2>6, <3>1
    <3> QED BY <2>6, <3>1, <3>2, <3>3 DEF Placed, Followed
  <2>12. \A b \in copies' : /\ Placed(b, retryPolicyGiven', publications', handlerFailures', reachedQueues')
                            /\ Followed(b, retryPolicyGiven', copies', aggregated')
    BY <1>n, <2>1, <2>8, <2>9, <2>10, <2>11, AggregationStep
  <2>13. \A x \in reachedQueues' :
           \/ x \in aggregated \/ \E b \in copies' : Key(b) = x
           \/ ~retryPolicyGiven /\ (x[1] \in Malformed \/ handlerFailures[x] > 0)
    BY <1>r, <2>1, <2>6
  <2>14. reachedQueues' \subseteq Routes
    BY <1>r, <2>1, <2>3
  <2>15. \A x \in dlqRecords : \E b \in copies' : Key(b) = x /\ b.place = "dead"
    BY <1>r, <2>1
  <2>16. \A x \in Routes : x[1] \in unpublished' => publications'[x] = 0
    BY <1>r, <2>1, <2>7
  <2> QED BY <2>1, <2>8, <2>12, <2>13, <2>14, <2>15, <2>16 DEF AggregationInv
<1>12. CASE UNCHANGED aggregationVars
  BY <1>12 DEF aggregationVars, AggregationInv, AggregationTypes
<1> QED BY <1>1, <1>2, <1>3, <1>4, <1>5, <1>6, <1>7, <1>8, <1>9, <1>10, <1>11, <1>12 DEF AggregationNext

(* For any queues, shards, retries, prefetch and broken connections: an    *)
(* event that reached the queue of a worker is on its way, aggregated or   *)
(* dead-lettered, and never comes back to a queue it was not routed to.    *)
THEOREM AggregationKeeps == AggregationSpec => []AggregationKept
<1>1. AggregationInv => AggregationKept
  BY DEF AggregationInv, AggregationKept, Placed
<1> QED BY InitAggregation, NextAggregation, <1>1, PTL DEF AggregationSpec

-----------------------------------------------------------------------------
(* ObservationForwarder: nothing leaves the list before Studio has it.     *)

(* While no two POSTs overlap, at most one is under way and what it sends  *)
(* is the front of the list, which only grows behind it.                   *)
ForwarderInv ==
    /\ flushesOverlap \in BOOLEAN
    /\ ~flushesOverlap =>
          /\ observed \in Nat
          /\ unsent \in Seq(Nat)
          /\ flushes \in Seq(Seq(Nat)) /\ Len(flushes) <= 1
          /\ \A i \in 1 .. Len(flushes) :
                /\ Len(flushes[i]) <= Len(unsent)
                /\ \A j \in 1 .. Len(flushes[i]) : flushes[i][j] = unsent[j]
          /\ \A n \in 1 .. observed : n \in ingested \/ \E j \in 1 .. Len(unsent) : unsent[j] = n

(* The invariant holds before the first observation.                       *)
LEMMA InitForwarder == ForwarderInit => ForwarderInv
<1> SUFFICES ASSUME ForwarderInit PROVE ForwarderInv
  OBVIOUS
<1>1. unsent \in Seq(Nat) /\ flushes \in Seq(Seq(Nat)) /\ Len(flushes) = 0
  BY DEF ForwarderInit
<1>2. observed = 0 /\ flushesOverlap = FALSE
  BY DEF ForwarderInit
<1>3. Len(flushes) <= 1 /\ (1 .. Len(flushes)) = {} /\ (1 .. observed) = {} /\ observed \in Nat
  BY <1>1, <1>2
<1> QED BY <1>1, <1>2, <1>3, Zenon DEF ForwarderInv

(* Every step of an observation or a POST keeps the invariant.             *)
LEMMA NextForwarder == ForwarderInv /\ [ForwarderNext]_forwarderVars => ForwarderInv'
<1> SUFFICES ASSUME ForwarderInv, [ForwarderNext]_forwarderVars PROVE ForwarderInv'
  OBVIOUS
<1>0. flushesOverlap' \in BOOLEAN
  <2>1. CASE ForwarderNext
    BY <2>1, Zenon DEF ForwarderNext, Observe, Flush, Flushed, FlushFailed, StartFlush, ForwarderInv
  <2>2. CASE UNCHANGED forwarderVars
    BY <2>2 DEF forwarderVars, ForwarderInv
  <2> QED BY <2>1, <2>2
<1>1. SUFFICES ASSUME ~flushesOverlap' PROVE ForwarderInv'
  BY <1>0 DEF ForwarderInv
<1>2. ~flushesOverlap
  <2>1. CASE ForwarderNext
    BY <1>1, <2>1 DEF ForwarderNext, Observe, Flush, Flushed, FlushFailed, StartFlush
  <2>2. CASE UNCHANGED forwarderVars
    BY <1>1, <2>2 DEF forwarderVars
  <2> QED BY <2>1, <2>2
<1>3. /\ observed \in Nat
      /\ unsent \in Seq(Nat)
      /\ flushes \in Seq(Seq(Nat)) /\ Len(flushes) <= 1
      /\ \A i \in 1 .. Len(flushes) :
            /\ Len(flushes[i]) <= Len(unsent)
            /\ \A j \in 1 .. Len(flushes[i]) : flushes[i][j] = unsent[j]
      /\ \A n \in 1 .. observed : n \in ingested \/ \E j \in 1 .. Len(unsent) : unsent[j] = n
  BY <1>2 DEF ForwarderInv
<1>d. /\ DOMAIN flushes = 1 .. Len(flushes) /\ Len(flushes) \in Nat /\ Len(unsent) \in Nat
      /\ \A i \in 1 .. Len(flushes) : /\ flushes[i] \in Seq(Nat)
                                      /\ Len(flushes[i]) \in Nat /\ DOMAIN flushes[i] = 1 .. Len(flushes[i])
  BY <1>3, LenProperties, ElementOfSeq
<1>4. CASE Observe
  <2>1. /\ unsent' \in Seq(Nat) /\ Len(unsent') = Len(unsent) + 1 /\ unsent'[Len(unsent) + 1] = observed + 1
        /\ \A j \in 1 .. Len(unsent) : unsent'[j] = unsent[j]
    BY <1>3, <1>4 DEF Observe
  <2>2. CASE StartFlush(unsent')
    <3>1. flushes = <<>>
      BY <1>1, <2>2 DEF StartFlush
    <3>2. flushes' = <<unsent'>>
      BY <2>2, <3>1 DEF StartFlush
    <3>3. flushes' \in Seq(Seq(Nat)) /\ Len(flushes') = 1 /\ flushes'[1] = unsent'
      BY <2>1, <3>2
    <3>4. ingested' = ingested /\ observed' = observed + 1
      BY <1>4 DEF Observe
    <3>5. \A n \in 1 .. observed + 1 : n \in ingested \/ \E j \in 1 .. Len(unsent) + 1 : unsent'[j] = n
      <4> SUFFICES ASSUME NEW n \in 1 .. observed + 1, n \notin ingested
                   PROVE  \E j \in 1 .. Len(unsent) + 1 : unsent'[j] = n
        OBVIOUS
      <4>1. CASE n \in 1 .. observed
        <5>1. PICK j \in 1 .. Len(unsent) : unsent[j] = n
          BY <1>3, <4>1
        <5>2. j \in 1 .. Len(unsent) + 1 /\ unsent'[j] = n
          BY <1>d, <2>1, <5>1
        <5> QED BY <5>2
      <4>2. CASE n = observed + 1
        <5>1. Len(unsent) + 1 \in 1 .. Len(unsent) + 1
          BY <1>d
        <5> QED BY <2>1, <4>2, <5>1
      <4> QED BY <1>3, <4>1, <4>2
    <3>6. Len(unsent') \in Nat /\ Len(unsent') <= Len(unsent')
      BY <1>d, <2>1
    <3> QED BY <1>0, <1>3, <2>1, <3>3, <3>4, <3>5, <3>6 DEF ForwarderInv
  <2>3. CASE UNCHANGED <<flushes, flushesOverlap>>
    BY <1>0, <1>1, <1>3, <1>4, <2>1, <2>3 DEF ForwarderInv, Observe
  <2> QED BY <1>4, <2>2, <2>3 DEF Observe
<1>5. CASE Flush
  <2>1. flushes = <<>>
    BY <1>1, <1>5 DEF Flush, StartFlush
  <2>2. flushes' = <<unsent>>
    BY <1>5, <2>1 DEF Flush, StartFlush
  <2> QED BY <1>0, <1>1, <1>3, <1>5, <2>2 DEF ForwarderInv, Flush
<1>6. ASSUME NEW i \in DOMAIN flushes, Flushed(i) \/ FlushFailed(i) PROVE ForwarderInv'
  <2>1. i = 1 /\ Len(flushes) = 1
    BY <1>d, <1>3, <1>6
  <2>2. flushes' = <<>>
    BY <1>3, <1>6, <2>1 DEF Flushed, FlushFailed, RemoveAt
  <2>3. CASE Flushed(i)
    <3> DEFINE k == Len(flushes[1])
    <3>1. k \in Nat /\ k <= Len(unsent) /\ flushes[1] \in Seq(Nat)
      BY <1>d, <1>3, <2>1
    <3>2. unsent' = SubSeq(unsent, k + 1, Len(unsent))
      BY <2>1, <2>3 DEF Flushed
    <3> HIDE DEF k
    <3>3. /\ unsent' \in Seq(Nat) /\ Len(unsent') = Len(unsent) - k
          /\ \A j \in 1 .. Len(unsent) - k : unsent'[j] = unsent[j + k]
      BY <1>3, <3>1, <3>2
    <3>4. \A j \in 1 .. k : unsent[j] \in ingested'
      BY <1>d, <1>3, <2>1, <2>3, <3>1 DEF Flushed, Range, k
    <3>5. ingested \subseteq ingested' /\ observed' = observed
      BY <2>3 DEF Flushed
    <3>6. \A n \in 1 .. observed : n \in ingested' \/ \E j \in 1 .. Len(unsent') : unsent'[j] = n
      <4> SUFFICES ASSUME NEW n \in 1 .. observed, n \notin ingested'
                   PROVE  \E j \in 1 .. Len(unsent') : unsent'[j] = n
        OBVIOUS
      <4>1. PICK j \in 1 .. Len(unsent) : unsent[j] = n
        BY <1>3, <3>5
      <4>2. j - k \in 1 .. Len(unsent) - k /\ (j - k) + k = j
        BY <1>3, <3>1, <3>4, <4>1
      <4>3. unsent'[j - k] = n
        BY <3>3, <4>1, <4>2
      <4> QED BY <3>3, <4>2, <4>3
    <3> QED BY <1>0, <1>1, <1>3, <2>2, <3>3, <3>5, <3>6 DEF ForwarderInv
  <2>4. CASE FlushFailed(i)
    BY <1>0, <1>1, <1>3, <2>2, <2>4 DEF ForwarderInv, FlushFailed
  <2> QED BY <1>6, <2>3, <2>4
<1>7. CASE UNCHANGED forwarderVars
  BY <1>7 DEF forwarderVars, ForwarderInv
<1> QED BY <1>4, <1>5, <1>6, <1>7 DEF ForwarderNext

(* For any batch size, however many observations arrive while a POST is    *)
(* under way and whatever becomes of it.                                   *)
THEOREM ObservationsKept == ForwarderSpec => []NoObservationLost
<1>1. ForwarderInv => NoObservationLost
  <2> SUFFICES ASSUME ForwarderInv, ~flushesOverlap, NEW n \in 1 .. observed
               PROVE  n \in ingested \cup Range(unsent)
    BY DEF NoObservationLost
  <2> QED BY DEF ForwarderInv, Range
<1> QED BY InitForwarder, NextForwarder, <1>1, PTL DEF ForwarderSpec

-----------------------------------------------------------------------------
(* Lifespan: no worker outlives the resources it uses.                     *)

(* What the state variables of Lifespan hold.                              *)
LifespanTypes ==
    /\ host \in {"studio", "service"}
    /\ workerTask \in [AllWorkers -> {"none", "pass", "wait", "ended", "failed"}]
    /\ awaiting \in Seq(AllWorkers)
    /\ resources \subseteq ToSet(CloseOrder(host))

(* A worker that runs is configured, and during a stop still waited for;   *)
(* only a worker that does not survive its errors has failed.              *)
LifespanInv ==
    /\ LifespanTypes
    /\ configured \subseteq ToSet(WorkersOf(host)) \cup {"recovery"}
    /\ \A w \in Running : w \in configured
    /\ life \in {"down", "starting"} => Running = {}
    /\ life = "stopping" => \A w \in Running : \E i \in 1 .. Len(awaiting) : awaiting[i] = w
    /\ \A w \in AllWorkers : workerTask[w] = "failed" => w \notin Guarded
    /\ StopReleases

(* The workers of a host are workers.                                      *)
LEMMA WorkersTyped ==
    ASSUME NEW h \in {"studio", "service"}
    PROVE  /\ WorkersOf(h) \in Seq(AllWorkers)
           /\ \A w \in ToSet(WorkersOf(h)) : \E i \in 1 .. Len(WorkersOf(h)) : WorkersOf(h)[i] = w
<1>1. StudioWorkers \in Seq(STRING)
  BY LifespanAssumption
<1>2. DOMAIN StudioWorkers = 1 .. Len(StudioWorkers) /\ Len(StudioWorkers) \in Nat
  BY <1>1, LenProperties
<1>3. \A i \in 1 .. Len(StudioWorkers) : StudioWorkers[i] \in AllWorkers
  BY <1>2 DEF AllWorkers, ToSet
<1>4. StudioWorkers \in Seq(AllWorkers)
  BY <1>1, <1>3
<1>5. "hub" \in AllWorkers
  BY DEF AllWorkers, ToSet, ServiceWorkers
<1> QED BY <1>2, <1>4, <1>5 DEF WorkersOf, ServiceWorkers, ToSet

(* The invariant holds before the first start.                             *)
LEMMA InitLifespan == LifespanInit => LifespanInv
<1> SUFFICES ASSUME LifespanInit PROVE LifespanInv
  OBVIOUS
<1>1. LifespanTypes /\ Running = {}
  BY DEF LifespanInit, LifespanTypes, Running
<1>2. configured \subseteq ToSet(WorkersOf(host)) \cup {"recovery"}
  BY DEF LifespanInit, WorkersOf, ServiceWorkers, ToSet
<1> QED BY <1>1, <1>2 DEF LifespanInit, LifespanInv, StopReleases

(* Every step of a start, a worker or a stop keeps the invariant.          *)
LEMMA NextLifespan == LifespanInv /\ [LifespanNext]_lifespanVars => LifespanInv'
<1> SUFFICES ASSUME LifespanInv, [LifespanNext]_lifespanVars PROVE LifespanInv'
  OBVIOUS
<1>1. /\ LifespanTypes
      /\ configured \subseteq ToSet(WorkersOf(host)) \cup {"recovery"}
      /\ \A w \in Running : w \in configured
      /\ life \in {"down", "starting"} => Running = {}
      /\ life = "stopping" => \A w \in Running : \E i \in 1 .. Len(awaiting) : awaiting[i] = w
      /\ \A w \in AllWorkers : workerTask[w] = "failed" => w \notin Guarded
      /\ StopReleases
  BY DEF LifespanInv
<1>2. CASE EnsureRuntime
  BY <1>1, <1>2 DEF EnsureRuntime, LifespanInv, LifespanTypes, StopReleases, Running
<1>3. CASE StartUp
  <2>1. UNCHANGED <<host, configured, stopFlags, awaiting, resources, inAppState, abortCause>> /\ life' = "up"
    BY <1>3 DEF StartUp
  <2>2. workerTask' = [w \in AllWorkers |-> IF w \in configured THEN "pass" ELSE "none"]
    BY <1>3 DEF StartUp
  <2> QED BY <1>1, <2>1, <2>2 DEF LifespanInv, LifespanTypes, StopReleases, Running
<1>4. ASSUME BeginStop, UNCHANGED abortCause PROVE LifespanInv'
  <2>1. /\ workerTask' \in [AllWorkers -> {"none", "pass", "wait", "ended", "failed"}]
        /\ \A w \in AllWorkers : workerTask'[w] = workerTask[w] \/ workerTask'[w] = "ended"
        /\ "recovery" \notin Running'
    BY <1>1, <1>4 DEF BeginStop, LifespanTypes, Running
  <2>2. Running' \subseteq Running
    BY <2>1 DEF Running
  <2>3. awaiting' \in Seq(AllWorkers) /\ \A w \in ToSet(WorkersOf(host)) : \E i \in 1 .. Len(awaiting') : awaiting'[i] = w
    BY <1>1, <1>4, WorkersTyped DEF BeginStop, LifespanTypes
  <2>4. UNCHANGED <<host, configured, resources>> /\ life' = "stopping"
    BY <1>4 DEF BeginStop
  <2>5. LifespanTypes' /\ StopReleases'
    BY <1>1, <2>1, <2>3, <2>4 DEF LifespanTypes, StopReleases
  <2>6. \A w \in Running' : w \in configured /\ \E i \in 1 .. Len(awaiting') : awaiting'[i] = w
    BY <1>1, <2>1, <2>2, <2>3
  <2> QED BY <1>1, <2>1, <2>4, <2>5, <2>6 DEF LifespanInv
<1>5. CASE Shutdown
  BY <1>4, <1>5 DEF Shutdown
<1>6. ASSUME NEW cancelled \in BOOLEAN, StartFails(cancelled) PROVE LifespanInv'
  <2>1. CASE cancelled /\ host = "service"
    BY <1>1, <1>6, <2>1 DEF StartFails, LifespanInv, LifespanTypes, StopReleases, Running
  <2>2. CASE ~(cancelled /\ host = "service")
    BY <1>4, <1>6, <2>2 DEF StartFails
  <2> QED BY <2>1, <2>2
<1>7. ASSUME NEW w \in AllWorkers, PassDone(w) \/ PassFails(w) \/ PauseOver(w) \/ StopSeen(w)
      PROVE  LifespanInv'
  <2>1. PICK s \in {"pass", "wait", "ended", "failed"} : WorkerTo(w, s) /\ (s = "failed" => w \notin Guarded)
    BY <1>7 DEF PassDone, PassFails, PauseOver, StopSeen
  <2>2. w \in Running
    BY <1>7 DEF PassDone, PassFails, PauseOver, StopSeen, Running
  <2>3. Running' \subseteq Running
    BY <1>1, <2>1, <2>2 DEF WorkerTo, Running, LifespanTypes
  <2>4. UNCHANGED <<host, life, configured, stopFlags, awaiting, resources, inAppState, abortCause>>
    BY <2>1 DEF WorkerTo
  <2>5. LifespanTypes' /\ \A v \in AllWorkers : workerTask'[v] = "failed" => v \notin Guarded
    BY <1>1, <2>1, <2>4 DEF WorkerTo, LifespanTypes
  <2>6. StopReleases'
    BY <1>1, <2>2, <2>3, <2>4 DEF StopReleases
  <2> QED BY <1>1, <2>3, <2>4, <2>5, <2>6 DEF LifespanInv
<1>h. life = "stopping" /\ awaiting # <<>> =>
        /\ awaiting[1] \in AllWorkers /\ Tail(awaiting) \in Seq(AllWorkers)
        /\ \A i \in 1 .. Len(awaiting) : i = 1 \/ \E j \in 1 .. Len(Tail(awaiting)) : Tail(awaiting)[j] = awaiting[i]
  <2> SUFFICES ASSUME life = "stopping", awaiting # <<>>
               PROVE  /\ awaiting[1] \in AllWorkers /\ Tail(awaiting) \in Seq(AllWorkers)
                      /\ \A i \in 1 .. Len(awaiting) : i = 1 \/ \E j \in 1 .. Len(Tail(awaiting)) : Tail(awaiting)[j] = awaiting[i]
    OBVIOUS
  <2>1. awaiting \in Seq(AllWorkers)
    BY <1>1 DEF LifespanTypes
  <2>2. /\ Tail(awaiting) \in Seq(AllWorkers) /\ Len(Tail(awaiting)) = Len(awaiting) - 1
        /\ Len(awaiting) \in Nat \ {0}
        /\ \A j \in 1 .. Len(awaiting) - 1 : Tail(awaiting)[j] = awaiting[j + 1]
    BY <2>1
  <2>3. \A i \in 1 .. Len(awaiting) : i # 1 => i - 1 \in 1 .. Len(awaiting) - 1 /\ (i - 1) + 1 = i
    BY <2>2
  <2>4. \A i \in 1 .. Len(awaiting) : i # 1 => i - 1 \in 1 .. Len(Tail(awaiting)) /\ Tail(awaiting)[i - 1] = awaiting[i]
    BY <2>2, <2>3
  <2>5. awaiting[1] \in AllWorkers
    BY <2>1, <2>2
  <2> QED BY <2>2, <2>4, <2>5
<1>8. CASE Awaited
  <2>1. CASE workerTask[awaiting[1]] = "failed"
    BY <1>1, <1>8, <1>h, <2>1 DEF Awaited, LifespanInv, LifespanTypes, StopReleases, Running
  <2>2. CASE workerTask[awaiting[1]] # "failed"
    <3>1. awaiting' = Tail(awaiting) /\ UNCHANGED <<host, life, configured, workerTask, stopFlags, resources, inAppState, abortCause>>
      BY <1>8, <2>2 DEF Awaited
    <3>2. awaiting[1] \notin Running /\ life = "stopping" /\ awaiting # <<>>
      BY <1>8 DEF Awaited, Running
    <3>3. \A w \in Running : \E i \in 1 .. Len(awaiting') : awaiting'[i] = w
      BY <1>1, <1>h, <3>1, <3>2
    <3>4. LifespanTypes' /\ StopReleases' /\ Running' = Running
      BY <1>1, <1>h, <3>1, <3>2 DEF LifespanTypes, StopReleases, Running
    <3> QED BY <1>1, <3>1, <3>2, <3>3, <3>4 DEF LifespanInv
  <2> QED BY <2>1, <2>2
<1>9. CASE AwaitTimesOut
  <2>1. /\ awaiting' = Tail(awaiting) /\ life = "stopping" /\ awaiting # <<>>
        /\ workerTask' = [workerTask EXCEPT ![awaiting[1]] = "ended"]
        /\ UNCHANGED <<host, life, configured, stopFlags, resources, inAppState, abortCause>>
    BY <1>9 DEF AwaitTimesOut
  <2>2. workerTask' \in [AllWorkers -> {"none", "pass", "wait", "ended", "failed"}]
    BY <1>1, <1>h, <2>1 DEF LifespanTypes
  <2>3. Running' \subseteq Running \ {awaiting[1]}
    BY <1>1, <1>h, <2>1 DEF Running, LifespanTypes
  <2>4. \A w \in Running' : \E i \in 1 .. Len(awaiting') : awaiting'[i] = w
    BY <1>1, <1>h, <2>1, <2>3
  <2>5. LifespanTypes' /\ StopReleases'
    BY <1>1, <1>h, <2>1, <2>2 DEF LifespanTypes, StopReleases
  <2>6. \A w \in AllWorkers : workerTask'[w] = "failed" => w \notin Guarded
    BY <1>1, <1>h, <2>1 DEF LifespanTypes
  <2> QED BY <1>1, <2>1, <2>3, <2>4, <2>5, <2>6 DEF LifespanInv
<1>10. CASE AllAwaited
  <2>1. /\ awaiting = <<>> /\ life = "stopping" /\ life' = "closing"
        /\ UNCHANGED <<host, configured, workerTask, stopFlags, awaiting, resources, inAppState, abortCause>>
    BY <1>10 DEF AllAwaited
  <2>2. Running = {}
    BY <1>1, <2>1
  <2>3. Running' = Running
    BY <2>1 DEF Running
  <2> QED BY <1>1, <2>1, <2>2, <2>3 DEF LifespanInv, LifespanTypes, StopReleases
<1>11. ASSUME NEW fails \in BOOLEAN, Close(fails) PROVE LifespanInv'
  <2>1. PICK i \in DOMAIN CloseOrder(host) :
          IF fails THEN life' = "aborted" /\ abortCause' = CloseOrder(host)[i] /\ UNCHANGED resources
          ELSE resources' = resources \ {CloseOrder(host)[i]} /\ UNCHANGED <<life, abortCause>>
    BY <1>11 DEF Close
  <2>2. life = "closing" /\ UNCHANGED <<host, configured, workerTask, stopFlags, awaiting, inAppState>>
    BY <1>11 DEF Close
  <2>3. CloseOrder(host)[i] \in ToSet(CloseOrder(host))
    BY DEF ToSet
  <2>4. Running' = Running /\ CloseOrder(host)' = CloseOrder(host)
    BY <2>2 DEF Running, CloseOrder
  <2>5. LifespanTypes' /\ StopReleases'
    BY <1>1, <2>1, <2>2, <2>3, <2>4 DEF LifespanTypes, StopReleases
  <2>6. life' \in {"closing", "aborted"}
    BY <2>1, <2>2
  <2> QED BY <1>1, <2>2, <2>4, <2>5, <2>6 DEF LifespanInv
<1>12. CASE Stopped
  BY <1>1, <1>12 DEF Stopped, LifespanInv, LifespanTypes, StopReleases, Running
<1>13. CASE UNCHANGED lifespanVars
  BY <1>1, <1>13 DEF lifespanVars, LifespanInv, LifespanTypes, StopReleases, Running
<1> QED BY <1>2, <1>3, <1>5, <1>6, <1>7, <1>8, <1>9, <1>10, <1>11, <1>12, <1>13 DEF LifespanNext

(* For any workers, in any order, failing or not: no worker runs while the *)
(* resources are closed, and a stop cut short has one of three causes.     *)
THEOREM StopsRelease == LifespanSpec => []StopReleases
<1>1. LifespanInv => StopReleases
  BY DEF LifespanInv
<1> QED BY InitLifespan, NextLifespan, <1>1, PTL DEF LifespanSpec

------------------------------------------------------------------------------
(* Backpressure: a snapshot lists what every source said.                  *)

(* What map_bounded keeps: the items taken come before the next one, those *)
(* under way are taken and within the limit, and there is a place for the  *)
(* result of each.                                                         *)
MapState(m, st) ==
    /\ st = [step |-> st.step, next |-> st.next, running |-> st.running, results |-> st.results]
    /\ st.next \in 1 .. Len(Items(m)) + 1
    /\ st.running \subseteq 1 .. st.next - 1 /\ IsFiniteSet(st.running) /\ Cardinality(st.running) <= Limit(m)
    /\ st.step \in {"none", "run", "done"} /\ (st.step # "run" => st.running = {})
    /\ st.step = "run" => st.results = [i \in 1 .. Len(Items(m)) |-> st.results[i]]

(* Items whose result is there.                                            *)
Ended(st) == (1 .. st.next - 1) \ st.running

(* The results of a collector of queues are those of its inspections, and  *)
(* the results of the snapshot are those of its collectors, each in its    *)
(* place; a collector of queues is done only after its own map.            *)
InPlace ==
    /\ \A i \in DOMAIN Collectors : Collectors[i] = "queues" /\ mapped[i].step = "run" =>
          /\ mapped[0].step = "run"
          /\ \A j \in Ended(mapped[i]) : mapped[i].results[j] = QueueSignals(QueueNames[i][j], answered[i][j])
    /\ mapped[0].step = "run" => \A i \in Ended(mapped[0]) :
          /\ mapped[0].results[i] = Expected(i)
          /\ Collectors[i] = "queues" => mapped[i].step = "run" /\ mapped[i].running = {}

(* There is a place for what each collector, and each queue, answers.      *)
Answers ==
    /\ answered = [i \in DOMAIN Collectors |-> answered[i]]
    /\ \A i \in DOMAIN Collectors : Collectors[i] = "queues" =>
          answered[i] = [j \in DOMAIN QueueNames[i] |-> answered[i][j]]

(* The signals returned.                                                   *)
Reported ==
    pressure # NoData =>
        mapped[0].step = "done" /\ pressure = FlattenSeq([i \in DOMAIN Collectors |-> Expected(i)])

(* The inductive invariant of Backpressure.                                *)
PressureInv ==
    /\ mapped = [m \in Maps |-> mapped[m]] /\ \A m \in Maps : MapState(m, mapped[m])
    /\ Answers /\ InPlace /\ Reported

(* The collectors and the queues of each.                                  *)
LEMMA ItemFacts ==
    /\ Len(Collectors) \in Nat /\ DOMAIN Collectors = 1 .. Len(Collectors) /\ 0 \notin DOMAIN Collectors
    /\ \A i \in DOMAIN Collectors :
          /\ Collectors[i] \in {"queues", "workers", "dlq"}
          /\ Len(QueueNames[i]) \in Nat /\ DOMAIN QueueNames[i] = 1 .. Len(QueueNames[i])
          /\ Items(i) = QueueNames[i]
    /\ \A m \in Maps : Len(Items(m)) \in Nat /\ DOMAIN Items(m) = 1 .. Len(Items(m)) /\ Limit(m) \in Nat \ {0}
    /\ Items(0) = Collectors
<1>1. /\ Collectors \in Seq({"queues", "workers", "dlq"}) /\ QueueNames \in [DOMAIN Collectors -> Seq(STRING)]
      /\ CollectorLimit \in Nat \ {0} /\ QueueLimit \in Nat \ {0}
  BY PressureAssumption
<1>2. /\ Len(Collectors) \in Nat /\ DOMAIN Collectors = 1 .. Len(Collectors) /\ 0 \notin DOMAIN Collectors
      /\ \A i \in DOMAIN Collectors : Collectors[i] \in {"queues", "workers", "dlq"}
  BY <1>1
<1>3. \A i \in DOMAIN Collectors : Len(QueueNames[i]) \in Nat /\ DOMAIN QueueNames[i] = 1 .. Len(QueueNames[i])
  <2> SUFFICES ASSUME NEW i \in DOMAIN Collectors
               PROVE  Len(QueueNames[i]) \in Nat /\ DOMAIN QueueNames[i] = 1 .. Len(QueueNames[i])
    OBVIOUS
  <2>1. QueueNames[i] \in Seq(STRING)
    BY <1>1
  <2> QED BY <2>1
<1>4. (\A i \in DOMAIN Collectors : Items(i) = QueueNames[i]) /\ Items(0) = Collectors
  BY <1>2 DEF Items
<1>5. \A m \in Maps : m = 0 \/ m \in DOMAIN Collectors
  BY DEF Maps
<1>6. \A m \in Maps : Len(Items(m)) \in Nat /\ DOMAIN Items(m) = 1 .. Len(Items(m))
  BY <1>2, <1>3, <1>4, <1>5
<1>7. \A m \in Maps : Limit(m) \in Nat \ {0}
  BY <1>1 DEF Limit
<1> QED BY <1>2, <1>3, <1>4, <1>6, <1>7

(* The n items from a on are the next after those before a.                *)
LEMMA NextItems ==
    ASSUME NEW a \in Nat \ {0}, NEW n \in Nat, NEW taken, taken \subseteq 1 .. a - 1
    PROVE  /\ taken \cup (a .. (a + n - 1)) \subseteq 1 .. (a + n) - 1
           /\ (1 .. (a + n) - 1) \ (taken \cup (a .. (a + n - 1))) = (1 .. a - 1) \ taken
<1>1. \A x : x \in 1 .. a - 1 => x \in 1 .. (a + n) - 1 /\ x \notin a .. (a + n - 1)
  OBVIOUS
<1>2. \A x : x \in a .. (a + n - 1) => x \in 1 .. (a + n) - 1
  OBVIOUS
<1>3. \A x : x \in 1 .. (a + n) - 1 => x \in 1 .. a - 1 \/ x \in a .. (a + n - 1)
  OBVIOUS
<1> DEFINE before == 1 .. a - 1
           from == a .. (a + n - 1)
           all == 1 .. (a + n) - 1
<1>4. /\ taken \subseteq before
      /\ \A x : x \in before => x \in all /\ x \notin from
      /\ \A x : x \in from => x \in all
      /\ \A x : x \in all => x \in before \/ x \in from
  BY <1>1, <1>2, <1>3
<1> HIDE DEF before, from, all
<1>5. taken \cup from \subseteq all /\ all \ (taken \cup from) = before \ taken
  BY <1>4
<1> QED BY <1>5 DEF before, from, all

(* Taking more items keeps the limit and ends none.                        *)
LEMMA TakenFacts ==
    ASSUME NEW m \in Maps, NEW st, MapState(m, st), st.step = "run"
    PROVE  /\ MapState(m, Taken(m, st)) /\ Ended(Taken(m, st)) = Ended(st)
           /\ Taken(m, st).step = "run" /\ Taken(m, st).results = st.results
<1> DEFINE free == Limit(m) - Cardinality(st.running)
           left == Len(Items(m)) + 1 - st.next
           n == IF free < left THEN free ELSE left
           more == st.next .. (st.next + n - 1)
<1>1. /\ Len(Items(m)) \in Nat /\ Limit(m) \in Nat \ {0} /\ st.next \in Nat \ {0} /\ st.next <= Len(Items(m)) + 1
      /\ IsFiniteSet(st.running) /\ Cardinality(st.running) \in Nat /\ Cardinality(st.running) <= Limit(m)
      /\ st.running \subseteq 1 .. st.next - 1
  BY ItemFacts, FS_CardinalityType DEF MapState
<1>2. n \in Nat /\ n <= free /\ n <= left
  BY <1>1
<1>3. /\ Taken(m, st).step = "run" /\ Taken(m, st).results = st.results
      /\ Taken(m, st).next = st.next + n /\ Taken(m, st).running = st.running \cup more
      /\ Taken(m, st) = [step |-> st.step, next |-> st.next + n, running |-> st.running \cup more, results |-> st.results]
  <2>1. st = [step |-> st.step, next |-> st.next, running |-> st.running, results |-> st.results]
    BY DEF MapState
  <2>2. Taken(m, st) = [st EXCEPT !.next = st.next + n, !.running = st.running \cup more]
    BY DEF Taken
  <2> HIDE DEF n, more
  <2> QED BY <2>1, <2>2
<1> HIDE DEF n
<1>4. IsFiniteSet(more) /\ Cardinality(more) = n
  <2>1. st.next \in Int /\ st.next + n - 1 \in Int
    BY <1>1, <1>2
  <2>2. IsFiniteSet(more) /\ Cardinality(more) = IF st.next > st.next + n - 1 THEN 0 ELSE (st.next + n - 1) - st.next + 1
    BY <2>1, FS_Interval
  <2> QED BY <1>1, <1>2, <2>2
<1>5. IsFiniteSet(st.running \cup more) /\ Cardinality(st.running \cup more) <= Limit(m)
  <2>1. /\ IsFiniteSet(st.running \cup more) /\ IsFiniteSet(st.running \cap more)
        /\ Cardinality(st.running \cup more) = Cardinality(st.running) + Cardinality(more) - Cardinality(st.running \cap more)
    BY <1>1, <1>4, FS_Union, FS_Intersection
  <2>2. Cardinality(st.running \cap more) \in Nat
    BY <2>1, FS_CardinalityType
  <2> QED BY <1>1, <1>2, <1>4, <2>1, <2>2
<1>6. st.next + n \in 1 .. Len(Items(m)) + 1 /\ st.running \cup more \subseteq 1 .. (st.next + n) - 1
  <2>1. st.next + n \in 1 .. Len(Items(m)) + 1
    BY <1>1, <1>2
  <2> QED BY <1>1, <1>2, <2>1, NextItems
<1>7. (1 .. (st.next + n) - 1) \ (st.running \cup more) = (1 .. st.next - 1) \ st.running
  BY <1>1, <1>2, NextItems
<1>8. Ended(Taken(m, st)) = Ended(st)
  BY <1>3, <1>7 DEF Ended
<1>9. MapState(m, Taken(m, st))
  <2> HIDE DEF more
  <2>1. st.results = [i \in 1 .. Len(Items(m)) |-> st.results[i]]
    BY DEF MapState
  <2> QED BY <1>3, <1>5, <1>6, <2>1 DEF MapState
<1> QED BY <1>3, <1>8, <1>9

(* A map that begins.                                                      *)
LEMMA OpenedFacts ==
    ASSUME NEW m \in Maps
    PROVE  MapState(m, Opened(m)) /\ Ended(Opened(m)) = {} /\ Opened(m).step = "run"
<1> DEFINE st == [step |-> "run", next |-> 1, running |-> {}, results |-> [i \in DOMAIN Items(m) |-> <<>>]]
<1>1. IsFiniteSet({}) /\ Cardinality({}) = 0
  BY FS_EmptySet
<1>2. Len(Items(m)) \in Nat /\ DOMAIN Items(m) = 1 .. Len(Items(m)) /\ Limit(m) \in Nat \ {0}
  BY ItemFacts
<1>3. st.step = "run" /\ MapState(m, st)
  BY <1>1, <1>2 DEF MapState
<1>4. Ended(st) = {}
  BY DEF Ended
<1>5. Opened(m) = Taken(m, st)
  BY DEF Opened
<1> HIDE DEF st
<1> QED BY <1>3, <1>4, <1>5, TakenFacts

(* The result of item i comes in.                                          *)
LEMMA ReturnedFacts ==
    ASSUME NEW m \in Maps, MapState(m, mapped[m]), NEW i \in mapped[m].running, NEW result
    PROVE  /\ MapState(m, Returned(m, i, result)) /\ Returned(m, i, result).step = "run"
           /\ Ended(Returned(m, i, result)) = Ended(mapped[m]) \cup {i} /\ i \notin Ended(mapped[m])
           /\ Returned(m, i, result).results[i] = result
           /\ \A j \in Ended(mapped[m]) : Returned(m, i, result).results[j] = mapped[m].results[j]
           /\ i \in 1 .. Len(Items(m)) /\ mapped[m].step = "run"
<1> DEFINE old == mapped[m]
           st == [old EXCEPT !.running = @ \ {i}, !.results = [@ EXCEPT ![i] = result]]
<1>1. /\ old = [step |-> old.step, next |-> old.next, running |-> old.running, results |-> old.results]
      /\ old.step = "run" /\ old.results = [j \in 1 .. Len(Items(m)) |-> old.results[j]]
      /\ old.next \in 1 .. Len(Items(m)) + 1 /\ old.running \subseteq 1 .. old.next - 1
      /\ IsFiniteSet(old.running) /\ Cardinality(old.running) <= Limit(m)
      /\ Len(Items(m)) \in Nat /\ Limit(m) \in Nat
  BY ItemFacts DEF MapState
<1>2. i \in 1 .. Len(Items(m)) /\ i \in 1 .. old.next - 1 /\ i \in old.running
  BY <1>1
<1>3. st = [step |-> "run", next |-> old.next, running |-> old.running \ {i}, results |-> [old.results EXCEPT ![i] = result]]
  <2>1. ASSUME NEW o, NEW t, NEW u, o = [step |-> o.step, next |-> o.next, running |-> o.running, results |-> o.results]
        PROVE  [o EXCEPT !.running = t, !.results = u] = [step |-> o.step, next |-> o.next, running |-> t, results |-> u]
    <3>1. [o EXCEPT !.running = t] = [step |-> o.step, next |-> o.next, running |-> t, results |-> o.results]
      BY <2>1
    <3> DEFINE p == [step |-> o.step, next |-> o.next, running |-> t, results |-> o.results]
    <3>2. [o EXCEPT !.running = t, !.results = u] = [p EXCEPT !.results = u]
      BY <2>1, <3>1
    <3> QED BY <3>2
  <2>2. st = [old EXCEPT !.running = old.running \ {i}, !.results = [old.results EXCEPT ![i] = result]]
    OBVIOUS
  <2> HIDE DEF old, st
  <2>3. st = [step |-> old.step, next |-> old.next, running |-> old.running \ {i}, results |-> [old.results EXCEPT ![i] = result]]
    BY <1>1, <2>1, <2>2
  <2> QED BY <1>1, <2>3
<1>4. IsFiniteSet(old.running \ {i}) /\ Cardinality(old.running \ {i}) <= Limit(m)
  <2>1. IsFiniteSet(old.running \ {i}) /\ Cardinality(old.running \ {i}) = Cardinality(old.running) - 1
    BY <1>1, FS_RemoveElement
  <2>2. Cardinality(old.running) \in Nat
    BY <1>1, FS_CardinalityType
  <2> QED BY <1>1, <2>1, <2>2
<1>5. Returned(m, i, result) = Taken(m, st)
  BY DEF Returned
<1>6. /\ st.step = "run" /\ st.next = old.next /\ st.running = old.running \ {i}
      /\ st.results = [old.results EXCEPT ![i] = result]
  BY <1>3
<1> HIDE DEF st, old
<1>7. MapState(m, st)
  <2>1. st.results = [j \in 1 .. Len(Items(m)) |-> st.results[j]]
    BY <1>1, <1>6
  <2> QED BY <1>1, <1>3, <1>4, <1>6, <2>1 DEF MapState
<1>8. Ended(st) = Ended(old) \cup {i} /\ i \notin Ended(old)
  BY <1>2, <1>6 DEF Ended
<1>9. st.results[i] = result /\ \A j \in Ended(old) : st.results[j] = old.results[j]
  <2>1. \A j \in Ended(old) : j \in 1 .. Len(Items(m)) /\ j # i
    BY <1>1, <1>8 DEF Ended
  <2>2. DOMAIN old.results = 1 .. Len(Items(m))
    BY <1>1
  <2>3. \A j \in 1 .. Len(Items(m)) : [old.results EXCEPT ![i] = result][j] = IF j = i THEN result ELSE old.results[j]
    BY <1>1, <2>2
  <2> QED BY <1>2, <1>6, <2>1, <2>3
<1>10. /\ MapState(m, Taken(m, st)) /\ Ended(Taken(m, st)) = Ended(st)
       /\ Taken(m, st).step = "run" /\ Taken(m, st).results = st.results
  BY <1>6, <1>7, TakenFacts
<1> QED BY <1>1, <1>2, <1>5, <1>8, <1>9, <1>10 DEF old

(* The invariant holds before a snapshot is asked for.                     *)
LEMMA InitPressure == PressureInit => PressureInv
<1> SUFFICES ASSUME PressureInit PROVE PressureInv
  OBVIOUS
<1>1. IsFiniteSet({}) /\ Cardinality({}) = 0
  BY FS_EmptySet
<1>2. \A m \in Maps : MapState(m, mapped[m]) /\ mapped[m].step = "none"
  <2> SUFFICES ASSUME NEW m \in Maps PROVE MapState(m, mapped[m]) /\ mapped[m].step = "none"
    OBVIOUS
  <2>1. mapped[m] = NoMap /\ Len(Items(m)) \in Nat /\ Limit(m) \in Nat
    BY ItemFacts DEF PressureInit
  <2> QED BY <1>1, <2>1 DEF MapState, NoMap
<1>3. InPlace
  BY <1>2 DEF InPlace, Maps
<1>4. Answers
  BY DEF Answers, PressureInit
<1>5. Reported
  BY DEF Reported, PressureInit
<1> QED BY <1>2, <1>3, <1>4, <1>5 DEF PressureInv, PressureInit

(* What is expected of a collector depends on its answers only.            *)
LEMMA SameExpected ==
    ASSUME NEW i \in DOMAIN Collectors, answered'[i] = answered[i]
    PROVE  Expected(i)' = Expected(i)
BY DEF Expected

(* The items whose results are there are items.                            *)
LEMMA EndedItems ==
    ASSUME NEW m \in Maps, NEW st, MapState(m, st), NEW i \in Ended(st)
    PROVE  i \in 1 .. Len(Items(m))
<1>1. st.next \in 1 .. Len(Items(m)) + 1 /\ Len(Items(m)) \in Nat
  BY ItemFacts DEF MapState
<1> QED BY <1>1 DEF Ended

(* A map that is complete has the result of every item.                    *)
LEMMA CompleteFacts ==
    ASSUME NEW m \in Maps, NEW st, MapState(m, st), st.step = "run", MapComplete(st)
    PROVE  /\ st.results = [j \in 1 .. Len(Items(m)) |-> st.results[j]]
           /\ \A j \in 1 .. Len(Items(m)) : j \in Ended(st)
           /\ st.running = {}
<1> DEFINE n == Len(Items(m))
<1>1. st.results = [j \in 1 .. n |-> st.results[j]] /\ st.next \in Nat /\ n \in Nat
  BY ItemFacts DEF MapState
<1> HIDE DEF n
<1>2. Len(st.results) = n
  <2>1. st.results \in [1 .. n -> {st.results[j] : j \in 1 .. n}]
    BY <1>1
  <2>2. st.results \in Seq({st.results[j] : j \in 1 .. n})
    BY <1>1, <2>1
  <2> QED BY <1>1, <2>1, <2>2
<1>3. st.running = {} /\ st.next > n
  BY <1>2 DEF MapComplete
<1>4. \A j \in 1 .. n : j \in Ended(st)
  BY <1>1, <1>3 DEF Ended
<1> QED BY <1>1, <1>3, <1>4 DEF n

(* Changing one map leaves the others, and all of them well formed.        *)
LEMMA OneMap ==
    ASSUME PressureInv, NEW m \in Maps, NEW st, mapped' = [mapped EXCEPT ![m] = st], MapState(m, st)
    PROVE  /\ mapped'[m] = st /\ (\A k \in Maps \ {m} : mapped'[k] = mapped[k])
           /\ mapped' = [k \in Maps |-> mapped'[k]] /\ \A k \in Maps : MapState(k, mapped[k])'
<1>1. mapped = [k \in Maps |-> mapped[k]] /\ \A k \in Maps : MapState(k, mapped[k])
  BY DEF PressureInv
<1>2. mapped'[m] = st /\ (\A k \in Maps \ {m} : mapped'[k] = mapped[k]) /\ mapped' = [k \in Maps |-> mapped'[k]]
  BY <1>1
<1>3. \A k \in Maps : MapState(k, mapped'[k])
  BY <1>1, <1>2
<1> QED BY <1>2, <1>3 DEF MapState, Items, Limit

(* One collector returns, with what is expected of it.                     *)
LEMMA CollectedFacts ==
    ASSUME PressureInv, NEW i \in mapped[0].running, NEW signals, Collected(i, signals),
           pressure' = pressure, Answers', signals = Expected(i)',
           \A j \in DOMAIN Collectors : j # i \/ Collectors[j] = "queues" => answered'[j] = answered[j],
           Collectors[i] = "queues" => mapped[i].step = "run" /\ mapped[i].running = {}
    PROVE  PressureInv'
<1> DEFINE new == Returned(0, i, signals)
<1>1. (\A m \in Maps : MapState(m, mapped[m])) /\ InPlace /\ Reported /\ 0 \in Maps
  BY DEF PressureInv, Maps
<1>2. /\ MapState(0, new) /\ new.step = "run"
      /\ Ended(new) = Ended(mapped[0]) \cup {i} /\ i \notin Ended(mapped[0])
      /\ new.results[i] = signals
      /\ \A j \in Ended(mapped[0]) : new.results[j] = mapped[0].results[j]
      /\ mapped[0].step = "run"
  BY <1>1, ReturnedFacts
<1>3. mapped' = [mapped EXCEPT ![0] = new]
  BY DEF Collected
<1> HIDE DEF new
<1>4. /\ mapped'[0] = new /\ (\A k \in Maps \ {0} : mapped'[k] = mapped[k])
      /\ mapped' = [k \in Maps |-> mapped'[k]] /\ \A k \in Maps : MapState(k, mapped[k])'
  BY <1>1, <1>2, <1>3, OneMap
<1>5. \A j \in DOMAIN Collectors : Collectors[j] = "queues" => mapped'[j] = mapped[j] /\ answered'[j] = answered[j]
  BY <1>4, ItemFacts DEF Maps
<1>6. \A j \in Ended(new) : j \in DOMAIN Collectors
  BY <1>1, <1>2, EndedItems, ItemFacts
<1>7. \A j \in Ended(mapped[0]) : Expected(j)' = Expected(j)
  BY <1>2, <1>6, SameExpected
<1>8. \A j \in Ended(new) : new.results[j] = Expected(j)'
  BY <1>1, <1>2, <1>7 DEF InPlace
<1>9. \A j \in Ended(new) : Collectors[j] = "queues" => mapped'[j].step = "run" /\ mapped'[j].running = {}
  BY <1>1, <1>2, <1>5, <1>6 DEF InPlace
<1>10. \A j \in DOMAIN Collectors : Collectors[j] = "queues" /\ mapped'[j].step = "run" =>
          \A k \in Ended(mapped'[j]) : mapped'[j].results[k] = QueueSignals(QueueNames[j][k], answered'[j][k])
  BY <1>1, <1>5 DEF InPlace
<1>11. InPlace'
  BY <1>2, <1>4, <1>8, <1>9, <1>10 DEF InPlace, Ended
<1>12. Reported'
  BY <1>1, <1>2 DEF Reported
<1> QED BY <1>4, <1>11, <1>12 DEF PressureInv

(* Every step of a snapshot keeps the invariant.                           *)
LEMMA NextPressure == PressureInv /\ [PressureNext]_pressureVars => PressureInv'
<1> SUFFICES ASSUME PressureInv, [PressureNext]_pressureVars PROVE PressureInv'
  OBVIOUS
<1>1. /\ mapped = [m \in Maps |-> mapped[m]] /\ (\A m \in Maps : MapState(m, mapped[m])) /\ Answers /\ InPlace /\ Reported
      /\ 0 \in Maps /\ 0 \notin DOMAIN Collectors
      /\ \A m \in Maps : m = 0 \/ (m \in DOMAIN Collectors /\ Collectors[m] = "queues")
      /\ \A i \in DOMAIN Collectors : Collectors[i] = "queues" => i \in Maps \ {0}
  BY ItemFacts DEF PressureInv, Maps
<1>2. \A i \in Ended(mapped[0]) : i \in DOMAIN Collectors
  BY <1>1, EndedItems, ItemFacts
<1>3. CASE AskSnapshot
  <2> DEFINE new == Opened(0)
  <2>1. MapState(0, new) /\ Ended(new) = {} /\ new.step = "run"
    BY <1>1, OpenedFacts
  <2>2. mapped' = [mapped EXCEPT ![0] = new] /\ UNCHANGED <<answered, pressure>> /\ mapped[0].step = "none"
    BY <1>3 DEF AskSnapshot
  <2> HIDE DEF new
  <2>3. /\ mapped'[0] = new /\ (\A k \in Maps \ {0} : mapped'[k] = mapped[k])
        /\ mapped' = [k \in Maps |-> mapped'[k]] /\ \A k \in Maps : MapState(k, mapped[k])'
    BY <1>1, <2>1, <2>2, OneMap
  <2>4. InPlace'
    BY <1>1, <2>1, <2>2, <2>3 DEF InPlace, Ended
  <2>5. Reported' /\ Answers'
    BY <1>1, <2>2 DEF Reported, Answers
  <2> QED BY <2>3, <2>4, <2>5 DEF PressureInv
<1>4. ASSUME NEW i \in DOMAIN Collectors, BeginQueues(i) PROVE PressureInv'
  <2> DEFINE new == Opened(i)
  <2>1. /\ i \in mapped[0].running /\ Collectors[i] = "queues" /\ mapped[i].step = "none"
        /\ mapped' = [mapped EXCEPT ![i] = new] /\ UNCHANGED <<answered, pressure>>
    BY <1>4 DEF BeginQueues, Under
  <2>2. i \in Maps \ {0} /\ mapped[0].step = "run"
    BY <1>1, <2>1 DEF MapState
  <2>3. MapState(i, new) /\ Ended(new) = {} /\ new.step = "run"
    BY <2>2, OpenedFacts
  <2> HIDE DEF new
  <2>4. /\ mapped'[i] = new /\ (\A k \in Maps \ {i} : mapped'[k] = mapped[k])
        /\ mapped' = [k \in Maps |-> mapped'[k]] /\ \A k \in Maps : MapState(k, mapped[k])'
    BY <2>1, <2>2, <2>3, OneMap
  <2>5. \A j \in Ended(mapped[0]) : j # i /\ mapped[0].results[j] = Expected(j)'
    BY <1>1, <1>2, <2>1, <2>2, SameExpected DEF InPlace
  <2>6. \A j \in DOMAIN Collectors : Collectors[j] = "queues" /\ j # i => mapped'[j] = mapped[j]
    BY <1>1, <2>4
  <2>7. \A j \in DOMAIN Collectors : Collectors[j] = "queues" /\ mapped'[j].step = "run" =>
            \A k \in Ended(mapped'[j]) : mapped'[j].results[k] = QueueSignals(QueueNames[j][k], answered'[j][k])
    BY <1>1, <2>1, <2>3, <2>4, <2>6 DEF InPlace
  <2>8. mapped'[0] = mapped[0]
    BY <1>1, <2>2, <2>4
  <2>9. \A j \in Ended(mapped[0]) : Collectors[j] = "queues" => mapped'[j].step = "run" /\ mapped'[j].running = {}
    BY <1>1, <1>2, <2>2, <2>5, <2>6 DEF InPlace
  <2>10. InPlace'
    BY <2>2, <2>5, <2>7, <2>8, <2>9 DEF InPlace, Ended
  <2>11. Reported' /\ Answers'
    BY <1>1, <2>1, <2>2 DEF Reported, Answers
  <2> QED BY <2>4, <2>10, <2>11 DEF PressureInv
<1>5. ASSUME NEW i \in DOMAIN Collectors, NEW j \in DOMAIN QueueNames[i], InspectQueue(i, j) PROVE PressureInv'
  <2>1. PICK answer \in QueueAnswers :
            /\ mapped' = [mapped EXCEPT ![i] = Returned(i, j, QueueSignals(QueueNames[i][j], answer))]
            /\ answered' = [answered EXCEPT ![i] = [answered[i] EXCEPT ![j] = answer]]
    BY <1>5 DEF InspectQueue
  <2> DEFINE new == Returned(i, j, QueueSignals(QueueNames[i][j], answer))
  <2>2. /\ j \in mapped[i].running /\ mapped[i].step = "run" /\ pressure' = pressure
        /\ Collectors[i] = "queues" /\ i \in Maps \ {0}
    BY <1>1, <1>5 DEF InspectQueue
  <2>3. /\ MapState(i, new) /\ new.step = "run"
        /\ Ended(new) = Ended(mapped[i]) \cup {j} /\ j \notin Ended(mapped[i])
        /\ new.results[j] = QueueSignals(QueueNames[i][j], answer)
        /\ \A k \in Ended(mapped[i]) : new.results[k] = mapped[i].results[k]
    BY <1>1, <2>2, ReturnedFacts
  <2>4. mapped' = [mapped EXCEPT ![i] = new]
    BY <2>1
  <2> HIDE DEF new
  <2>5. /\ mapped'[i] = new /\ (\A k \in Maps \ {i} : mapped'[k] = mapped[k])
        /\ mapped' = [k \in Maps |-> mapped'[k]] /\ \A k \in Maps : MapState(k, mapped[k])'
    BY <2>2, <2>3, <2>4, OneMap
  <2>6. /\ answered' = [k \in DOMAIN Collectors |-> answered'[k]]
        /\ \A k \in DOMAIN Collectors \ {i} : answered'[k] = answered[k]
        /\ answered'[i] = [answered[i] EXCEPT ![j] = answer]
    BY <1>1, <2>1 DEF Answers
  <2>7. /\ answered'[i] = [k \in DOMAIN QueueNames[i] |-> answered'[i][k]]
        /\ \A k \in DOMAIN QueueNames[i] : answered'[i][k] = IF k = j THEN answer ELSE answered[i][k]
    <3>1. answered[i] = [k \in DOMAIN QueueNames[i] |-> answered[i][k]]
      BY <1>1, <2>2 DEF Answers
    <3> QED BY <2>6, <3>1
  <2>8. Answers'
    BY <1>1, <2>6, <2>7 DEF Answers
  <2>9. \A k \in Ended(new) : k \in DOMAIN QueueNames[i]
    BY <2>2, <2>3, EndedItems, ItemFacts
  <2>10. \A k \in Ended(new) : new.results[k] = QueueSignals(QueueNames[i][k], answered'[i][k])
    BY <1>1, <2>2, <2>3, <2>7, <2>9 DEF InPlace
  <2>11. mapped[0].step = "run" /\ mapped'[0] = mapped[0]
    BY <1>1, <2>2, <2>5 DEF InPlace
  <2>12. \A k \in DOMAIN Collectors : Collectors[k] = "queues" /\ k # i => mapped'[k] = mapped[k]
    BY <1>1, <2>5
  <2>13. \A k \in DOMAIN Collectors : Collectors[k] = "queues" /\ mapped'[k].step = "run" =>
            \A l \in Ended(mapped'[k]) : mapped'[k].results[l] = QueueSignals(QueueNames[k][l], answered'[k][l])
    <3> SUFFICES ASSUME NEW k \in DOMAIN Collectors, Collectors[k] = "queues", mapped'[k].step = "run",
                        NEW l \in Ended(mapped'[k])
                 PROVE  mapped'[k].results[l] = QueueSignals(QueueNames[k][l], answered'[k][l])
      OBVIOUS
    <3>1. CASE k = i
      BY <2>5, <2>10, <3>1
    <3>2. CASE k # i
      BY <1>1, <2>6, <2>12, <3>2 DEF InPlace
    <3> QED BY <3>1, <3>2
  <2>14. \A k \in Ended(mapped[0]) : k # i /\ mapped[0].results[k] = Expected(k)'
    BY <1>1, <1>2, <2>2, <2>6, <2>11, SameExpected DEF InPlace
  <2>15. \A k \in Ended(mapped[0]) : Collectors[k] = "queues" => mapped'[k].step = "run" /\ mapped'[k].running = {}
    BY <1>1, <1>2, <2>11, <2>12, <2>14 DEF InPlace
  <2>16. InPlace'
    BY <2>11, <2>13, <2>14, <2>15 DEF InPlace, Ended
  <2>17. Reported'
    BY <1>1, <2>2, <2>11 DEF Reported
  <2> QED BY <2>5, <2>8, <2>16, <2>17 DEF PressureInv
<1>6. ASSUME NEW i \in DOMAIN Collectors, QueuesCollected(i) PROVE PressureInv'
  <2> DEFINE q == mapped[i]
  <2>1. /\ i \in mapped[0].running /\ Collectors[i] = "queues" /\ q.step = "run" /\ MapComplete(q) /\ i \in Maps
        /\ Collected(i, FlattenSeq(q.results)) /\ UNCHANGED <<answered, pressure>>
    BY <1>1, <1>6 DEF QueuesCollected, Under
  <2>2. /\ q.results = [j \in DOMAIN QueueNames[i] |-> q.results[j]] /\ q.running = {}
        /\ \A j \in DOMAIN QueueNames[i] : j \in Ended(q)
    <3>1. MapState(i, q) /\ DOMAIN QueueNames[i] = 1 .. Len(Items(i))
      BY <1>1, <2>1, ItemFacts
    <3> QED BY <2>1, <3>1, CompleteFacts
  <2>3. \A j \in DOMAIN QueueNames[i] : q.results[j] = QueueSignals(QueueNames[i][j], answered[i][j])
    BY <1>1, <2>1, <2>2 DEF InPlace
  <2>4. q.results = [j \in DOMAIN QueueNames[i] |-> QueueSignals(QueueNames[i][j], answered[i][j])]
    BY <2>2, <2>3
  <2>5. FlattenSeq(q.results) = Expected(i)
    BY <2>1, <2>4 DEF Expected
  <2>6. Expected(i)' = Expected(i) /\ Answers'
    BY <1>1, <2>1, SameExpected DEF Answers
  <2> QED BY <2>1, <2>2, <2>5, <2>6, CollectedFacts
<1>7. ASSUME NEW i \in DOMAIN Collectors, NEW answer, NEW signals, Collectors[i] # "queues", i \in mapped[0].running,
             Collected(i, signals), answered' = [answered EXCEPT ![i] = answer], pressure' = pressure, signals = Expected(i)'
      PROVE  PressureInv'
  <2>1. /\ answered' = [k \in DOMAIN Collectors |-> answered'[k]] /\ answered'[i] = answer
        /\ \A k \in DOMAIN Collectors \ {i} : answered'[k] = answered[k]
    BY <1>1, <1>7 DEF Answers
  <2>2. Answers'
    BY <1>1, <1>7, <2>1 DEF Answers
  <2> QED BY <1>7, <2>1, <2>2, CollectedFacts
<1>8. ASSUME NEW i \in DOMAIN Collectors, WorkersCollected(i) PROVE PressureInv'
  <2>1. PICK answer : /\ Collected(i, IF answer = NoData THEN Unavailable("workers") ELSE WorkerSignals(answer))
                      /\ answered' = [answered EXCEPT ![i] = answer]
    BY <1>8 DEF WorkersCollected
  <2>2. i \in mapped[0].running /\ Collectors[i] = "workers" /\ pressure' = pressure
    BY <1>8 DEF WorkersCollected, Under
  <2>3. answered'[i] = answer
    BY <1>1, <2>1 DEF Answers
  <2>4. Expected(i)' = IF answer = NoData THEN Unavailable("workers") ELSE WorkerSignals(answer)
    BY <2>2, <2>3 DEF Expected
  <2> QED BY <1>7, <2>1, <2>2, <2>4
<1>9. ASSUME NEW i \in DOMAIN Collectors, DlqCollected(i) PROVE PressureInv'
  <2>1. PICK answer : /\ Collected(i, IF answer = NoData THEN Unavailable("dlq") ELSE DlqSignals(answer))
                      /\ answered' = [answered EXCEPT ![i] = answer]
    BY <1>9 DEF DlqCollected
  <2>2. i \in mapped[0].running /\ Collectors[i] = "dlq" /\ pressure' = pressure
    BY <1>9 DEF DlqCollected, Under
  <2>3. answered'[i] = answer
    BY <1>1, <2>1 DEF Answers
  <2>4. Expected(i)' = IF answer = NoData THEN Unavailable("dlq") ELSE DlqSignals(answer)
    BY <2>2, <2>3 DEF Expected
  <2> QED BY <1>7, <2>1, <2>2, <2>4
<1>10. CASE SnapshotDone
  <2> DEFINE c == mapped[0]
  <2>1. /\ c.step = "run" /\ MapComplete(c) /\ pressure' = FlattenSeq(c.results) /\ answered' = answered
        /\ mapped' = [m \in Maps |-> [mapped[m] EXCEPT !.step = "done"]]
    BY <1>10 DEF SnapshotDone
  <2>2. /\ c.results = [i \in DOMAIN Collectors |-> c.results[i]] /\ c.running = {}
        /\ \A i \in DOMAIN Collectors : i \in Ended(c)
    BY <1>1, <2>1, CompleteFacts, ItemFacts
  <2>3. c.results = [i \in DOMAIN Collectors |-> Expected(i)]
    <3>1. \A i \in DOMAIN Collectors : c.results[i] = Expected(i)
      BY <1>1, <2>1, <2>2 DEF InPlace
    <3> QED BY <2>2, <3>1
  <2>4. \A m \in Maps : mapped[m].running = {}
    BY <1>1, <2>1, <2>2 DEF InPlace
  <2>5. \A m \in Maps : MapState(m, mapped'[m]) /\ mapped'[m].step = "done"
    <3> SUFFICES ASSUME NEW m \in Maps PROVE MapState(m, mapped'[m]) /\ mapped'[m].step = "done"
      OBVIOUS
    <3> DEFINE st == mapped[m]
    <3>1. st = [step |-> st.step, next |-> st.next, running |-> st.running, results |-> st.results]
      BY <1>1 DEF MapState
    <3>2. mapped'[m] = [st EXCEPT !.step = "done"]
      BY <2>1
    <3>3. MapState(m, st) /\ st.running = {}
      BY <1>1, <2>4
    <3> HIDE DEF st
    <3>4. mapped'[m] = [step |-> "done", next |-> st.next, running |-> st.running, results |-> st.results]
      BY <3>1, <3>2
    <3> QED BY <3>3, <3>4 DEF MapState
  <2>6. (\A m \in Maps : MapState(m, mapped[m])') /\ mapped' = [m \in Maps |-> mapped'[m]]
    <3>1. mapped' = [m \in Maps |-> mapped'[m]]
      BY <2>1
    <3> QED BY <2>5, <3>1 DEF MapState, Items, Limit
  <2>7. InPlace'
    BY <1>1, <2>5 DEF InPlace
  <2>8. Reported'
    <3>1. \A i \in DOMAIN Collectors : Expected(i)' = Expected(i)
      BY <2>1, SameExpected
    <3>2. pressure' = FlattenSeq([i \in DOMAIN Collectors |-> Expected(i)'])
      BY <2>1, <2>3, <3>1
    <3> QED BY <1>1, <2>5, <3>2 DEF Reported
  <2> QED BY <1>1, <2>1, <2>6, <2>7, <2>8 DEF PressureInv, Answers
<1>11. CASE CancelSnapshot
  <2> DEFINE over == [step |-> "done", next |-> 1, running |-> {}, results |-> <<>>]
  <2>1. /\ mapped[0].step = "run" /\ UNCHANGED <<answered, pressure>>
        /\ mapped' = [m \in Maps |-> over]
    <3>1. [NoMap EXCEPT !.step = "done"] = over
      <4>1. /\ NoMap = [step |-> NoMap.step, next |-> NoMap.next, running |-> NoMap.running, results |-> NoMap.results]
            /\ NoMap.next = 1 /\ NoMap.running = {} /\ NoMap.results = <<>>
        BY DEF NoMap
      <4>2. [NoMap EXCEPT !.step = "done"] = [step |-> "done", next |-> NoMap.next, running |-> NoMap.running, results |-> NoMap.results]
        BY <4>1
      <4> QED BY <4>1, <4>2
    <3> HIDE DEF over
    <3> QED BY <1>11, <3>1 DEF CancelSnapshot
  <2>2. \A m \in Maps : MapState(m, over)
    BY ItemFacts, FS_EmptySet DEF MapState
  <2>3. over.step = "done"
    OBVIOUS
  <2> HIDE DEF over
  <2>4. \A m \in Maps : mapped'[m] = over /\ MapState(m, mapped'[m])
    BY <2>1, <2>2
  <2>5. (\A m \in Maps : MapState(m, mapped[m])') /\ mapped' = [m \in Maps |-> mapped'[m]]
    BY <2>1, <2>4 DEF MapState, Items, Limit
  <2>6. InPlace' /\ Reported'
    BY <1>1, <2>1, <2>3, <2>4 DEF InPlace, Reported
  <2> QED BY <1>1, <2>1, <2>5, <2>6 DEF PressureInv, Answers
<1>12. CASE UNCHANGED pressureVars
  <2>1. mapped' = mapped /\ answered' = answered /\ pressure' = pressure
    BY <1>12 DEF pressureVars
  <2>2. \A m \in Maps : MapState(m, mapped[m])'
    BY <1>1, <2>1 DEF MapState, Items, Limit
  <2>3. \A i \in DOMAIN Collectors : Expected(i)' = Expected(i)
    BY <2>1, SameExpected
  <2>4. InPlace'
    BY <1>1, <1>2, <2>1, <2>3 DEF InPlace, Ended
  <2>5. [i \in DOMAIN Collectors |-> Expected(i)'] = [i \in DOMAIN Collectors |-> Expected(i)]
    BY <2>3
  <2>6. Reported'
    BY <1>1, <2>1, <2>5 DEF Reported
  <2> QED BY <1>1, <2>1, <2>2, <2>4, <2>6 DEF PressureInv, Answers
<1> QED BY <1>3, <1>4, <1>5, <1>6, <1>8, <1>9, <1>10, <1>11, <1>12 DEF PressureNext

(* Whatever order the collectors and inspections end in and whichever fail:  *)
(* the signals of a snapshot are what each source answered, or that it did   *)
(* not, in the order configured, and map_bounded keeps to its limit, for     *)
(* any collectors, queues and limits.                                        *)
THEOREM PressureIsReported == PressureSpec => []PressureReported
<1>1. PressureInv => PressureReported
  BY DEF PressureInv, PressureReported, Reported, MapState
<1> QED BY InitPressure, NextPressure, <1>1, PTL DEF PressureSpec

------------------------------------------------------------------------------
(* ExecutionGraph: the graph hangs together, and shows how attempts ended. *)

(* Nodes with one id are one; those of a kind; the places of some types.   *)
Apart(S) == \A n, m \in S : n.id = m.id => n = m
OfKind(S, kind) == {n \in S : n.id[1] = kind}
OfTypes(list, types) == {i \in DOMAIN list : list[i].type \in types}
(* Edges join nodes; a status is told by its number, a dead letter dated.  *)
EdgesJoin == \A x \in edges : x.source \in IdsOf(nodes) /\ x.end \in IdsOf(nodes)
EdgesFit ==
    \A x \in edges : /\ x.kind = "published_status" => x.end[2] \in 1..Len(statuses)
                     /\ x.kind = "dead_lettered_to" => x.t \in 0..MaxTime
(* What is proved of every graph: types, places, counts.                   *)
AttemptNode == [id : {"attempt"} \X Nat, t : 1..MaxTime, a : {None}]
StageNode == [id : {"stage"} \X Stages \X Nat, t : 1..MaxTime, a : Stages]
Evidence == [type : {"received", "retry", "dead", "sample", "published", "entered"}, t : 1..MaxTime]
StatusSet == [status : {"processing", "manual_retrying", "completed", "failed"}, t : 1..MaxTime]

GraphTyped ==
    /\ workflow \in BOOLEAN /\ clock \in Nat /\ clock >= 1
    /\ IsFiniteSet(nodes) /\ Apart(nodes)
    /\ attempts \in Seq(AttemptNode) /\ stages \in Seq(StageNode)
    /\ evidence \in Seq(Evidence) /\ statuses \in Seq(StatusSet)
    /\ phase \in {"observations", "statuses", "records"}
    /\ phase = "observations" => statuses = <<>>

OfStage(s) == {i \in DOMAIN stages : stages[i].a = s}
(* Attempts are numbered in order, each with an edge from the task, and    *)
(* there are no other nodes of their kind.                                 *)
AttemptsPlaced ==
    /\ \A i \in 1..Len(attempts) : /\ attempts[i] \in nodes /\ attempts[i].id = <<"attempt", i>>
                                   /\ \E x \in edges : x.source = Root /\ x.end = attempts[i].id
    /\ \A n \in nodes : n.id[1] = "attempt" => \E i \in 1..Len(attempts) : n = attempts[i]
(* A stage is numbered among its own; a status by its place, and hangs off *)
(* the task or an attempt.                                                 *)
StagesPlaced ==
    /\ \A i \in 1..Len(stages) : stages[i] \in nodes
    /\ \A n \in nodes : n.id[1] = "stage" => \E s \in Stages, k \in Nat : n.id = <<"stage", s, k>> /\ k <= Cardinality(OfStage(s))
StatusesPlaced ==
    \A n \in nodes : n.id[1] = "status" =>
        /\ \E i \in 1..Len(statuses) : n.id = <<"status", i>>
        /\ ~workflow => \E x \in edges : x.end = n.id /\ (x.source = Root \/ \E i \in 1..Len(attempts) : x.source = attempts[i].id)
(* The retries still to be linked have nodes.                              *)
LinksPlaced == \A n \in retryLinks : n.id \in IdsOf(nodes)
GraphPlaced ==
    /\ Root \in IdsOf(nodes) /\ Child \in IdsOf(nodes)
    /\ EdgesJoin /\ EdgesFit
    /\ AttemptsPlaced /\ StagesPlaced /\ StatusesPlaced /\ LinksPlaced

(* Every attempt, stage and status counts.                                 *)
Counted ==
    /\ CountOf("attempt") = Observed({"received"}) /\ CountOf("stage") = Observed({"entered"})
    /\ CountOf("status") = Len(statuses)

(* The first attempt is known before anything else.                        *)
Known == /\ evidence # <<>> /\ evidence[1].type = "received"
         /\ statuses # <<>> => statuses[1].t >= evidence[1].t
(* Edges lead upwards, in the order of the times.                          *)
Rank(n) ==
    IF n.id[1] = "child" THEN 0 ELSE IF n.id[1] = "task" THEN 1
    ELSE IF n.id[1] = "attempt" THEN 2 * n.t ELSE IF n.id[1] = "retry" THEN 2 * n.t + 1 ELSE 2 * MaxTime + 2
Rises(x, S) == \E n, m \in S : n.id = x.source /\ m.id = x.end /\ Rank(n) < Rank(m)
(* The edges the retries are numbered by.                                  *)
Retried == {x \in edges : x.kind = "retried_as"}
RetryPlaced(n, k) == n.t \in 1..MaxTime /\ \E i \in 1..k : n.id = <<"retry", i>>
(* With the first attempt known, no list being read is behind it.          *)
InTime ==
    /\ ~workflow /\ Len(attempts) >= 1 /\ attempts[1].t = evidence[1].t
    /\ phase = "observations" \/ (phase = "statuses" /\ statuses # <<>>) => clock >= evidence[1].t
(* Every retry has an edge and a node of its own.                          *)
RetriesCounted == IsFiniteSet(Retried) /\ CountOf("retry") = Observed({"retry"}) /\ Cardinality(Retried) = Observed({"retry"})
RetriesPlaced ==
    /\ \A n \in nodes : n.id[1] = "retry" => RetryPlaced(n, Cardinality(Retried))
    /\ \A n \in retryLinks : n \in nodes /\ n.id[1] = "retry"
AllRise == \A x \in edges : Rises(x, nodes)
KnownSound == Known => InTime /\ RetriesCounted /\ RetriesPlaced /\ AllRise
(* Before the first observation the graph is the initial one.              *)
Untouched ==
    phase = "observations" /\ evidence = <<>> =>
        /\ nodes = {Node(Root, 0, None), Node(Child, 0, None)}
        /\ edges = {Edge(Child, "aggregated_into", Root, 0)}
        /\ attempts = <<>> /\ retryLinks = {}

GraphInv == GraphTyped /\ GraphPlaced /\ Counted /\ KnownSound /\ Untouched

(* A set of numbers that is not empty has a least one.                     *)
LEMMA LeastNumber ==
    ASSUME NEW S, S \subseteq Nat, S # {}
    PROVE  \E n \in S : \A m \in S : n <= m
<1>1. PICK n \in S : \A m \in S : <<m, n>> \notin OpToRel(<, Nat)
  BY NatLessThanWellFounded, WFMin
<1>2. \A m \in S : ~(m < n)
  BY <1>1 DEF OpToRel
<1> QED BY <1>2


(* Adding a node keeps the set finite and the ids apart.                   *)
LEMMA AddNodeFacts ==
    ASSUME NEW S, NEW n, IsFiniteSet(S), Apart(S)
    PROVE  /\ IsFiniteSet(AddNode(S, n)) /\ Apart(AddNode(S, n)) /\ S \subseteq AddNode(S, n)
           /\ IdsOf(AddNode(S, n)) = IdsOf(S) \cup {n.id}
           /\ \A m \in AddNode(S, n) : m \in S \/ (m = n /\ n.id \notin IdsOf(S))
           /\ n.id \notin IdsOf(S) => AddNode(S, n) = S \cup {n} /\ n \notin S
<1>1. CASE n.id \in IdsOf(S)
  <2>1. AddNode(S, n) = S
    BY <1>1 DEF AddNode
  <2> QED BY <1>1, <2>1
<1>2. CASE n.id \notin IdsOf(S)
  <2>1. AddNode(S, n) = S \cup {n}
    BY <1>2 DEF AddNode
  <2>2. \A m \in S : m.id # n.id
    BY <1>2 DEF IdsOf
  <2>3. IsFiniteSet(S \cup {n}) /\ n \notin S
    BY <2>2, FS_AddElement
  <2>4. Apart(S \cup {n})
    BY <2>2 DEF Apart
  <2>5. IdsOf(S \cup {n}) = IdsOf(S) \cup {n.id}
    BY DEF IdsOf
  <2> QED BY <1>2, <2>1, <2>3, <2>4, <2>5
<1> QED BY <1>1, <1>2

(* A node whose id is new counts once, for its kind only.                  *)
LEMMA CountAdds ==
    ASSUME NEW S, NEW n, NEW kind, IsFiniteSet(S), Apart(S)
    PROVE  /\ Cardinality(OfKind(S, kind)) \in Nat
           /\ n.id[1] = kind /\ n.id \notin IdsOf(S) =>
                Cardinality(OfKind(AddNode(S, n), kind)) = Cardinality(OfKind(S, kind)) + 1
           /\ n.id[1] # kind => Cardinality(OfKind(AddNode(S, n), kind)) = Cardinality(OfKind(S, kind))
<1>1. IsFiniteSet(OfKind(S, kind))
  BY FS_Subset DEF OfKind
<1>2. Cardinality(OfKind(S, kind)) \in Nat
  BY <1>1, FS_CardinalityType
<1>3. ASSUME n.id[1] = kind, n.id \notin IdsOf(S)
      PROVE  Cardinality(OfKind(AddNode(S, n), kind)) = Cardinality(OfKind(S, kind)) + 1
  <2>1. AddNode(S, n) = S \cup {n} /\ n \notin S
    BY <1>3, AddNodeFacts
  <2>2. OfKind(S \cup {n}, kind) = OfKind(S, kind) \cup {n} /\ n \notin OfKind(S, kind)
    BY <1>3, <2>1 DEF OfKind
  <2> QED BY <1>1, <2>1, <2>2, FS_AddElement
<1>4. ASSUME n.id[1] # kind PROVE OfKind(AddNode(S, n), kind) = OfKind(S, kind)
  BY <1>4 DEF AddNode, OfKind
<1> QED BY <1>2, <1>3, <1>4

(* A piece of evidence counts once, for its type only.                     *)
LEMMA TypesAdd ==
    ASSUME NEW T, NEW list \in Seq(T), NEW x \in T, NEW types
    PROVE  /\ Cardinality(OfTypes(list, types)) \in Nat
           /\ x.type \in types => Cardinality(OfTypes(Append(list, x), types)) = Cardinality(OfTypes(list, types)) + 1
           /\ x.type \notin types => Cardinality(OfTypes(Append(list, x), types)) = Cardinality(OfTypes(list, types))
<1>1. Len(list) \in Nat /\ DOMAIN list = 1..Len(list)
  OBVIOUS
<1>2. DOMAIN Append(list, x) = 1..(Len(list) + 1) /\ Append(list, x)[Len(list) + 1] = x
      /\ \A i \in 1..Len(list) : Append(list, x)[i] = list[i]
  OBVIOUS
<1>3. IsFiniteSet(OfTypes(list, types)) /\ OfTypes(list, types) \subseteq 1..Len(list)
  <2>1. OfTypes(list, types) \subseteq 1..Len(list)
    BY <1>1 DEF OfTypes
  <2>2. IsFiniteSet(1..Len(list))
    BY <1>1, FS_Interval
  <2> QED BY <2>1, <2>2, FS_Subset
<1>4. Cardinality(OfTypes(list, types)) \in Nat
  BY <1>3, FS_CardinalityType
<1>5. ASSUME x.type \in types PROVE OfTypes(Append(list, x), types) = OfTypes(list, types) \cup {Len(list) + 1}
  BY <1>1, <1>2, <1>5 DEF OfTypes
<1>6. ASSUME x.type \notin types PROVE OfTypes(Append(list, x), types) = OfTypes(list, types)
  BY <1>1, <1>2, <1>6 DEF OfTypes
<1>7. Len(list) + 1 \notin OfTypes(list, types)
  BY <1>1, <1>3
<1> QED BY <1>3, <1>4, <1>5, <1>6, <1>7, FS_AddElement

(* The last and the first of some places of a list.                        *)
LEMMA LastFirstFacts ==
    ASSUME NEW T, NEW list \in Seq(T), NEW fit, fit \subseteq DOMAIN list
    PROVE  /\ \A n \in LastOf(list, fit) : \E i \in fit : n = list[i]
           /\ \A n \in FirstOf(list, fit) : \E i \in fit : n = list[i]
           /\ fit # {} => LastOf(list, fit) # {} /\ FirstOf(list, fit) # {}
           /\ \A n, m \in LastOf(list, fit) : n = m
<1>1. Len(list) \in Nat /\ DOMAIN list = 1..Len(list)
  OBVIOUS
<1>2. fit \subseteq Nat /\ \A i \in fit : i <= Len(list)
  BY <1>1
<1>3. ASSUME fit # {} PROVE \E i \in fit : \A j \in fit : i <= j
  BY <1>2, <1>3, LeastNumber
<1>4. ASSUME fit # {} PROVE \E i \in fit : \A j \in fit : j <= i
  <2> DEFINE U == {Len(list) - i : i \in fit}
  <2>1. \A i \in fit : Len(list) - i \in Nat
    BY <1>1, <1>2
  <2>2. U \subseteq Nat /\ U # {}
    <3>1. PICK i \in fit : TRUE
      BY <1>4
    <3>2. Len(list) - i \in U
      OBVIOUS
    <3> QED BY <2>1, <3>2
  <2>3. PICK u \in U : \A v \in U : u <= v
    BY <2>2, LeastNumber
  <2>4. PICK i \in fit : u = Len(list) - i
    BY <2>3
  <2>5. ASSUME NEW j \in fit PROVE j <= i
    <3>1. u <= Len(list) - j
      BY <2>3
    <3> QED BY <1>1, <1>2, <2>4, <3>1
  <2> QED BY <2>4, <2>5
<1>5. fit # {} => LastOf(list, fit) # {} /\ FirstOf(list, fit) # {}
  BY <1>3, <1>4 DEF LastOf, FirstOf
<1>6. \A n, m \in LastOf(list, fit) : n = m
  BY <1>2 DEF LastOf
<1>9. /\ \A n \in LastOf(list, fit) : \E i \in fit : n = list[i]
      /\ \A n \in FirstOf(list, fit) : \E i \in fit : n = list[i]
  BY DEF LastOf, FirstOf
<1> QED BY <1>5, <1>6, <1>9

IsSteps(f, S, first, F, last) == f \in [0..last -> S] /\ f[0] = first /\ \A i \in 1..last : f[i] = F[<<i, f[i - 1]>>]

(* Steps of a function from a first value make a sequence of values.       *)
LEMMA StepsExist ==
    ASSUME NEW S, NEW first \in S, NEW F \in [Nat \X S -> S], NEW last \in Nat
    PROVE  \E f : IsSteps(f, S, first, F, last)
<1> DEFINE Good(n) == \E f \in [0..n -> S] : f[0] = first /\ \A i \in 1..n : f[i] = F[<<i, f[i - 1]>>]
           Bad == {n \in Nat : ~Good(n)}
<1>1. Good(0)
  <2>1. [i \in 0..0 |-> first] \in [0..0 -> S]
    OBVIOUS
  <2>2. [i \in 0..0 |-> first][0] = first /\ 1..0 = {}
    OBVIOUS
  <2> QED BY <2>1, <2>2
<1>2. ASSUME NEW n \in Nat, Good(n) PROVE Good(n + 1)
  <2>1. PICK f \in [0..n -> S] : f[0] = first /\ \A i \in 1..n : f[i] = F[<<i, f[i - 1]>>]
    BY <1>2
  <2> DEFINE g == [i \in 0..(n + 1) |-> IF i = n + 1 THEN F[<<n + 1, f[n]>>] ELSE f[i]]
  <2>2. F[<<n + 1, f[n]>>] \in S
    <3>1. f[n] \in S /\ n + 1 \in Nat
      BY <2>1
    <3> QED BY <3>1
  <2>3. \A i \in 0..(n + 1) : i = n + 1 \/ i \in 0..n
    OBVIOUS
  <2>4. g \in [0..(n + 1) -> S]
    BY <2>1, <2>2, <2>3
  <2>5. g[0] = first
    BY <2>1
  <2>6. ASSUME NEW i \in 1..(n + 1) PROVE g[i] = F[<<i, g[i - 1]>>]
    <3>1. i - 1 \in 0..n /\ i - 1 # n + 1 /\ i - 1 \in 0..(n + 1) /\ i \in 0..(n + 1)
      OBVIOUS
    <3>2. g[i - 1] = f[i - 1]
      BY <3>1
    <3>3. CASE i = n + 1
      BY <3>1, <3>2, <3>3
    <3>4. CASE i # n + 1
      <4>1. i \in 1..n /\ g[i] = f[i]
        BY <3>1, <3>4
      <4> QED BY <2>1, <3>2, <4>1
    <3> QED BY <3>3, <3>4
  <2> HIDE DEF g
  <2> QED BY <2>4, <2>5, <2>6
<1>3. Bad = {}
  <2>1. SUFFICES ASSUME Bad # {} PROVE FALSE
    OBVIOUS
  <2>2. Bad \subseteq Nat
    OBVIOUS
  <2> HIDE DEF Good
  <2>3. PICK n \in Bad : \A m \in Bad : n <= m
    BY <2>1, <2>2, LeastNumber
  <2>4. n \in Nat /\ n # 0 /\ ~Good(n)
    BY <1>1, <2>3
  <2>5. n - 1 \in Nat /\ n - 1 \notin Bad /\ (n - 1) + 1 = n
    BY <2>3, <2>4
  <2>6. Good(n - 1)
    BY <2>5
  <2>7. Good((n - 1) + 1)
    BY <1>2, <2>5, <2>6
  <2> QED BY <2>4, <2>5, <2>7
<1> HIDE DEF Good
<1>4. Good(last)
  BY <1>3
<1> QED BY <1>4 DEF Good, IsSteps

-----------------------------------------------------------------------------
(* What can be reached.                                                    *)
LEMMA ReachedSteps ==
    ASSUME NEW from, from \subseteq IdsOf(nodes), \A x \in edges : x.end \in IdsOf(nodes), Cardinality(nodes) \in Nat
    PROVE  \E f \in [0..Cardinality(nodes) -> SUBSET IdsOf(nodes)] :
             /\ f[0] = from /\ \A i \in 1..Cardinality(nodes) : f[i] = Onward(f[i - 1])
             /\ Reached(from) = f[Cardinality(nodes)]
<1> DEFINE last == Cardinality(nodes)
           S == SUBSET IdsOf(nodes)
           F == [p \in Nat \X S |-> Onward(p[2])]
           body(g) == [n \in 0..last |-> IF n = 0 THEN from ELSE Onward(g[n - 1])]
           step == CHOOSE g : g = body(g)
<1>1. \A ids \in S : Onward(ids) \in S
  BY DEF Onward
<1>2. F \in [Nat \X S -> S]
  BY <1>1
<1>3. \A i \in Nat : \A ids \in S : F[<<i, ids>>] = Onward(ids)
  OBVIOUS
<1>3a. last \in Nat /\ from \in S
  OBVIOUS
<1> HIDE DEF F, S, last
<1>4. PICK f \in [0..last -> S] : f[0] = from /\ \A i \in 1..last : f[i] = F[<<i, f[i - 1]>>]
  <2>1. from \in S
    BY <1>3a
  <2>2. last \in Nat
    BY <1>3a
  <2>3. PICK f : IsSteps(f, S, from, F, last)
    BY <1>2, <2>1, <2>2, StepsExist
  <2> QED BY <2>3 DEF IsSteps
<1>5. ASSUME NEW i \in 1..last PROVE f[i] = Onward(f[i - 1])
  <2>1. i \in Nat /\ i - 1 \in 0..last
    BY <1>3a
  <2> QED BY <1>3, <1>4, <2>1
<1>6. f = body(f)
  <2>1. \A n \in 0..last : n = 0 \/ n \in 1..last
    BY <1>3a
  <2> QED BY <1>4, <1>5, <2>1
<1>7. step = body(step)
  BY <1>6
<1>8. Reached(from) = step[last]
  BY DEF Reached, last
<1> HIDE DEF step
<1>9. DOMAIN step = 0..last /\ step[0] = from /\ \A i \in 1..last : step[i] = Onward(step[i - 1])
  BY <1>3a, <1>7
<1>10. \A i \in 0..last : step[i] = f[i]
  <2> DEFINE Bad == {i \in 0..last : step[i] # f[i]}
  <2>1. SUFFICES ASSUME Bad # {} PROVE FALSE
    OBVIOUS
  <2>2. Bad \subseteq Nat
    OBVIOUS
  <2>3. PICK i \in Bad : \A j \in Bad : i <= j
    BY <2>1, <2>2, LeastNumber
  <2>4. i # 0 /\ i \in 1..last /\ i - 1 \in 0..last /\ i - 1 \notin Bad
    BY <1>3a, <1>4, <1>9, <2>3
  <2>5. step[i - 1] = f[i - 1]
    BY <2>4
  <2> QED BY <1>5, <1>9, <2>3, <2>4, <2>5
<1>11. Reached(from) = f[last]
  BY <1>3a, <1>8, <1>10
<1> QED BY <1>4, <1>5, <1>11 DEF last, S

(* Reached stays in every closed set around its start, and goes at least   *)
(* two steps far.                                                          *)
LEMMA ReachedFacts ==
    ASSUME NEW from, from \subseteq IdsOf(nodes), \A x \in edges : x.end \in IdsOf(nodes), Cardinality(nodes) \in Nat
    PROVE  /\ \A C : from \subseteq C /\ Onward(C) \subseteq C => Reached(from) \subseteq C
           /\ Cardinality(nodes) >= 2 => Onward(Onward(from)) \subseteq Reached(from)
<1> DEFINE last == Cardinality(nodes)
<1>1. PICK f \in [0..last -> SUBSET IdsOf(nodes)] :
             /\ f[0] = from /\ \A i \in 1..last : f[i] = Onward(f[i - 1])
             /\ Reached(from) = f[last]
  BY ReachedSteps
<1>2. \A A, B : A \subseteq B => Onward(A) \subseteq Onward(B)
  BY DEF Onward
<1>3. \A A : A \subseteq Onward(A)
  BY DEF Onward
<1>4. last \in Nat
  OBVIOUS
<1> HIDE DEF last
<1>5. ASSUME NEW C, from \subseteq C, Onward(C) \subseteq C PROVE f[last] \subseteq C
  <2> DEFINE Bad == {i \in 0..last : ~(f[i] \subseteq C)}
  <2>1. SUFFICES ASSUME Bad # {} PROVE FALSE
    BY <1>4
  <2>2. Bad \subseteq Nat
    OBVIOUS
  <2>3. PICK i \in Bad : \A j \in Bad : i <= j
    BY <2>1, <2>2, LeastNumber
  <2>4. i # 0 /\ i \in 1..last /\ i - 1 \in 0..last /\ i - 1 \notin Bad
    BY <1>1, <1>4, <1>5, <2>3
  <2>5. f[i - 1] \subseteq C
    BY <2>4
  <2>6. f[i] = Onward(f[i - 1])
    BY <1>1, <2>4
  <2> QED BY <1>2, <1>5, <2>3, <2>5, <2>6
<1>6. ASSUME last >= 2 PROVE Onward(Onward(from)) \subseteq f[last]
  <2> DEFINE Bad == {i \in 2..last : ~(Onward(Onward(from)) \subseteq f[i])}
  <2>1. SUFFICES ASSUME Bad # {} PROVE FALSE
    BY <1>4, <1>6
  <2>2. Bad \subseteq Nat
    OBVIOUS
  <2>3. PICK i \in Bad : \A j \in Bad : i <= j
    BY <2>1, <2>2, LeastNumber
  <2>4. f[1] = Onward(from) /\ f[2] = Onward(f[1])
    <3>1. 1 \in 1..last /\ 2 \in 1..last /\ 1 - 1 = 0 /\ 2 - 1 = 1
      BY <1>4, <1>6
    <3>2. f[1] = Onward(f[1 - 1]) /\ f[2] = Onward(f[2 - 1])
      BY <1>1, <3>1
    <3> QED BY <1>1, <3>1, <3>2
  <2>5. i # 2 /\ i \in 1..last /\ i - 1 \in 2..last /\ i - 1 \notin Bad
    BY <1>4, <2>3, <2>4
  <2>6. Onward(Onward(from)) \subseteq f[i - 1]
    BY <2>5
  <2>7. f[i] = Onward(f[i - 1])
    BY <1>1, <2>5
  <2> QED BY <1>3, <2>3, <2>6, <2>7
<1> QED BY <1>1, <1>5, <1>6 DEF last

-----------------------------------------------------------------------------
(* The live states.                                                        *)
LiveValues == {InitialStates[id] : id \in IdsOf(nodes)} \cup {"dead_lettered", "retrying"}

IsFinal(x, mine) == x \in mine /\ \A y \in mine : x.kind = "published_status" => x.end[2] >= y.end[2]

(* The edge that counts in a slot exists.                                  *)
LEMMA FinalIsMine ==
    ASSUME EdgesFit, Len(statuses) \in Nat, NEW i \in Nat, NEW id,
           NEW mine, mine = {x \in Slot(i) : x.source = id}, mine # {}
    PROVE  \E x : IsFinal(x, mine)
<1> DEFINE kind == EdgeOrder[(i % 8) + 1]
           U == {Len(statuses) - x.end[2] : x \in mine}
<1>1. \A x \in mine : x \in edges /\ x.kind = kind
  BY DEF Slot
<1>2. PICK z \in mine : TRUE
  OBVIOUS
<1>3. CASE kind # "published_status"
  BY <1>1, <1>2, <1>3 DEF IsFinal
<1>4. CASE kind = "published_status"
  <2>1. \A x \in mine : x.end[2] \in 1..Len(statuses)
    BY <1>1, <1>4 DEF EdgesFit
  <2>2. \A x \in mine : Len(statuses) - x.end[2] \in Nat /\ x.end[2] \in Nat
    BY <2>1
  <2>3. U \subseteq Nat /\ U # {}
    BY <1>2, <2>2
  <2>4. PICK u \in U : \A v \in U : u <= v
    BY <2>3, LeastNumber
  <2>5. PICK x \in mine : u = Len(statuses) - x.end[2]
    BY <2>4
  <2>6. ASSUME NEW y \in mine PROVE x.end[2] >= y.end[2]
    <3>1. Len(statuses) - x.end[2] <= Len(statuses) - y.end[2]
      BY <2>4, <2>5
    <3> QED BY <2>2, <3>1
  <2> QED BY <2>5, <2>6 DEF IsFinal
<1> QED BY <1>3, <1>4

(* A slot leaves the state of a node alone or applies one of its edges.    *)
LEMMA SlotApplied ==
    ASSUME EdgesFit, Len(statuses) \in Nat, NEW i \in Nat, NEW states, NEW id \in DOMAIN states
    PROVE  LET new == ApplySlot(states, Slot(i))
           IN  /\ DOMAIN new = DOMAIN states
               /\ \/ new[id] = states[id] /\ ~\E x \in Slot(i) : x.source = id
                  \/ \E x \in Slot(i) : x.source = id /\ new[id] = ApplyEdge(states, x)[id]
<1> DEFINE mine(d) == {x \in Slot(i) : x.source = d}
           final(d) == CHOOSE x \in mine(d) : \A y \in mine(d) : x.kind = "published_status" => x.end[2] >= y.end[2]
<1>1. ApplySlot(states, Slot(i)) =
        [d \in DOMAIN states |-> IF mine(d) = {} THEN states[d] ELSE ApplyEdge(states, final(d))[d]]
  BY DEF ApplySlot
<1>2. mine(id) # {} => final(id) \in mine(id)
  <2>1. SUFFICES ASSUME mine(id) # {} PROVE final(id) \in mine(id)
    OBVIOUS
  <2>2. \E x \in mine(id) : \A y \in mine(id) : x.kind = "published_status" => x.end[2] >= y.end[2]
    <3> DEFINE M == mine(id)
    <3>1. M = {x \in Slot(i) : x.source = id} /\ M # {}
      BY <2>1
    <3> HIDE DEF M
    <3>2. \E x : IsFinal(x, M)
      BY <3>1, FinalIsMine
    <3> QED BY <3>2 DEF M, IsFinal
  <2> QED BY <2>2
<1>3. mine(id) = {} => ~\E x \in Slot(i) : x.source = id
  OBVIOUS
<1>4. mine(id) # {} => final(id) \in Slot(i) /\ final(id).source = id
  BY <1>2
<1> HIDE DEF mine, final
<1>5. DOMAIN ApplySlot(states, Slot(i)) = DOMAIN states
      /\ ApplySlot(states, Slot(i))[id] = IF mine(id) = {} THEN states[id] ELSE ApplyEdge(states, final(id))[id]
  BY <1>1
<1> QED BY <1>3, <1>4, <1>5

(* An edge sets a known state and never takes back a dead letter.          *)
LEMMA EdgeApplied ==
    ASSUME NEW V, {"dead_lettered", "retrying"} \subseteq V, NEW ids, NEW states \in [ids -> V], NEW x,
           x.source \in ids, x.end \in ids
    PROVE  /\ ApplyEdge(states, x)[x.source] \in V
           /\ x.kind = "dead_lettered_to" => ApplyEdge(states, x)[x.source] = "dead_lettered"
           /\ states[x.source] = "dead_lettered" => ApplyEdge(states, x)[x.source] = "dead_lettered"
  BY DEF ApplyEdge

(* Nor does a slot, and a dead-letter edge in it shows.                    *)
LEMMA SlotKept ==
    ASSUME EdgesJoin, EdgesFit, Len(statuses) \in Nat, NEW i \in Nat, NEW states \in [IdsOf(nodes) -> LiveValues]
    PROVE  /\ ApplySlot(states, Slot(i)) \in [IdsOf(nodes) -> LiveValues]
           /\ \A id \in IdsOf(nodes) : states[id] = "dead_lettered" => ApplySlot(states, Slot(i))[id] = "dead_lettered"
           /\ \A x \in Slot(i) : x.kind = "dead_lettered_to" => ApplySlot(states, Slot(i))[x.source] = "dead_lettered"
<1> DEFINE new == ApplySlot(states, Slot(i))
<1>1. {"dead_lettered", "retrying"} \subseteq LiveValues
  BY DEF LiveValues
<1>2. \A x \in Slot(i) : x \in edges /\ x.source \in IdsOf(nodes) /\ x.end \in IdsOf(nodes)
  BY DEF Slot, EdgesJoin
<1>3. \A x, y \in Slot(i) : x.kind = y.kind
  BY DEF Slot
<1>4. ASSUME NEW id \in IdsOf(nodes)
      PROVE  /\ new[id] \in LiveValues
             /\ states[id] = "dead_lettered" => new[id] = "dead_lettered"
             /\ \A x \in Slot(i) : x.kind = "dead_lettered_to" /\ x.source = id => new[id] = "dead_lettered"
  <2>1. id \in DOMAIN states /\ states[id] \in LiveValues
    OBVIOUS
  <2>2. \/ new[id] = states[id] /\ ~\E x \in Slot(i) : x.source = id
        \/ \E x \in Slot(i) : x.source = id /\ new[id] = ApplyEdge(states, x)[id]
    BY <2>1, SlotApplied
  <2> HIDE DEF new
  <2>3. CASE new[id] = states[id] /\ ~\E x \in Slot(i) : x.source = id
    BY <2>1, <2>3
  <2>4. CASE \E x \in Slot(i) : x.source = id /\ new[id] = ApplyEdge(states, x)[id]
    <3>1. PICK x \in Slot(i) : x.source = id /\ new[id] = ApplyEdge(states, x)[id]
      BY <2>4
    <3>2. /\ ApplyEdge(states, x)[x.source] \in LiveValues
          /\ x.kind = "dead_lettered_to" => ApplyEdge(states, x)[x.source] = "dead_lettered"
          /\ states[x.source] = "dead_lettered" => ApplyEdge(states, x)[x.source] = "dead_lettered"
      BY <1>1, <1>2, EdgeApplied
    <3> QED BY <1>3, <3>1, <3>2
  <2> QED BY <2>2, <2>3, <2>4
<1>5. new \in [IdsOf(nodes) -> LiveValues]
  <2>1. new = [id \in DOMAIN states |-> new[id]]
    BY DEF ApplySlot
  <2> HIDE DEF new
  <2> QED BY <1>4, <2>1
<1> QED BY <1>2, <1>4, <1>5

(* LiveStates is the last of a sequence of slots applied.                  *)
LEMMA LiveSteps ==
    ASSUME GraphAssumption, EdgesJoin, EdgesFit, Len(statuses) \in Nat
    PROVE  \E f \in [0..(8 * (MaxTime + 1)) -> [IdsOf(nodes) -> LiveValues]] :
             /\ \A i \in 1..(8 * (MaxTime + 1)) : f[i] = ApplySlot(f[i - 1], Slot(i - 1))
             /\ LiveStates = f[8 * (MaxTime + 1)]
<1> DEFINE last == 8 * (MaxTime + 1)
           S == [IdsOf(nodes) -> LiveValues]
           F == [p \in Nat \X S |-> IF p[1] = 0 THEN p[2] ELSE ApplySlot(p[2], Slot(p[1] - 1))]
           body(g) == [i \in 0..last |-> IF i = 0 THEN InitialStates ELSE ApplySlot(g[i - 1], Slot(i - 1))]
           step == CHOOSE g : g = body(g)
<1>1. \A i \in Nat : \A states \in S : ApplySlot(states, Slot(i)) \in S
  BY SlotKept
<1>2. \A i \in Nat : i # 0 => i - 1 \in Nat
  OBVIOUS
<1>3. F \in [Nat \X S -> S]
  <2> HIDE DEF S
  <2> QED BY <1>1, <1>2
<1>4. \A i \in Nat : \A states \in S : i # 0 => F[<<i, states>>] = ApplySlot(states, Slot(i - 1))
  <2> HIDE DEF S
  <2> QED OBVIOUS
<1>5. last \in Nat
  BY DEF GraphAssumption
<1>6. InitialStates \in S
  BY DEF InitialStates, LiveValues
<1> HIDE DEF F, S, last
<1>7. PICK f : IsSteps(f, S, InitialStates, F, last)
  BY <1>3, <1>5, <1>6, StepsExist
<1>8. f \in [0..last -> S] /\ f[0] = InitialStates /\ \A i \in 1..last : f[i] = F[<<i, f[i - 1]>>]
  BY <1>7 DEF IsSteps
<1>9. ASSUME NEW i \in 1..last PROVE f[i] = ApplySlot(f[i - 1], Slot(i - 1))
  <2>1. i \in Nat /\ i # 0 /\ i - 1 \in 0..last
    BY <1>5
  <2>2. f[i - 1] \in S
    BY <1>8, <2>1
  <2> QED BY <1>4, <1>8, <2>1, <2>2
<1>10. f = body(f)
  <2>1. \A n \in 0..last : n = 0 \/ n \in 1..last
    BY <1>5
  <2> QED BY <1>8, <1>9, <2>1
<1>11. step = body(step)
  BY <1>10
<1>12. LiveStates = step[last]
  BY DEF LiveStates, last
<1> HIDE DEF step
<1>13. DOMAIN step = 0..last /\ step[0] = InitialStates /\ \A i \in 1..last : step[i] = ApplySlot(step[i - 1], Slot(i - 1))
  BY <1>5, <1>11
<1>14. \A i \in 0..last : step[i] = f[i]
  <2> DEFINE Bad == {i \in 0..last : step[i] # f[i]}
  <2>1. SUFFICES ASSUME Bad # {} PROVE FALSE
    OBVIOUS
  <2>2. Bad \subseteq Nat
    OBVIOUS
  <2>3. PICK i \in Bad : \A j \in Bad : i <= j
    BY <2>1, <2>2, LeastNumber
  <2>4. i # 0 /\ i \in 1..last /\ i - 1 \in 0..last /\ i - 1 \notin Bad
    BY <1>5, <1>8, <1>13, <2>3
  <2>5. step[i - 1] = f[i - 1]
    BY <2>4
  <2> QED BY <1>9, <1>13, <2>3, <2>4, <2>5
<1>15. LiveStates = f[last]
  BY <1>5, <1>12, <1>14
<1> QED BY <1>8, <1>9, <1>15 DEF last, S

(* The source of a dead-letter edge ends as dead-lettered: the slot of the *)
(* edge sets it, no later one takes it back.                               *)
LEMMA DeadShown ==
    ASSUME GraphAssumption, EdgesJoin, EdgesFit, Len(statuses) \in Nat,
           NEW x \in edges, x.kind = "dead_lettered_to"
    PROVE  LiveStates[x.source] = "dead_lettered"
<1> DEFINE last == 8 * (MaxTime + 1)
           S == [IdsOf(nodes) -> LiveValues]
<1>1. PICK f \in [0..last -> S] : /\ \A i \in 1..last : f[i] = ApplySlot(f[i - 1], Slot(i - 1))
                              /\ LiveStates = f[last]
  BY LiveSteps
<1>2. x.t \in 0..MaxTime /\ MaxTime \in Nat /\ x.source \in IdsOf(nodes)
  BY DEF GraphAssumption, EdgesFit, EdgesJoin
<1>3. last \in Nat /\ 8 * x.t + 2 \in 1..last /\ 8 * x.t + 1 \in Nat /\ (8 * x.t + 2) - 1 = 8 * x.t + 1
  BY <1>2
<1>4. (8 * x.t + 1) \div 8 = x.t /\ (8 * x.t + 1) % 8 = 1
  <2>1. \A n \in Nat : (8 * n + 1) \div 8 = n /\ (8 * n + 1) % 8 = 1
    OBVIOUS
  <2>2. x.t \in Nat
    BY <1>2
  <2> QED BY <2>1, <2>2
<1>5. x \in Slot(8 * x.t + 1)
  <2>1. EdgeOrder[2] = "dead_lettered_to"
    BY DEF EdgeOrder
  <2>2. ((8 * x.t + 1) % 8) + 1 = 2
    BY <1>4
  <2> QED BY <1>4, <2>1, <2>2 DEF Slot
<1> HIDE DEF last
<1>6. \A i \in 0..last : f[i] \in S
  BY <1>1
<1>7. f[8 * x.t + 2][x.source] = "dead_lettered"
  <2>1. f[8 * x.t + 2] = ApplySlot(f[8 * x.t + 1], Slot(8 * x.t + 1))
    BY <1>1, <1>3
  <2>2. 8 * x.t + 1 \in 0..last
    BY <1>3
  <2>3. f[8 * x.t + 1] \in S
    BY <1>6, <2>2
  <2> QED BY <1>3, <1>5, <2>1, <2>3, SlotKept
<1>8. f[last][x.source] = "dead_lettered"
  <2> DEFINE Bad == {i \in (8 * x.t + 2)..last : f[i][x.source] # "dead_lettered"}
  <2>1. SUFFICES ASSUME Bad # {} PROVE FALSE
    BY <1>3
  <2>2. Bad \subseteq Nat
    BY <1>3
  <2>3. PICK i \in Bad : \A j \in Bad : i <= j
    BY <2>1, <2>2, LeastNumber
  <2>4. i \in 1..last /\ i - 1 \in 0..last /\ i - 1 \in (8 * x.t + 2)..last /\ i - 1 \notin Bad /\ i - 1 \in Nat
    <3>1. i # 8 * x.t + 2
      BY <1>7, <2>3
    <3> QED BY <1>3, <2>3, <3>1
  <2>5. f[i - 1][x.source] = "dead_lettered"
    BY <2>4
  <2>6. f[i] = ApplySlot(f[i - 1], Slot(i - 1)) /\ f[i - 1] \in S
    BY <1>1, <1>6, <2>4
  <2>7. f[i][x.source] = "dead_lettered"
    BY <1>2, <2>4, <2>5, <2>6, SlotKept
  <2> QED BY <2>3, <2>7
<1> QED BY <1>1, <1>8

(* The latest and the next attempt: attempts, at most one, on their side   *)
(* of t.                                                                   *)
LEMMA LatestFacts ==
    ASSUME GraphTyped, AttemptsPlaced, NEW t \in Nat
    PROVE  /\ \A a \in LatestAttempt(t) \cup NextAttempt(t) :
                /\ \E i \in 1..Len(attempts) : a = attempts[i]
                /\ a \in nodes /\ a.id \in IdsOf(nodes) /\ a.id[1] = "attempt" /\ a.t \in 1..MaxTime
           /\ Len(attempts) >= 1 => LatestAttempt(t) # {}
           /\ Len(attempts) >= 1 /\ attempts[1].t <= t => \A a \in LatestAttempt(t) : a.t <= t
           /\ \A a \in NextAttempt(t) : a.t > t
           /\ \A a, b \in LatestAttempt(t) : a = b
<1> DEFINE before == {i \in DOMAIN attempts : attempts[i].t <= t}
           after == {i \in DOMAIN attempts : attempts[i].t > t}
<1>1. attempts \in Seq(AttemptNode) /\ DOMAIN attempts = 1..Len(attempts) /\ Len(attempts) \in Nat
  BY DEF GraphTyped
<1>2. before \subseteq DOMAIN attempts /\ after \subseteq DOMAIN attempts
  OBVIOUS
<1>3. LatestAttempt(t) = IF before # {} THEN LastOf(attempts, before) ELSE FirstOf(attempts, DOMAIN attempts)
  BY DEF LatestAttempt
<1>4. NextAttempt(t) = FirstOf(attempts, after)
  BY DEF NextAttempt
<1>5. /\ \A n \in LastOf(attempts, before) : \E i \in before : n = attempts[i]
      /\ before # {} => LastOf(attempts, before) # {}
      /\ \A n, m \in LastOf(attempts, before) : n = m
  BY <1>1, <1>2, LastFirstFacts
<1>6. \A n \in FirstOf(attempts, after) : \E i \in after : n = attempts[i]
  BY <1>1, <1>2, LastFirstFacts
<1>7. /\ \A n \in FirstOf(attempts, DOMAIN attempts) : \E i \in DOMAIN attempts : n = attempts[i]
      /\ DOMAIN attempts # {} => FirstOf(attempts, DOMAIN attempts) # {}
  <2> DEFINE all == DOMAIN attempts
  <2>1. all \subseteq DOMAIN attempts
    OBVIOUS
  <2> HIDE DEF all
  <2>2. /\ \A n \in FirstOf(attempts, all) : \E i \in all : n = attempts[i]
        /\ all # {} => FirstOf(attempts, all) # {}
    BY <1>1, <2>1, LastFirstFacts
  <2> QED BY <2>2 DEF all
<1>8. \A a, b \in FirstOf(attempts, DOMAIN attempts) : a = b
  BY <1>1 DEF FirstOf
<1>9. \A i \in 1..Len(attempts) : /\ attempts[i] \in nodes /\ attempts[i].id = <<"attempt", i>>
                                  /\ attempts[i].t \in 1..MaxTime /\ attempts[i].id \in IdsOf(nodes)
  <2>1. \A i \in 1..Len(attempts) : attempts[i] \in AttemptNode
    BY <1>1
  <2>2. \A i \in 1..Len(attempts) : attempts[i].t \in 1..MaxTime
    BY <2>1 DEF AttemptNode
  <2>3. \A n \in nodes : n.id \in IdsOf(nodes)
    BY DEF IdsOf
  <2> QED BY <2>2, <2>3 DEF AttemptsPlaced
<1>10. \A a \in LatestAttempt(t) \cup NextAttempt(t) : \E i \in 1..Len(attempts) : a = attempts[i]
  <2> HIDE DEF before, after
  <2> QED BY <1>1, <1>2, <1>3, <1>4, <1>5, <1>6, <1>7
<1>11. Len(attempts) >= 1 => LatestAttempt(t) # {}
  <2> HIDE DEF before, after
  <2>1. Len(attempts) >= 1 => 1 \in DOMAIN attempts
    BY <1>1
  <2> QED BY <1>3, <1>5, <1>7, <2>1
<1>12. Len(attempts) >= 1 /\ attempts[1].t <= t => \A a \in LatestAttempt(t) : a.t <= t
  <2>1. Len(attempts) >= 1 /\ attempts[1].t <= t => 1 \in before
    BY <1>1
  <2>2. \A i \in before : attempts[i].t <= t
    OBVIOUS
  <2> HIDE DEF before
  <2> QED BY <1>3, <1>5, <2>1, <2>2
<1>13. \A a \in NextAttempt(t) : a.t > t
  <2>1. \A i \in after : attempts[i].t > t
    OBVIOUS
  <2> HIDE DEF after
  <2> QED BY <1>4, <1>6, <2>1
<1>14. \A a, b \in LatestAttempt(t) : a = b
  <2> HIDE DEF before
  <2> QED BY <1>3, <1>5, <1>8
<1>15. ASSUME NEW a \in LatestAttempt(t) \cup NextAttempt(t)
       PROVE  a \in nodes /\ a.id \in IdsOf(nodes) /\ a.id[1] = "attempt" /\ a.t \in 1..MaxTime
  <2>1. PICK i \in 1..Len(attempts) : a = attempts[i]
    BY <1>10
  <2> QED BY <1>9, <2>1
<1> HIDE DEF before, after
<1> QED BY <1>10, <1>11, <1>12, <1>13, <1>14, <1>15

(* The latest stage is a node.                                             *)
LEMMA StageFacts ==
    ASSUME GraphTyped, StagesPlaced, NEW s, NEW t
    PROVE  \A n \in LatestStage(s, t) : n \in nodes /\ n.id \in IdsOf(nodes)
<1> DEFINE fit == {i \in DOMAIN stages : (s = None \/ stages[i].a = s) /\ stages[i].t <= t}
<1>1. stages \in Seq(StageNode) /\ DOMAIN stages = 1..Len(stages)
  BY DEF GraphTyped
<1>2. fit \subseteq DOMAIN stages
  OBVIOUS
<1>3. LatestStage(s, t) = LastOf(stages, fit)
  BY DEF LatestStage
<1> HIDE DEF fit
<1>4. \A n \in LatestStage(s, t) : \E i \in DOMAIN stages : n = stages[i]
  BY <1>1, <1>2, <1>3, LastFirstFacts
<1> QED BY <1>1, <1>4 DEF StagesPlaced, IdsOf

(* A node that is neither an attempt, a stage nor a status.                *)
LEMMA PlainPlaced ==
    ASSUME GraphTyped, GraphPlaced, NEW n, NEW new, n.id[1] \notin {"attempt", "stage", "status"},
           nodes' = AddNode(nodes, n), edges' = edges \cup new,
           UNCHANGED <<attempts, stages, statuses, workflow>>,
           \A x \in new : /\ x.source \in IdsOf(nodes') /\ x.end \in IdsOf(nodes') /\ x.kind # "published_status"
                          /\ x.kind = "dead_lettered_to" => x.t \in 0..MaxTime,
           \A m \in retryLinks' : m \in retryLinks \/ m = n
    PROVE  GraphPlaced'
<1>1. /\ nodes \subseteq nodes' /\ IdsOf(nodes') = IdsOf(nodes) \cup {n.id}
      /\ \A m \in nodes' : m \in nodes \/ m = n
  BY AddNodeFacts DEF GraphTyped
<1>2. (Root \in IdsOf(nodes) /\ Child \in IdsOf(nodes))'
  BY <1>1 DEF GraphPlaced, Root, Child
<1>3. EdgesJoin'
  BY <1>1 DEF GraphPlaced, EdgesJoin
<1>4. EdgesFit'
  BY DEF GraphPlaced, EdgesFit
<1>5. AttemptsPlaced'
  BY <1>1 DEF GraphPlaced, AttemptsPlaced, Root
<1>6. StagesPlaced'
  BY <1>1 DEF GraphPlaced, StagesPlaced, OfStage
<1>7. StatusesPlaced'
  BY <1>1 DEF GraphPlaced, StatusesPlaced, Root
<1>8. LinksPlaced'
  BY <1>1 DEF GraphPlaced, LinksPlaced
<1> QED BY <1>2, <1>3, <1>4, <1>5, <1>6, <1>7, <1>8 DEF GraphPlaced

(* A node of another kind leaves the count of this one alone.              *)
LEMMA PlainCounted ==
    ASSUME GraphTyped, NEW n, NEW kind, n.id[1] # kind, nodes' = AddNode(nodes, n)
    PROVE  CountOf(kind)' = CountOf(kind)
<1>1. Cardinality(OfKind(AddNode(nodes, n), kind)) = Cardinality(OfKind(nodes, kind))
  BY CountAdds DEF GraphTyped
<1> QED BY <1>1 DEF CountOf, OfKind

(* A new node of this kind counts.                                         *)
LEMMA NewCounted ==
    ASSUME GraphTyped, NEW n, NEW kind, n.id[1] = kind, n.id \notin IdsOf(nodes), nodes' = AddNode(nodes, n)
    PROVE  CountOf(kind)' = CountOf(kind) + 1
<1>1. Cardinality(OfKind(AddNode(nodes, n), kind)) = Cardinality(OfKind(nodes, kind)) + 1
  BY CountAdds DEF GraphTyped
<1> QED BY <1>1 DEF CountOf, OfKind

(* What an observation read adds to the evidence.                          *)
LEMMA ObservedAdds ==
    ASSUME GraphTyped, NEW e \in Evidence, evidence' = Append(evidence, e), NEW types
    PROVE  /\ Observed(types)' = Observed(types) + (IF e.type \in types THEN 1 ELSE 0)
           /\ evidence' \in Seq(Evidence) /\ Len(evidence') = Len(evidence) + 1 /\ evidence' # <<>>
           /\ evidence # <<>> => evidence'[1] = evidence[1]
           /\ evidence = <<>> => evidence'[1] = e
<1>1. evidence \in Seq(Evidence)
  BY DEF GraphTyped
<1>2. /\ Cardinality(OfTypes(evidence, types)) \in Nat
      /\ e.type \in types => Cardinality(OfTypes(Append(evidence, e), types)) = Cardinality(OfTypes(evidence, types)) + 1
      /\ e.type \notin types => Cardinality(OfTypes(Append(evidence, e), types)) = Cardinality(OfTypes(evidence, types))
  BY <1>1, TypesAdd
<1>3. Observed(types)' = Observed(types) + (IF e.type \in types THEN 1 ELSE 0)
  <2>1. Observed(types) = Cardinality(OfTypes(evidence, types))
    BY DEF Observed, OfTypes
  <2>2. Observed(types)' = Cardinality(OfTypes(evidence', types))
    BY DEF Observed, OfTypes
  <2> QED BY <1>2, <2>1, <2>2
<1> QED BY <1>1, <1>3

(* The known part, when no retry is added.                                 *)
LEMMA PlainRises ==
    ASSUME GraphTyped, RetriesCounted, RetriesPlaced, AllRise, NEW n, NEW new, n.id[1] # "retry",
           nodes' = AddNode(nodes, n), edges' = edges \cup new, retryLinks' = retryLinks,
           \A x \in new : x.kind # "retried_as" /\ Rises(x, nodes')
    PROVE  /\ CountOf("retry")' = CountOf("retry") /\ Retried' = Retried
           /\ IsFiniteSet(Retried') /\ RetriesPlaced' /\ AllRise'
<1>1. nodes \subseteq nodes' /\ \A m \in nodes' : m \in nodes \/ m = n
  BY AddNodeFacts DEF GraphTyped
<1>2. CountOf("retry")' = CountOf("retry")
  BY PlainCounted
<1>3. Retried' = Retried
  BY DEF Retried
<1>4. IsFiniteSet(Retried')
  BY <1>3 DEF RetriesCounted
<1>5. RetriesPlaced'
  <2>1. \A m \in nodes' : m.id[1] = "retry" => RetryPlaced(m, Cardinality(Retried'))
    BY <1>1, <1>3 DEF RetriesPlaced
  <2>2. \A m \in retryLinks' : m \in nodes' /\ m.id[1] = "retry"
    BY <1>1 DEF RetriesPlaced
  <2> QED BY <2>1, <2>2 DEF RetriesPlaced, RetryPlaced
<1>6. AllRise'
  <2>1. \A x \in edges : Rises(x, nodes')
    BY <1>1 DEF AllRise, Rises, Rank
  <2>2. \A x \in edges' : Rises(x, nodes')
    BY <2>1
  <2> QED BY <2>2 DEF AllRise, Rises, Rank
<1> QED BY <1>2, <1>3, <1>4, <1>5, <1>6

(* What an observation can be.                                             *)
LEMMA ObservationTyped ==
    ASSUME GraphAssumption, GraphTyped, NEW t \in Times, NEW o \in Observation(t)
    PROVE  /\ o.t = t /\ t \in 1..MaxTime /\ t \in Nat /\ t >= clock /\ MaxTime \in Nat
           /\ [type |-> o.type, t |-> o.t] \in Evidence
           /\ IF workflow THEN o.type \in {"published", "entered"} ELSE o.type \in {"received", "retry", "dead", "sample"}
           /\ o.type = "entered" => o.s \in Stages
<1>1. t \in 1..MaxTime /\ t \in Nat /\ t >= clock /\ MaxTime \in Nat
  BY DEF GraphAssumption, GraphTyped, Times
<1>2. workflow \in BOOLEAN
  BY DEF GraphTyped
<1>3. CASE workflow
  <2>1. o \in [type : {"published"}, t : {t}, m : Messages \cup {None}, s : Stages \cup {None}]
             \cup [type : {"entered"}, t : {t}, m : Messages \cup {None}, s : Stages]
    BY <1>3 DEF Observation
  <2> QED BY <1>1, <1>3, <2>1 DEF Evidence
<1>4. CASE ~workflow
  <2>1. o \in [type : {"received", "retry", "dead", "sample"}, t : {t}, m : {None}, s : {None}]
    BY <1>4 DEF Observation
  <2> QED BY <1>1, <1>4, <2>1 DEF Evidence
<1> QED BY <1>2, <1>3, <1>4

(* What every observation read does to the evidence.                       *)
ObservationRead(o) ==
    /\ (workflow \in BOOLEAN)' /\ workflow' = workflow /\ clock' \in Nat /\ clock' >= 1
    /\ (evidence \in Seq(Evidence))' /\ (statuses \in Seq(StatusSet))'
    /\ statuses = <<>> /\ statuses' = statuses /\ phase = "observations" /\ phase' = phase
    /\ \A types : Observed(types)' = Observed(types) + (IF o.type \in types THEN 1 ELSE 0)
    /\ evidence # <<>> /\ Known' => Known /\ InTime /\ RetriesCounted /\ RetriesPlaced /\ AllRise
    /\ evidence # <<>> /\ Known' => evidence'[1] = evidence[1] /\ clock' >= evidence[1].t
    /\ evidence = <<>> /\ Known' => o.type = "received" /\ evidence'[1].t = o.t
    /\ Untouched'

(* Reading an observation does what ObservationRead says.                  *)
LEMMA ObservationFacts ==
    ASSUME GraphAssumption, GraphInv, NEW t \in Times, NEW o \in Observation(t),
           phase = "observations", evidence' = Append(evidence, [type |-> o.type, t |-> o.t]), clock' = o.t,
           UNCHANGED <<workflow, phase, statuses>>
    PROVE  ObservationRead(o)
<1> DEFINE e == [type |-> o.type, t |-> o.t]
<1>0. GraphTyped /\ KnownSound
  BY DEF GraphInv
<1>1. /\ o.t = t /\ t \in 1..MaxTime /\ t \in Nat /\ t >= clock /\ e \in Evidence
  BY <1>0, ObservationTyped
<1>2. ASSUME NEW types
      PROVE  /\ Observed(types)' = Observed(types) + (IF e.type \in types THEN 1 ELSE 0)
             /\ evidence' \in Seq(Evidence) /\ Len(evidence') = Len(evidence) + 1 /\ evidence' # <<>>
             /\ evidence # <<>> => evidence'[1] = evidence[1]
             /\ evidence = <<>> => evidence'[1] = e
  <2> HIDE DEF e
  <2>1. evidence' = Append(evidence, e)
    BY DEF e
  <2> QED BY <1>0, <1>1, <2>1, ObservedAdds
<1>3. e.type = o.type /\ e.t = o.t
  OBVIOUS
<1> HIDE DEF e
<1>4. statuses = <<>> /\ workflow \in BOOLEAN /\ statuses \in Seq(StatusSet) /\ clock \in Nat /\ clock >= 1
  BY <1>0 DEF GraphTyped
<1>5. evidence # <<>> /\ Known' => Known /\ evidence'[1] = evidence[1]
  BY <1>2, <1>4 DEF Known
<1>6. evidence # <<>> /\ Known' => InTime /\ RetriesCounted /\ RetriesPlaced /\ AllRise
  BY <1>0, <1>5 DEF KnownSound
<1>7. evidence # <<>> /\ Known' => clock' >= evidence[1].t
  <2>1. SUFFICES ASSUME evidence # <<>>, Known' PROVE clock' >= evidence[1].t
    OBVIOUS
  <2>2. clock >= evidence[1].t
    BY <1>6, <2>1 DEF InTime
  <2>3. evidence[1] \in Evidence
    BY <1>0, <2>1 DEF GraphTyped
  <2>4. evidence[1].t \in Nat
    BY <2>3 DEF Evidence
  <2> QED BY <1>1, <1>4, <2>2, <2>4
<1>8. evidence = <<>> /\ Known' => o.type = "received" /\ evidence'[1].t = o.t
  BY <1>2, <1>3 DEF Known
<1>9. Untouched'
  BY <1>2 DEF Untouched
<1>10. (evidence \in Seq(Evidence))' /\ \A types : Observed(types)' = Observed(types) + (IF o.type \in types THEN 1 ELSE 0)
  BY <1>2, <1>3
<1> QED BY <1>1, <1>4, <1>5, <1>6, <1>7, <1>8, <1>9, <1>10 DEF ObservationRead

(* The count of what was observed is a number.                             *)
LEMMA ObservedNat ==
    ASSUME GraphTyped, NEW types
    PROVE  Observed(types) \in Nat
<1>1. evidence \in Seq(Evidence)
  BY DEF GraphTyped
<1>2. DOMAIN evidence = 1..Len(evidence) /\ Len(evidence) \in Nat
  BY <1>1
<1> DEFINE S == {i \in DOMAIN evidence : evidence[i].type \in types}
<1>3. IsFiniteSet(1..Len(evidence))
  BY <1>2, FS_Interval
<1>4. S \subseteq 1..Len(evidence)
  BY <1>2
<1>5. IsFiniteSet(S)
  BY <1>3, <1>4, FS_Subset
<1> QED BY <1>5, FS_CardinalityType DEF Observed

(* Sample and dead letter of a task, message of a workflow.                *)
LEMMA PlainObservation ==
    ASSUME GraphAssumption, GraphInv, NEW o, ObservationRead(o), o.type \in {"sample", "dead", "published"},
           NEW n, NEW new, n.id[1] \notin {"attempt", "stage", "status", "retry"},
           nodes' = AddNode(nodes, n), edges' = edges \cup new,
           UNCHANGED <<attempts, stages, retryLinks>>,
           \A x \in new : /\ x.source \in IdsOf(nodes') /\ x.end \in IdsOf(nodes')
                          /\ x.kind \notin {"published_status", "retried_as"}
                          /\ x.kind = "dead_lettered_to" => x.t \in 0..MaxTime
                          /\ Known' => Rises(x, nodes')
    PROVE  GraphInv'
<1>0. GraphTyped /\ GraphPlaced /\ Counted /\ KnownSound
  BY DEF GraphInv
<1>1. IsFiniteSet(nodes') /\ Apart(nodes')
  BY <1>0, AddNodeFacts DEF GraphTyped
<1>2. GraphTyped'
  BY <1>0, <1>1 DEF GraphTyped, ObservationRead, Apart
<1>3. GraphPlaced'
  BY <1>0, PlainPlaced DEF ObservationRead
<1>4. Counted'
  <2>1. /\ CountOf("attempt")' = CountOf("attempt") /\ CountOf("stage")' = CountOf("stage")
        /\ CountOf("status")' = CountOf("status")
    BY <1>0, PlainCounted
  <2>2. Observed({"received"})' = Observed({"received"}) /\ Observed({"entered"})' = Observed({"entered"})
    BY <1>0, ObservedNat DEF ObservationRead
  <2> QED BY <1>0, <2>1, <2>2 DEF Counted, ObservationRead
<1>5. KnownSound'
  <2>1. SUFFICES ASSUME Known' PROVE InTime' /\ RetriesCounted' /\ RetriesPlaced' /\ AllRise'
    BY DEF KnownSound
  <2>2. evidence # <<>>
    BY <2>1 DEF ObservationRead
  <2>3. /\ InTime /\ RetriesCounted /\ RetriesPlaced /\ AllRise /\ evidence'[1] = evidence[1] /\ clock' >= evidence[1].t
    BY <2>1, <2>2 DEF ObservationRead
  <2>4. /\ CountOf("retry")' = CountOf("retry") /\ Retried' = Retried
        /\ IsFiniteSet(Retried') /\ RetriesPlaced' /\ AllRise'
    BY <1>0, <2>1, <2>3, PlainRises
  <2>5. Observed({"retry"})' = Observed({"retry"})
    BY <1>0, ObservedNat DEF ObservationRead
  <2>6. RetriesCounted'
    BY <2>3, <2>4, <2>5 DEF RetriesCounted
  <2>7. InTime'
    BY <2>3 DEF InTime, ObservationRead
  <2> QED BY <2>4, <2>6, <2>7
<1> QED BY <1>2, <1>3, <1>4, <1>5 DEF GraphInv, ObservationRead

(* A sample keeps the invariant.                                           *)
LEMMA SampleKeeps ==
    ASSUME GraphAssumption, GraphInv, NEW t \in Times, NEW o \in Observation(t), o.type = "sample", ReadObservation(o)
    PROVE  GraphInv'
<1>1. ObservationRead(o)
  BY ObservationFacts DEF ReadObservation
<1> DEFINE n == Node(<<"sample", IF o.t > 0 THEN o.t ELSE Cardinality(nodes)>>, o.t, None)
<1>2. AddSample(o)
  BY DEF ReadObservation, AddObservation
<1>3. nodes' = AddNode(nodes, n) /\ edges' = edges \cup {} /\ UNCHANGED <<attempts, stages, retryLinks>>
  BY <1>2 DEF AddSample
<1>4. n.id[1] = "sample"
  BY DEF Node
<1> HIDE DEF n
<1>5. n.id[1] \notin {"attempt", "stage", "status", "retry"}
  BY <1>4
<1> DEFINE new == {}
<1>6. edges' = edges \cup new /\ \A x \in new : FALSE
  BY <1>3
<1> HIDE DEF new
<1> QED BY <1>1, <1>3, <1>5, <1>6, PlainObservation

(* Edges lead from the ids of the nodes.                                   *)
LEMMA EdgesFacts ==
    ASSUME NEW A, NEW kind, NEW end, NEW t, NEW x \in Edges(IdsOf(A), kind, end, t)
    PROVE  \E a \in A : x.source = a.id /\ x.kind = kind /\ x.end = end /\ x.t = t
<1>1. PICK id \in IdsOf(A) : x = Edge(id, kind, end, t)
  BY DEF Edges
<1>2. PICK a \in A : id = a.id
  BY DEF IdsOf
<1> QED BY <1>1, <1>2 DEF Edge

(* So does a dead letter: its edge leads up from an attempt.               *)
LEMMA DeadKeeps ==
    ASSUME GraphAssumption, GraphInv, NEW t \in Times, NEW o \in Observation(t), o.type = "dead", ReadObservation(o)
    PROVE  GraphInv'
<1>0. GraphTyped /\ GraphPlaced /\ AttemptsPlaced
  BY DEF GraphInv, GraphPlaced
<1>1. ObservationRead(o)
  BY ObservationFacts DEF ReadObservation
<1>2. o.t \in 1..MaxTime /\ o.t \in Nat /\ MaxTime \in Nat
  BY <1>0, ObservationTyped
<1> DEFINE n == Node(<<"dlq", 1 + Cardinality({x \in nodes : x.id[1] = "dlq"})>>, o.t, None)
           new == Edges(IdsOf(LatestAttempt(o.t)), "dead_lettered_to", n.id, o.t)
<1>3. AddDead(o)
  BY DEF ReadObservation, AddObservation
<1>4. nodes' = AddNode(nodes, n) /\ edges' = edges \cup new /\ UNCHANGED <<attempts, stages, retryLinks>>
  BY <1>3 DEF AddDead
<1>5. n.id[1] = "dlq"
  BY DEF Node
<1>6. \A x \in new : \E a \in LatestAttempt(o.t) : x.source = a.id /\ x.kind = "dead_lettered_to" /\ x.end = n.id /\ x.t = o.t
  <2>1. new = Edges(IdsOf(LatestAttempt(o.t)), "dead_lettered_to", n.id, o.t)
    OBVIOUS
  <2> HIDE DEF n, new
  <2> QED BY <2>1, EdgesFacts
<1> HIDE DEF n, new
<1>7. nodes \subseteq nodes' /\ IdsOf(nodes') = IdsOf(nodes) \cup {n.id}
  BY <1>0, <1>4, AddNodeFacts DEF GraphTyped
<1>8. PICK m \in nodes' : m.id = n.id
  BY <1>7 DEF IdsOf
<1>9. ASSUME NEW x \in new
      PROVE  /\ x.source \in IdsOf(nodes') /\ x.end \in IdsOf(nodes')
             /\ x.kind \notin {"published_status", "retried_as"} /\ x.t \in 0..MaxTime
             /\ Rises(x, nodes')
  <2>1. PICK a \in LatestAttempt(o.t) : x.source = a.id /\ x.kind = "dead_lettered_to" /\ x.end = n.id /\ x.t = o.t
    BY <1>6
  <2>2. a \in nodes /\ a.id \in IdsOf(nodes) /\ a.id[1] = "attempt" /\ a.t \in 1..MaxTime
    BY <1>0, <1>2, LatestFacts
  <2>3. Rank(a) < Rank(m)
    BY <1>2, <1>5, <1>8, <2>2 DEF Rank
  <2>4. Rises(x, nodes')
    BY <1>7, <1>8, <2>1, <2>2, <2>3 DEF Rises
  <2> QED BY <1>2, <1>7, <2>1, <2>2, <2>4
<1>10. n.id[1] \notin {"attempt", "stage", "status", "retry"}
  BY <1>5
<1>11. o.type \in {"sample", "dead", "published"}
  OBVIOUS
<1> QED BY <1>1, <1>4, <1>9, <1>10, <1>11, PlainObservation

(* So does a published message, of a workflow only.                        *)
LEMMA PublishedKeeps ==
    ASSUME GraphAssumption, GraphInv, NEW t \in Times, NEW o \in Observation(t), o.type = "published", ReadObservation(o)
    PROVE  GraphInv'
<1>0. GraphTyped /\ GraphPlaced /\ StagesPlaced /\ Root \in IdsOf(nodes) /\ KnownSound
  BY DEF GraphInv, GraphPlaced
<1>1. ObservationRead(o)
  BY ObservationFacts DEF ReadObservation
<1>2. AddPublished(o)
  BY DEF ReadObservation, AddObservation
<1>3. workflow /\ o.t \in Nat
  BY <1>0, ObservationTyped DEF GraphTyped
<1>4. ~Known'
  <2>1. SUFFICES ASSUME Known' PROVE FALSE
    OBVIOUS
  <2>2. evidence # <<>>
    BY <1>1, <2>1 DEF ObservationRead
  <2>3. InTime
    BY <1>1, <2>1, <2>2 DEF ObservationRead
  <2> QED BY <1>3, <2>3 DEF InTime
<1>5. o.type \in {"sample", "dead", "published"}
  OBVIOUS
<1>6. CASE o.m = None
  <2>1. PICK n \in nodes : n.id = Root
    BY <1>0 DEF IdsOf
  <2>2. nodes' = AddNode(nodes, n)
    BY <1>2, <1>6 DEF AddPublished, AddNode, IdsOf
  <2>3. n.id[1] = "task"
    BY <2>1 DEF Root
  <2> DEFINE new == {}
  <2>4. edges' = edges \cup new /\ (\A x \in new : FALSE) /\ UNCHANGED <<attempts, stages, retryLinks>>
    BY <1>2, <1>6 DEF AddPublished
  <2> HIDE DEF new
  <2>5. n.id[1] \notin {"attempt", "stage", "status", "retry"}
    BY <2>3
  <2> QED BY <1>1, <1>5, <2>2, <2>4, <2>5, PlainObservation
<1>7. CASE o.m # None
  <2> DEFINE n == Node(<<"message", o.m>>, o.t, None)
             new == IF o.s = None THEN {Edge(Root, "received_by", n.id, o.t)}
                    ELSE Edges(IdsOf(LatestStage(o.s, o.t)), "stage_transitioned_to", n.id, o.t)
  <2>1. nodes' = AddNode(nodes, n) /\ edges' = edges \cup new /\ UNCHANGED <<attempts, stages, retryLinks>>
    BY <1>2, <1>7 DEF AddPublished
  <2>2. n.id[1] = "message"
    BY DEF Node
  <2>3. \A x \in new : /\ x.kind \in {"received_by", "stage_transitioned_to"} /\ x.end = n.id
                       /\ x.source = Root \/ \E a \in LatestStage(o.s, o.t) : x.source = a.id
    <3>1. CASE o.s = None
      BY <3>1 DEF Edge
    <3>2. CASE o.s # None
      <4>1. new = Edges(IdsOf(LatestStage(o.s, o.t)), "stage_transitioned_to", n.id, o.t)
        BY <3>2
      <4> HIDE DEF n, new
      <4> QED BY <4>1, EdgesFacts
    <3> QED BY <3>1, <3>2
  <2> HIDE DEF n, new
  <2>4. IdsOf(nodes') = IdsOf(nodes) \cup {n.id}
    BY <1>0, <2>1, AddNodeFacts DEF GraphTyped
  <2>5. \A a \in LatestStage(o.s, o.t) : a.id \in IdsOf(nodes)
    BY <1>0, <1>3, StageFacts
  <2>6. \A x \in new : /\ x.source \in IdsOf(nodes') /\ x.end \in IdsOf(nodes')
                       /\ x.kind \notin {"published_status", "retried_as"}
                       /\ x.kind = "dead_lettered_to" => x.t \in 0..MaxTime
    BY <1>0, <2>3, <2>4, <2>5
  <2>7. n.id[1] \notin {"attempt", "stage", "status", "retry"}
    BY <2>2
  <2> QED BY <1>1, <1>4, <1>5, <2>1, <2>6, <2>7, PlainObservation
<1> QED BY <1>6, <1>7

(* So does a stage entered, which is numbered past those of its stage.     *)
LEMMA EnteredKeeps ==
    ASSUME GraphAssumption, GraphInv, NEW t \in Times, NEW o \in Observation(t), o.type = "entered", ReadObservation(o)
    PROVE  GraphInv'
<1>0. GraphTyped /\ GraphPlaced /\ Counted /\ KnownSound
  BY DEF GraphInv
<1>1. ObservationRead(o)
  BY ObservationFacts DEF ReadObservation
<1>2. AddEntered(o)
  BY DEF ReadObservation, AddObservation
<1>3. workflow /\ o.t \in Nat /\ o.s \in Stages /\ o.t \in 1..MaxTime
  BY <1>0, ObservationTyped DEF GraphTyped
<1>4. ~Known'
  <2>1. SUFFICES ASSUME Known' PROVE FALSE
    OBVIOUS
  <2>2. evidence # <<>>
    BY <1>1, <2>1 DEF ObservationRead
  <2>3. InTime
    BY <1>1, <2>1, <2>2 DEF ObservationRead
  <2> QED BY <1>3, <2>3 DEF InTime
<1> DEFINE m == Node(<<"message", o.m>>, o.t, None)
           k == 1 + Cardinality(OfStage(o.s))
           n == Node(<<"stage", o.s, k>>, o.t, o.s)
           mid == IF o.m = None THEN nodes ELSE AddNode(nodes, m)
           new == IF o.m = None THEN {}
                  ELSE (IF m.id \in IdsOf(nodes) THEN {} ELSE {Edge(Root, "received_by", m.id, o.t)})
                       \cup {Edge(m.id, "entered_stage", n.id, o.t)}
<1>5. /\ nodes' = AddNode(mid, n) /\ edges' = edges \cup new /\ stages' = Append(stages, n)
      /\ UNCHANGED <<attempts, retryLinks>>
  BY <1>2 DEF AddEntered, OfStage
<1>6. /\ m.id[1] = "message" /\ n.id[1] = "stage" /\ n.a = o.s /\ n.id = <<"stage", o.s, k>>
      /\ \A x \in new : /\ o.m # None /\ x.kind \in {"received_by", "entered_stage"}
                        /\ x.source \in {Root, m.id} /\ x.end \in {m.id, n.id}
  BY DEF Node, Edge
<1>7. stages \in Seq(StageNode) /\ Len(stages) \in Nat /\ DOMAIN stages = 1..Len(stages)
  BY <1>0 DEF GraphTyped
<1>8. ASSUME NEW s PROVE IsFiniteSet(OfStage(s)) /\ Cardinality(OfStage(s)) \in Nat /\ OfStage(s) \subseteq 1..Len(stages)
  <2>1. OfStage(s) \subseteq 1..Len(stages)
    BY <1>7 DEF OfStage
  <2>2. IsFiniteSet(1..Len(stages))
    BY <1>7, FS_Interval
  <2>3. IsFiniteSet(OfStage(s))
    BY <2>1, <2>2, FS_Subset
  <2> QED BY <2>1, <2>3, FS_CardinalityType
<1>9. n \in StageNode
  BY <1>3, <1>8 DEF StageNode, Node
<1> HIDE DEF n, k, m
<1>9a. k = 1 + Cardinality(OfStage(o.s))
  BY DEF k
<1>10. /\ IsFiniteSet(mid) /\ Apart(mid) /\ nodes \subseteq mid /\ IdsOf(nodes) \subseteq IdsOf(mid)
       /\ o.m # None => m.id \in IdsOf(mid)
       /\ \A x \in mid : x \in nodes \/ x = m
  <2>1. CASE o.m = None
    BY <1>0, <2>1 DEF GraphTyped
  <2>2. CASE o.m # None
    <3>1. mid = AddNode(nodes, m)
      BY <2>2
    <3> HIDE DEF mid
    <3> QED BY <1>0, <3>1, AddNodeFacts DEF GraphTyped
  <2> QED BY <2>1, <2>2
<1>11. Cardinality(OfKind(mid, "attempt")) = CountOf("attempt") /\ Cardinality(OfKind(mid, "stage")) = CountOf("stage")
       /\ Cardinality(OfKind(mid, "status")) = CountOf("status")
  <2>1. OfKind(mid, "attempt") = OfKind(nodes, "attempt") /\ OfKind(mid, "stage") = OfKind(nodes, "stage")
        /\ OfKind(mid, "status") = OfKind(nodes, "status")
    <3> HIDE DEF mid
    <3> QED BY <1>6, <1>10 DEF OfKind
  <2> QED BY <2>1 DEF CountOf, OfKind
<1> HIDE DEF mid, new
<1>12. n.id \notin IdsOf(mid)
  <2>1. SUFFICES ASSUME NEW x \in mid, x.id = n.id PROVE FALSE
    BY DEF IdsOf
  <2>2. x \in nodes
    BY <1>6, <1>10, <2>1
  <2>3. PICK s \in Stages, j \in Nat : x.id = <<"stage", s, j>> /\ j <= Cardinality(OfStage(s))
    BY <1>0, <1>6, <2>1, <2>2 DEF GraphPlaced, StagesPlaced
  <2>4. s = o.s /\ j = k
    BY <1>6, <2>1, <2>3
  <2> QED BY <1>8, <1>9a, <2>3, <2>4
<1>13. /\ IsFiniteSet(nodes') /\ Apart(nodes') /\ mid \subseteq nodes' /\ IdsOf(nodes') = IdsOf(mid) \cup {n.id}
       /\ \A x \in nodes' : x \in mid \/ x = n
       /\ n \in nodes'
  BY <1>5, <1>10, <1>12, AddNodeFacts
<1>14. /\ stages' \in Seq(StageNode) /\ Len(stages') = Len(stages) + 1 /\ stages'[Len(stages) + 1] = n
       /\ DOMAIN stages' = 1..(Len(stages) + 1)
       /\ \A i \in 1..Len(stages) : stages'[i] = stages[i]
  BY <1>5, <1>7, <1>9
<1>15. GraphTyped'
  BY <1>0, <1>1, <1>5, <1>13, <1>14 DEF GraphTyped, ObservationRead, Apart
<1>16. GraphPlaced'
  <2>1. (Root \in IdsOf(nodes) /\ Child \in IdsOf(nodes))'
    BY <1>0, <1>10, <1>13 DEF GraphPlaced, Root, Child
  <2>2. EdgesJoin'
    BY <1>0, <1>5, <1>6, <1>10, <1>13 DEF GraphPlaced, EdgesJoin
  <2>3. EdgesFit'
    BY <1>0, <1>1, <1>5, <1>6 DEF GraphPlaced, EdgesFit, ObservationRead
  <2>4. AttemptsPlaced'
    BY <1>0, <1>5, <1>6, <1>10, <1>13 DEF GraphPlaced, AttemptsPlaced, Root
  <2>5. StagesPlaced'
    <3>1. ASSUME NEW i \in 1..Len(stages') PROVE stages'[i] \in nodes'
      BY <1>0, <1>7, <1>10, <1>13, <1>14 DEF GraphPlaced, StagesPlaced
    <3>2. ASSUME NEW s PROVE IF s = o.s THEN Cardinality(OfStage(s)') = Cardinality(OfStage(s)) + 1 ELSE OfStage(s)' = OfStage(s)
      <4>1. CASE s = o.s
        <5>1. OfStage(s)' = OfStage(s) \cup {Len(stages) + 1}
          BY <1>6, <1>7, <1>14, <4>1 DEF OfStage
        <5>2. Len(stages) + 1 \notin OfStage(s)
          BY <1>7, <1>8
        <5> QED BY <1>8, <4>1, <5>1, <5>2, FS_AddElement
      <4>2. CASE s # o.s
        BY <1>6, <1>7, <1>14, <4>2 DEF OfStage
      <4> QED BY <4>1, <4>2
    <3>3. ASSUME NEW x \in nodes', x.id[1] = "stage"
          PROVE  \E s \in Stages, j \in Nat : x.id = <<"stage", s, j>> /\ j <= Cardinality(OfStage(s)')
      <4>1. CASE x = n
        BY <1>3, <1>6, <1>8, <1>9a, <3>2, <4>1
      <4>2. CASE x # n
        <5>1. x \in nodes
          BY <1>6, <1>10, <1>13, <3>3, <4>2
        <5>2. PICK s \in Stages, j \in Nat : x.id = <<"stage", s, j>> /\ j <= Cardinality(OfStage(s))
          BY <1>0, <3>3, <5>1 DEF GraphPlaced, StagesPlaced
        <5>3. j <= Cardinality(OfStage(s)')
          BY <1>8, <3>2, <5>2
        <5> QED BY <5>2, <5>3
      <4> QED BY <4>1, <4>2
    <3> QED BY <3>1, <3>3 DEF StagesPlaced
  <2>6. StatusesPlaced'
    BY <1>0, <1>1, <1>5, <1>6, <1>10, <1>13 DEF GraphPlaced, StatusesPlaced, Root, ObservationRead
  <2>7. LinksPlaced'
    BY <1>0, <1>5, <1>10, <1>13 DEF GraphPlaced, LinksPlaced
  <2> QED BY <2>1, <2>2, <2>3, <2>4, <2>5, <2>6, <2>7 DEF GraphPlaced
<1>17. Counted'
  <2>1. /\ Cardinality(OfKind(nodes', "stage")) = Cardinality(OfKind(mid, "stage")) + 1
        /\ Cardinality(OfKind(nodes', "attempt")) = Cardinality(OfKind(mid, "attempt"))
        /\ Cardinality(OfKind(nodes', "status")) = Cardinality(OfKind(mid, "status"))
    BY <1>5, <1>6, <1>10, <1>12, CountAdds
  <2>2. /\ CountOf("stage")' = CountOf("stage") + 1 /\ CountOf("attempt")' = CountOf("attempt")
        /\ CountOf("status")' = CountOf("status")
    BY <1>11, <2>1 DEF CountOf, OfKind
  <2>3. Observed({"received"})' = Observed({"received"}) /\ Observed({"entered"})' = Observed({"entered"}) + 1
    BY <1>0, <1>1, ObservedNat DEF ObservationRead
  <2> QED BY <1>0, <1>1, <2>2, <2>3 DEF Counted, ObservationRead
<1>18. KnownSound'
  BY <1>4 DEF KnownSound
<1> QED BY <1>1, <1>15, <1>16, <1>17, <1>18 DEF GraphInv, ObservationRead

(* So does an attempt, numbered past the others; a first one makes the     *)
(* start known.                                                            *)
LEMMA ReceivedKeeps ==
    ASSUME GraphAssumption, GraphInv, NEW t \in Times, NEW o \in Observation(t), o.type = "received", ReadObservation(o)
    PROVE  GraphInv'
<1>0. GraphTyped /\ GraphPlaced /\ Counted /\ KnownSound /\ Untouched
  BY DEF GraphInv
<1>1. ObservationRead(o)
  BY ObservationFacts DEF ReadObservation
<1>2. AddReceived(o)
  BY DEF ReadObservation, AddObservation
<1>3. ~workflow /\ o.t \in Nat /\ o.t \in 1..MaxTime /\ MaxTime \in Nat
  BY <1>0, ObservationTyped DEF GraphTyped
<1> DEFINE k == Len(attempts) + 1
           n == Node(<<"attempt", k>>, o.t, None)
           x == Edge(Root, "received_by", n.id, o.t)
           new == {x}
<1>4. /\ nodes' = AddNode(nodes, n) /\ edges' = edges \cup new /\ attempts' = Append(attempts, n)
      /\ UNCHANGED <<stages, retryLinks>>
  BY <1>2 DEF AddReceived
<1>5. /\ n.id[1] = "attempt" /\ n.id = <<"attempt", k>> /\ n.t = o.t
      /\ x.source = Root /\ x.end = n.id /\ x.kind = "received_by"
  BY DEF Node, Edge
<1>6. attempts \in Seq(AttemptNode) /\ Len(attempts) \in Nat /\ DOMAIN attempts = 1..Len(attempts) /\ k = Len(attempts) + 1
  BY <1>0 DEF GraphTyped
<1>7. n \in AttemptNode
  <2>1. k \in Nat
    BY <1>6
  <2> QED BY <1>3, <2>1 DEF AttemptNode, Node
<1>7a. x \in new /\ \A y \in new : y = x
  OBVIOUS
<1> HIDE DEF n, k, x, new
<1>8. n.id \notin IdsOf(nodes)
  <2>1. SUFFICES ASSUME NEW m \in nodes, m.id = n.id PROVE FALSE
    BY DEF IdsOf
  <2>2. PICK i \in 1..Len(attempts) : m = attempts[i]
    BY <1>0, <1>5, <2>1 DEF GraphPlaced, AttemptsPlaced
  <2>3. m.id = <<"attempt", i>>
    BY <1>0, <2>2 DEF GraphPlaced, AttemptsPlaced
  <2>4. i = k
    BY <1>5, <2>1, <2>3
  <2> QED BY <1>6, <2>2, <2>4
<1>9. /\ IsFiniteSet(nodes') /\ Apart(nodes') /\ nodes \subseteq nodes' /\ IdsOf(nodes') = IdsOf(nodes) \cup {n.id}
      /\ \A m \in nodes' : m \in nodes \/ m = n
      /\ n \in nodes'
  BY <1>0, <1>4, <1>8, AddNodeFacts DEF GraphTyped
<1>10. /\ attempts' \in Seq(AttemptNode) /\ Len(attempts') = k /\ attempts'[k] = n
       /\ \A i \in 1..Len(attempts) : attempts'[i] = attempts[i]
       /\ \A i \in 1..k : i = k \/ i \in 1..Len(attempts)
       /\ k \in 1..k /\ 1..Len(attempts) \subseteq 1..k
  BY <1>4, <1>6, <1>7
<1>11. GraphTyped'
  BY <1>0, <1>1, <1>4, <1>9, <1>10 DEF GraphTyped, ObservationRead, Apart
<1>12. GraphPlaced'
  <2>1. (Root \in IdsOf(nodes) /\ Child \in IdsOf(nodes))'
    BY <1>0, <1>9 DEF GraphPlaced, Root, Child
  <2>2. EdgesJoin'
    BY <1>0, <1>4, <1>5, <1>7a, <1>9 DEF GraphPlaced, EdgesJoin
  <2>3. EdgesFit'
    BY <1>0, <1>1, <1>4, <1>5, <1>7a DEF GraphPlaced, EdgesFit, ObservationRead
  <2>4. AttemptsPlaced'
    <3>1. ASSUME NEW i \in 1..k
          PROVE  /\ attempts'[i] \in nodes' /\ attempts'[i].id = <<"attempt", i>>
                 /\ \E y \in edges' : y.source = Root /\ y.end = attempts'[i].id
      <4>1. CASE i = k
        BY <1>4, <1>5, <1>7a, <1>9, <1>10, <4>1
      <4>2. CASE i # k
        BY <1>0, <1>4, <1>9, <1>10, <4>2 DEF GraphPlaced, AttemptsPlaced
      <4> QED BY <4>1, <4>2
    <3>2. ASSUME NEW m \in nodes', m.id[1] = "attempt" PROVE \E i \in 1..k : m = attempts'[i]
      <4>1. CASE m = n
        BY <1>10, <4>1
      <4>2. CASE m # n
        BY <1>0, <1>9, <1>10, <3>2, <4>2 DEF GraphPlaced, AttemptsPlaced
      <4> QED BY <4>1, <4>2
    <3> QED BY <1>10, <3>1, <3>2 DEF AttemptsPlaced, Root
  <2>5. StagesPlaced'
    <3>1. stages' = stages /\ \A s : OfStage(s)' = OfStage(s)
      BY <1>4 DEF OfStage
    <3>2. \A m \in nodes' : m.id[1] = "stage" => m \in nodes
      BY <1>5, <1>9
    <3>3. StagesPlaced /\ nodes \subseteq nodes'
      BY <1>0, <1>9 DEF GraphPlaced
    <3> QED BY <3>1, <3>2, <3>3 DEF StagesPlaced
  <2>6. StatusesPlaced'
    <3>1. ASSUME NEW m \in nodes', m.id[1] = "status"
          PROVE  /\ \E i \in 1..Len(statuses') : m.id = <<"status", i>>
                 /\ ~workflow' => \E y \in edges' : y.end = m.id /\ (y.source = Root \/ \E i \in 1..k : y.source = attempts'[i].id)
      <4>1. m \in nodes
        BY <1>5, <1>9, <3>1
      <4>2. PICK y \in edges : y.end = m.id /\ (y.source = Root \/ \E i \in 1..Len(attempts) : y.source = attempts[i].id)
        BY <1>0, <1>3, <3>1, <4>1 DEF GraphPlaced, StatusesPlaced
      <4>3. y \in edges' /\ (y.source = Root \/ \E i \in 1..k : y.source = attempts'[i].id)
        BY <1>4, <1>10, <4>2
      <4>4. \E i \in 1..Len(statuses') : m.id = <<"status", i>>
        BY <1>0, <1>1, <3>1, <4>1 DEF GraphPlaced, StatusesPlaced, ObservationRead
      <4> QED BY <4>2, <4>3, <4>4
    <3> QED BY <1>10, <3>1 DEF StatusesPlaced, Root
  <2>7. LinksPlaced'
    BY <1>0, <1>4, <1>9 DEF GraphPlaced, LinksPlaced
  <2> QED BY <2>1, <2>2, <2>3, <2>4, <2>5, <2>6, <2>7 DEF GraphPlaced
<1>13. Counted'
  <2>1. CountOf("attempt")' = CountOf("attempt") + 1
    BY <1>0, <1>4, <1>5, <1>8, NewCounted
  <2>2. CountOf("stage")' = CountOf("stage") /\ CountOf("status")' = CountOf("status")
    BY <1>0, <1>4, <1>5, PlainCounted
  <2>3. Observed({"received"})' = Observed({"received"}) + 1 /\ Observed({"entered"})' = Observed({"entered"})
    BY <1>0, <1>1, ObservedNat DEF ObservationRead
  <2> QED BY <1>0, <1>1, <2>1, <2>2, <2>3 DEF Counted, ObservationRead
<1>14. ASSUME NEW r \in nodes, r.id = Root PROVE Rank(r) < Rank(n) /\ Rises(x, nodes')
  <2>1. r.id[1] = "task"
    BY <1>14 DEF Root
  <2>2. Rank(r) = 1 /\ Rank(n) = 2 * o.t
    BY <1>5, <2>1 DEF Rank
  <2> QED BY <1>3, <1>5, <1>9, <1>14, <2>2 DEF Rises
<1>15. Rises(x, nodes')
  <2>1. PICK r \in nodes : r.id = Root
    BY <1>0 DEF GraphPlaced, IdsOf
  <2> QED BY <1>14, <2>1
<1>16. CASE evidence # <<>>
  <2>1. SUFFICES ASSUME Known' PROVE InTime' /\ RetriesCounted' /\ RetriesPlaced' /\ AllRise'
    BY <1>1, <1>11, <1>12, <1>13 DEF GraphInv, KnownSound, ObservationRead
  <2>2. /\ InTime /\ RetriesCounted /\ RetriesPlaced /\ AllRise /\ evidence'[1] = evidence[1] /\ clock' >= evidence[1].t
    BY <1>1, <1>16, <2>1 DEF ObservationRead
  <2>3. \A y \in new : y.kind # "retried_as" /\ Rises(y, nodes')
    BY <1>5, <1>7a, <1>15
  <2>4. n.id[1] # "retry"
    BY <1>5
  <2>5. /\ CountOf("retry")' = CountOf("retry") /\ Retried' = Retried
        /\ IsFiniteSet(Retried') /\ RetriesPlaced' /\ AllRise'
    BY <1>0, <1>4, <2>2, <2>3, <2>4, PlainRises
  <2>6. Observed({"retry"})' = Observed({"retry"})
    BY <1>0, <1>1, ObservedNat DEF ObservationRead
  <2>7. RetriesCounted'
    BY <2>2, <2>5, <2>6 DEF RetriesCounted
  <2>8. Len(attempts) >= 1 /\ 1 \in 1..Len(attempts) /\ attempts'[1] = attempts[1] /\ Len(attempts') >= 1
    BY <1>6, <1>10, <2>2 DEF InTime
  <2>9. InTime'
    BY <1>1, <2>2, <2>8 DEF InTime, ObservationRead
  <2> QED BY <2>5, <2>7, <2>9
<1>17. CASE evidence = <<>>
  <2>1. SUFFICES ASSUME Known' PROVE InTime' /\ RetriesCounted' /\ RetriesPlaced' /\ AllRise'
    BY <1>1, <1>11, <1>12, <1>13 DEF GraphInv, KnownSound, ObservationRead
  <2>2. evidence'[1].t = o.t
    BY <1>1, <1>17, <2>1 DEF ObservationRead
  <2>3. /\ nodes = {Node(Root, 0, None), Node(Child, 0, None)} /\ edges = {Edge(Child, "aggregated_into", Root, 0)}
        /\ attempts = <<>> /\ retryLinks = {}
    BY <1>0, <1>1, <1>17 DEF Untouched, ObservationRead
  <2>4. InTime'
    <3>1. k = 1 /\ attempts'[1].t = o.t /\ Len(attempts') = 1
      BY <1>5, <1>6, <1>10, <2>3
    <3>2. clock' = o.t
      BY DEF ReadObservation
    <3> QED BY <1>1, <1>3, <2>2, <3>1, <3>2 DEF InTime, ObservationRead
  <2>5. \A m \in nodes' : m.id[1] # "retry"
    BY <1>5, <1>9, <2>3 DEF Node, Root, Child
  <2>6. Retried' = {}
    <3>1. \A y \in edges' : y.kind # "retried_as"
      BY <1>4, <1>5, <1>7a, <2>3 DEF Edge
    <3> QED BY <3>1 DEF Retried
  <2>7. RetriesCounted'
    <3>1. {m \in nodes' : m.id[1] = "retry"} = {}
      BY <2>5
    <3>2. CountOf("retry")' = 0 /\ Cardinality(Retried') = 0 /\ IsFiniteSet(Retried')
      BY <2>6, <3>1, FS_EmptySet DEF CountOf
    <3>3. Observed({"retry"}) = 0
      <4>1. {i \in DOMAIN evidence : evidence[i].type \in {"retry"}} = {}
        BY <1>17
      <4> QED BY <4>1, FS_EmptySet DEF Observed
    <3>4. Observed({"retry"})' = 0
      BY <1>1, <3>3 DEF ObservationRead
    <3> QED BY <3>2, <3>4 DEF RetriesCounted
  <2>8. RetriesPlaced'
    BY <1>4, <2>3, <2>5 DEF RetriesPlaced
  <2>9. AllRise'
    <3>1. ASSUME NEW y \in edges' PROVE Rises(y, nodes')
      <4>1. CASE y \in new
        BY <1>7a, <1>15, <4>1
      <4>2. CASE y = Edge(Child, "aggregated_into", Root, 0)
        <5>1. Node(Child, 0, None) \in nodes' /\ Node(Root, 0, None) \in nodes'
          BY <1>9, <2>3
        <5>2. Rank(Node(Child, 0, None)) = 0 /\ Rank(Node(Root, 0, None)) = 1
          BY DEF Rank, Node, Child, Root
        <5>3. y.source = Child /\ y.end = Root /\ Node(Child, 0, None).id = Child /\ Node(Root, 0, None).id = Root
          BY <4>2 DEF Edge, Node
        <5> QED BY <5>1, <5>2, <5>3 DEF Rises
      <4> QED BY <1>4, <2>3, <4>1, <4>2
    <3> QED BY <3>1 DEF AllRise, Rises, Rank
  <2> QED BY <2>4, <2>7, <2>8, <2>9
<1> QED BY <1>16, <1>17

(* So does a retry: with the start known there is exactly one attempt it   *)
(* leads from.                                                             *)
LEMMA RetryKeeps ==
    ASSUME GraphAssumption, GraphInv, NEW t \in Times, NEW o \in Observation(t), o.type = "retry", ReadObservation(o)
    PROVE  GraphInv'
<1>0. GraphTyped /\ GraphPlaced /\ Counted /\ KnownSound /\ AttemptsPlaced
  BY DEF GraphInv, GraphPlaced
<1>1. ObservationRead(o)
  BY ObservationFacts DEF ReadObservation
<1>2. AddRetry(o)
  BY DEF ReadObservation, AddObservation
<1>3. o.t \in Nat /\ o.t \in 1..MaxTime /\ MaxTime \in Nat /\ o.t >= clock
  BY <1>0, ObservationTyped DEF GraphTyped
<1> DEFINE k == 1 + Cardinality(Retried)
           n == Node(<<"retry", k>>, o.t, None)
           new == Edges(IdsOf(LatestAttempt(o.t)), "retried_as", n.id, o.t)
<1>4. /\ nodes' = AddNode(nodes, n) /\ edges' = edges \cup new /\ retryLinks' = retryLinks \cup {n}
      /\ UNCHANGED <<attempts, stages>>
  BY <1>2 DEF AddRetry, Retried
<1>5. n.id[1] = "retry" /\ n.id = <<"retry", k>> /\ n.t = o.t
  BY DEF Node
<1>6. \A x \in new : \E a \in LatestAttempt(o.t) : x.source = a.id /\ x.kind = "retried_as" /\ x.end = n.id /\ x.t = o.t
  <2>1. new = Edges(IdsOf(LatestAttempt(o.t)), "retried_as", n.id, o.t)
    OBVIOUS
  <2> HIDE DEF n, new
  <2> QED BY <2>1, EdgesFacts
<1>6a. \A a \in LatestAttempt(o.t) : Edge(a.id, "retried_as", n.id, o.t) \in new
  BY DEF Edges, IdsOf
<1>6b. k = 1 + Cardinality(Retried)
  OBVIOUS
<1> HIDE DEF n, k, new
<1>7. /\ IsFiniteSet(nodes') /\ Apart(nodes') /\ nodes \subseteq nodes' /\ IdsOf(nodes') = IdsOf(nodes) \cup {n.id}
      /\ \A m \in nodes' : m \in nodes \/ m = n
      /\ n.id \notin IdsOf(nodes) => n \in nodes'
  BY <1>0, <1>4, AddNodeFacts DEF GraphTyped
<1>8. \A a \in LatestAttempt(o.t) : a \in nodes /\ a.id \in IdsOf(nodes) /\ a.id[1] = "attempt" /\ a.t \in 1..MaxTime
  BY <1>0, <1>3, LatestFacts
<1>9. GraphTyped'
  BY <1>0, <1>1, <1>4, <1>7 DEF GraphTyped, ObservationRead, Apart
<1>10. GraphPlaced'
  <2>1. \A x \in new : /\ x.source \in IdsOf(nodes') /\ x.end \in IdsOf(nodes') /\ x.kind # "published_status"
                       /\ x.kind = "dead_lettered_to" => x.t \in 0..MaxTime
    BY <1>6, <1>7, <1>8
  <2>2. n.id[1] \notin {"attempt", "stage", "status"}
    BY <1>5
  <2>3. UNCHANGED <<attempts, stages, statuses, workflow>> /\ \A m \in retryLinks' : m \in retryLinks \/ m = n
    BY <1>1, <1>4 DEF ObservationRead
  <2> QED BY <1>0, <1>4, <2>1, <2>2, <2>3, PlainPlaced
<1>11. Counted'
  <2>1. /\ CountOf("attempt")' = CountOf("attempt") /\ CountOf("stage")' = CountOf("stage")
        /\ CountOf("status")' = CountOf("status")
    BY <1>0, <1>4, <1>5, PlainCounted
  <2>2. Observed({"received"})' = Observed({"received"}) /\ Observed({"entered"})' = Observed({"entered"})
    BY <1>0, <1>1, ObservedNat DEF ObservationRead
  <2> QED BY <1>0, <1>1, <2>1, <2>2 DEF Counted, ObservationRead
<1>12. KnownSound'
  <2>1. SUFFICES ASSUME Known' PROVE InTime' /\ RetriesCounted' /\ RetriesPlaced' /\ AllRise'
    BY DEF KnownSound
  <2>2. evidence # <<>>
    BY <1>1, <2>1 DEF ObservationRead
  <2>3. /\ InTime /\ RetriesCounted /\ RetriesPlaced /\ AllRise /\ evidence'[1] = evidence[1] /\ clock' >= evidence[1].t
    BY <1>1, <2>1, <2>2 DEF ObservationRead
  <2>4. clock' = o.t
    BY DEF ReadObservation
  <2>5. InTime'
    BY <1>1, <1>4, <2>3 DEF InTime, ObservationRead
  <2>6. Cardinality(Retried) \in Nat /\ k \in Nat
    BY <1>6b, <2>3, FS_CardinalityType DEF RetriesCounted
  <2>7. n.id \notin IdsOf(nodes)
    <3>1. SUFFICES ASSUME NEW m \in nodes, m.id = n.id PROVE FALSE
      BY DEF IdsOf
    <3>2. PICK i \in 1..Cardinality(Retried) : m.id = <<"retry", i>>
      BY <1>5, <2>3, <3>1 DEF RetriesPlaced, RetryPlaced
    <3>3. i = k
      BY <1>5, <3>1, <3>2
    <3> QED BY <1>6b, <2>6, <3>2, <3>3
  <2>8. /\ LatestAttempt(o.t) # {} /\ \A a, b \in LatestAttempt(o.t) : a = b
        /\ \A a \in LatestAttempt(o.t) : a.t <= o.t
    <3>1. Len(attempts) >= 1 /\ attempts[1].t <= o.t
      BY <2>3, <2>4 DEF InTime
    <3> QED BY <1>0, <1>3, <3>1, LatestFacts
  <2>9. PICK a \in LatestAttempt(o.t) : TRUE
    BY <2>8
  <2> DEFINE y == Edge(a.id, "retried_as", n.id, o.t)
  <2>10. y.source = a.id /\ y.kind = "retried_as" /\ y.end = n.id
    BY DEF Edge
  <2>11. new = {y}
    <3>1. new = {Edge(id, "retried_as", n.id, o.t) : id \in IdsOf(LatestAttempt(o.t))}
      BY DEF new, Edges
    <3>2. IdsOf(LatestAttempt(o.t)) = {a.id}
      BY <2>8, <2>9 DEF IdsOf
    <3> QED BY <3>1, <3>2
  <2> HIDE DEF y
  <2>12. Retried' = Retried \cup {y} /\ y \notin Retried
    <3>1. y \notin edges
      BY <1>0, <2>7, <2>10 DEF GraphPlaced, EdgesJoin
    <3> QED BY <1>4, <2>10, <2>11, <3>1 DEF Retried
  <2>13. IsFiniteSet(Retried') /\ Cardinality(Retried') = Cardinality(Retried) + 1
    BY <2>3, <2>12, FS_AddElement DEF RetriesCounted
  <2>14. CountOf("retry")' = CountOf("retry") + 1
    BY <1>0, <1>4, <1>5, <2>7, NewCounted
  <2>15. Observed({"retry"})' = Observed({"retry"}) + 1
    BY <1>0, <1>1 DEF ObservationRead
  <2>16. RetriesCounted'
    BY <2>3, <2>13, <2>14, <2>15 DEF RetriesCounted
  <2>17. RetriesPlaced'
    <3>1. ASSUME NEW m \in nodes', m.id[1] = "retry" PROVE RetryPlaced(m, Cardinality(Retried'))
      <4>1. CASE m = n
        BY <1>3, <1>5, <1>6b, <2>6, <2>13, <4>1 DEF RetryPlaced
      <4>2. CASE m # n
        <5>1. RetryPlaced(m, Cardinality(Retried))
          BY <1>7, <2>3, <3>1, <4>2 DEF RetriesPlaced
        <5> QED BY <2>6, <2>13, <5>1 DEF RetryPlaced
      <4> QED BY <4>1, <4>2
    <3>2. ASSUME NEW m \in retryLinks' PROVE m \in nodes' /\ m.id[1] = "retry"
      BY <1>4, <1>5, <1>7, <2>3, <2>7 DEF RetriesPlaced
    <3> QED BY <3>1, <3>2 DEF RetriesPlaced, RetryPlaced
  <2>18. AllRise'
    <3>1. n \in nodes' /\ a \in nodes'
      BY <1>7, <1>8, <2>7, <2>9
    <3>2. Rank(a) = 2 * a.t /\ Rank(n) = 2 * o.t + 1
      BY <1>5, <1>8, <2>9 DEF Rank
    <3>3. Rank(a) < Rank(n)
      <4>1. a.t \in Nat /\ a.t <= o.t
        BY <1>8, <2>8, <2>9
      <4> QED BY <1>3, <3>2, <4>1
    <3>4. Rises(y, nodes')
      BY <2>10, <3>1, <3>3 DEF Rises
    <3>5. \A x \in edges : Rises(x, nodes')
      BY <1>7, <2>3 DEF AllRise, Rises, Rank
    <3>6. \A x \in edges' : Rises(x, nodes')
      BY <1>4, <2>11, <3>4, <3>5
    <3> QED BY <3>6 DEF AllRise, Rises, Rank
  <2> QED BY <2>5, <2>16, <2>17, <2>18
<1> QED BY <1>1, <1>9, <1>10, <1>11, <1>12 DEF GraphInv, ObservationRead

(* Edges from the nodes, or from the task.                                 *)
LEMMA OrRootFacts ==
    ASSUME NEW A, NEW kind, NEW end, NEW t
    PROVE  /\ \A x \in Edges(OrRoot(A), kind, end, t) :
                /\ x.kind = kind /\ x.end = end /\ x.t = t
                /\ (A = {} /\ x.source = Root) \/ \E a \in A : x.source = a.id
           /\ Edges(OrRoot(A), kind, end, t) # {}
<1>1. CASE A = {}
  <2>1. Edges(OrRoot(A), kind, end, t) = {Edge(Root, kind, end, t)}
    BY <1>1 DEF OrRoot, Edges
  <2> DEFINE x == Edge(Root, kind, end, t)
  <2>2. x.source = Root /\ x.kind = kind /\ x.end = end /\ x.t = t
    BY DEF Edge
  <2> HIDE DEF x
  <2>3. Edges(OrRoot(A), kind, end, t) = {x}
    BY <2>1 DEF x
  <2> QED BY <1>1, <2>2, <2>3
<1>2. CASE A # {}
  <2>1. OrRoot(A) = IdsOf(A)
    BY <1>2 DEF OrRoot
  <2>2. PICK a \in A : TRUE
    BY <1>2
  <2>3. Edge(a.id, kind, end, t) \in Edges(IdsOf(A), kind, end, t)
    BY DEF Edges, IdsOf
  <2> QED BY <2>1, <2>3, EdgesFacts
<1> QED BY <1>1, <1>2

(* So does a status: told by an attempt or the task, and a manual retry    *)
(* leads to a later attempt.                                               *)
LEMMA StatusKeeps ==
    ASSUME GraphAssumption, GraphInv, NEW t \in Times,
           NEW status \in {"processing", "manual_retrying", "completed", "failed"},
           ReadStatus([status |-> status, t |-> t])
    PROVE  GraphInv'
<1> DEFINE s == [status |-> status, t |-> t]
<1>0. GraphTyped /\ GraphPlaced /\ Counted /\ KnownSound /\ AttemptsPlaced /\ StagesPlaced
  BY DEF GraphInv, GraphPlaced
<1>1. t \in 1..MaxTime /\ t \in Nat /\ t >= clock /\ MaxTime \in Nat /\ clock \in Nat
  BY <1>0 DEF GraphAssumption, GraphTyped, Times
<1>2. /\ phase = "statuses" /\ AddStatus(Len(statuses) + 1, s) /\ statuses' = Append(statuses, s) /\ clock' = s.t
      /\ UNCHANGED <<workflow, phase, evidence>>
  BY DEF ReadStatus
<1>3. s \in StatusSet /\ s.t = t
  BY <1>1 DEF StatusSet
<1> HIDE DEF s
<1> DEFINE k == Len(statuses) + 1
           n == Node(<<"status", k>>, s.t, s.status)
           from == IF workflow THEN LatestStage(None, s.t) ELSE LatestAttempt(s.t)
           again == {Edge(a.id, "manual_retry_to", b.id, s.t) : a \in LatestAttempt(s.t), b \in NextAttempt(s.t)}
           told == Edges(OrRoot(from), "published_status", n.id, s.t)
           more == IF s.status = "manual_retrying" THEN again ELSE {}
           new == told \cup more
<1>4. nodes' = AddNode(nodes, n) /\ edges' = edges \cup new /\ UNCHANGED <<attempts, stages, retryLinks>>
  BY <1>2 DEF AddStatus
<1>5. n.id[1] = "status" /\ n.id = <<"status", k>> /\ n.id[2] = k
  BY DEF Node
<1>6. statuses \in Seq(StatusSet) /\ Len(statuses) \in Nat /\ k = Len(statuses) + 1
  BY <1>0 DEF GraphTyped
<1>7. /\ \A x \in told : /\ x.kind = "published_status" /\ x.end = n.id
                         /\ (from = {} /\ x.source = Root) \/ \E a \in from : x.source = a.id
      /\ told # {}
  <2> HIDE DEF n, from, k
  <2> QED BY OrRootFacts
<1>8. \A x \in more : \E a \in LatestAttempt(t), b \in NextAttempt(t) :
        x.source = a.id /\ x.end = b.id /\ x.kind = "manual_retry_to"
  BY <1>3 DEF Edge
<1>9. \A a \in from : IF workflow THEN a \in nodes /\ a.id \in IdsOf(nodes) ELSE a \in LatestAttempt(t)
  <2>1. \A a \in LatestStage(None, s.t) : a \in nodes /\ a.id \in IdsOf(nodes)
    BY <1>0, StageFacts
  <2> QED BY <1>3, <2>1
<1> HIDE DEF n, k, from, again, told, more
<1>10. \A x \in new : x \in told \/ x \in more
  OBVIOUS
<1>10a. told \subseteq new
  OBVIOUS
<1> HIDE DEF new
<1>11. /\ \A a \in LatestAttempt(t) \cup NextAttempt(t) :
            /\ \E i \in 1..Len(attempts) : a = attempts[i]
            /\ a \in nodes /\ a.id \in IdsOf(nodes) /\ a.id[1] = "attempt" /\ a.t \in 1..MaxTime
       /\ Len(attempts) >= 1 /\ attempts[1].t <= t => \A a \in LatestAttempt(t) : a.t <= t
       /\ \A a \in NextAttempt(t) : a.t > t
  BY <1>0, <1>1, LatestFacts
<1>12. n.id \notin IdsOf(nodes)
  <2>1. SUFFICES ASSUME NEW m \in nodes, m.id = n.id PROVE FALSE
    BY DEF IdsOf
  <2>2. PICK i \in 1..Len(statuses) : m.id = <<"status", i>>
    BY <1>0, <1>5, <2>1 DEF GraphPlaced, StatusesPlaced
  <2>3. i = k
    BY <1>5, <2>1, <2>2
  <2> QED BY <1>6, <2>2, <2>3
<1>13. /\ IsFiniteSet(nodes') /\ Apart(nodes') /\ nodes \subseteq nodes' /\ IdsOf(nodes') = IdsOf(nodes) \cup {n.id}
       /\ \A m \in nodes' : m \in nodes \/ m = n
       /\ n \in nodes'
  BY <1>0, <1>4, <1>12, AddNodeFacts DEF GraphTyped
<1>14. /\ statuses' \in Seq(StatusSet) /\ Len(statuses') = k /\ statuses' # <<>>
       /\ \A i \in 1..Len(statuses) : statuses'[i] = statuses[i]
       /\ statuses = <<>> => statuses'[1] = s
       /\ 1..Len(statuses) \subseteq 1..k /\ k \in 1..k
       /\ statuses # <<>> => statuses'[1] = statuses[1]
  BY <1>2, <1>3, <1>6
<1>15. GraphTyped'
  BY <1>0, <1>1, <1>2, <1>3, <1>4, <1>13, <1>14 DEF GraphTyped, Apart
<1>16. ASSUME NEW x \in new
       PROVE  /\ x.source \in IdsOf(nodes') /\ x.end \in IdsOf(nodes') /\ x.kind \in {"published_status", "manual_retry_to"}
              /\ x.kind = "published_status" => x.end = n.id
  <2>1. CASE x \in told
    <3>1. Root \in IdsOf(nodes)
      BY <1>0 DEF GraphPlaced
    <3>2. x.source \in IdsOf(nodes)
      BY <1>7, <1>9, <1>11, <2>1, <3>1
    <3> QED BY <1>7, <1>13, <2>1, <3>2
  <2>2. CASE x \in more
    BY <1>8, <1>11, <1>13, <2>2
  <2> QED BY <1>10, <2>1, <2>2
<1>17. GraphPlaced'
  <2>1. (Root \in IdsOf(nodes) /\ Child \in IdsOf(nodes))'
    BY <1>0, <1>13 DEF GraphPlaced, Root, Child
  <2>2. EdgesJoin'
    BY <1>0, <1>4, <1>13, <1>16 DEF GraphPlaced, EdgesJoin
  <2>3. EdgesFit'
    <3>1. ASSUME NEW x \in edges', x.kind = "published_status" PROVE x.end[2] \in 1..k
      BY <1>0, <1>4, <1>5, <1>14, <1>16, <3>1 DEF GraphPlaced, EdgesFit
    <3>2. ASSUME NEW x \in edges', x.kind = "dead_lettered_to" PROVE x.t \in 0..MaxTime
      BY <1>0, <1>4, <1>16, <3>2 DEF GraphPlaced, EdgesFit
    <3> QED BY <1>14, <3>1, <3>2 DEF EdgesFit
  <2>4. AttemptsPlaced'
    BY <1>0, <1>4, <1>5, <1>13 DEF AttemptsPlaced, Root
  <2>5. StagesPlaced'
    <3>1. stages' = stages /\ \A z : OfStage(z)' = OfStage(z)
      BY <1>4 DEF OfStage
    <3>2. \A m \in nodes' : m.id[1] = "stage" => m \in nodes
      BY <1>5, <1>13
    <3> QED BY <1>0, <1>13, <3>1, <3>2 DEF StagesPlaced
  <2>6. StatusesPlaced'
    <3>1. ASSUME NEW m \in nodes', m.id[1] = "status"
          PROVE  /\ \E i \in 1..k : m.id = <<"status", i>>
                 /\ ~workflow => \E x \in edges' : x.end = m.id /\ (x.source = Root \/ \E i \in 1..Len(attempts) : x.source = attempts[i].id)
      <4>1. CASE m = n
        <5>1. PICK x \in told : TRUE
          BY <1>7
        <5>2. x.end = n.id /\ x \in edges'
          BY <1>4, <1>7, <1>10a, <5>1
        <5>3. ~workflow => (x.source = Root \/ \E i \in 1..Len(attempts) : x.source = attempts[i].id)
          BY <1>7, <1>9, <1>11, <5>1
        <5> QED BY <1>5, <1>14, <4>1, <5>2, <5>3
      <4>2. CASE m # n
        <5>1. m \in nodes
          BY <1>13, <4>2
        <5>2. \E i \in 1..Len(statuses) : m.id = <<"status", i>>
          BY <1>0, <3>1, <5>1 DEF GraphPlaced, StatusesPlaced
        <5>3. ~workflow => \E x \in edges : x.end = m.id /\ (x.source = Root \/ \E i \in 1..Len(attempts) : x.source = attempts[i].id)
          BY <1>0, <3>1, <5>1 DEF GraphPlaced, StatusesPlaced
        <5> QED BY <1>4, <1>14, <5>2, <5>3
      <4> QED BY <4>1, <4>2
    <3>2. workflow' = workflow /\ attempts' = attempts /\ Len(statuses') = k
      BY <1>2, <1>4, <1>14
    <3>3. ASSUME NEW m \in nodes', m.id[1] = "status"
          PROVE  /\ \E i \in 1..Len(statuses') : m.id = <<"status", i>>
                 /\ ~workflow' => \E x \in edges' : x.end = m.id /\ (x.source = Root \/ \E i \in 1..Len(attempts') : x.source = attempts'[i].id)
      BY <3>1, <3>2, <3>3
    <3> QED BY <3>3 DEF StatusesPlaced, Root
  <2>7. LinksPlaced'
    BY <1>0, <1>4, <1>13 DEF GraphPlaced, LinksPlaced
  <2> QED BY <2>1, <2>2, <2>3, <2>4, <2>5, <2>6, <2>7 DEF GraphPlaced
<1>18. \A types : Observed(types)' = Observed(types)
  BY <1>2 DEF Observed
<1>19. Counted'
  <2>1. CountOf("status")' = CountOf("status") + 1
    BY <1>0, <1>4, <1>5, <1>12, NewCounted
  <2>2. CountOf("attempt")' = CountOf("attempt") /\ CountOf("stage")' = CountOf("stage")
    BY <1>0, <1>4, <1>5, PlainCounted
  <2> QED BY <1>0, <1>6, <1>14, <1>18, <2>1, <2>2 DEF Counted
<1>20. KnownSound'
  <2>1. SUFFICES ASSUME Known' PROVE InTime' /\ RetriesCounted' /\ RetriesPlaced' /\ AllRise'
    BY DEF KnownSound
  <2>2. Known /\ evidence'[1] = evidence[1] /\ evidence # <<>>
    BY <1>2, <1>14, <2>1 DEF Known
  <2>3. InTime /\ RetriesCounted /\ RetriesPlaced /\ AllRise
    BY <1>0, <2>2 DEF KnownSound
  <2>4. t >= evidence[1].t
    <3>1. CASE statuses = <<>>
      BY <1>2, <1>3, <1>14, <2>1, <3>1 DEF Known
    <3>2. CASE statuses # <<>>
      <4>1. clock >= evidence[1].t
        BY <1>2, <2>3, <3>2 DEF InTime
      <4>2. evidence[1] \in Evidence
        BY <1>0, <2>2 DEF GraphTyped
      <4>3. evidence[1].t \in Nat
        BY <4>2 DEF Evidence
      <4> QED BY <1>1, <4>1, <4>3
    <3> QED BY <3>1, <3>2
  <2>5. InTime'
    BY <1>2, <1>3, <1>4, <2>2, <2>3, <2>4 DEF InTime
  <2>6. \A a \in LatestAttempt(t) : a.t <= t
    BY <1>11, <2>3, <2>4 DEF InTime
  <2>7. ASSUME NEW x \in new PROVE x.kind # "retried_as" /\ Rises(x, nodes')
    <3>1. CASE x \in told
      <4>1. Rank(n) = 2 * MaxTime + 2
        BY <1>5 DEF Rank
      <4>2. \E m \in nodes : m.id = x.source /\ Rank(m) < Rank(n)
        <5>1. CASE x.source = Root
          <6>1. PICK m \in nodes : m.id = Root
            BY <1>0 DEF GraphPlaced, IdsOf
          <6>2. Rank(m) = 1
            BY <6>1 DEF Rank, Root
          <6> QED BY <1>1, <4>1, <5>1, <6>1, <6>2
        <5>2. CASE x.source # Root
          <6>1. PICK a \in LatestAttempt(t) : x.source = a.id
            BY <1>7, <1>9, <2>3, <3>1, <5>2 DEF InTime
          <6>2. a \in nodes /\ a.id[1] = "attempt" /\ a.t \in 1..MaxTime
            BY <1>11, <6>1
          <6>3. Rank(a) = 2 * a.t
            BY <6>2 DEF Rank
          <6> QED BY <1>1, <4>1, <6>1, <6>2, <6>3
        <5> QED BY <5>1, <5>2
      <4> QED BY <1>7, <1>13, <3>1, <4>2 DEF Rises
    <3>2. CASE x \in more
      <4>1. PICK a \in LatestAttempt(t), b \in NextAttempt(t) : x.source = a.id /\ x.end = b.id /\ x.kind = "manual_retry_to"
        BY <1>8, <3>2
      <4>2. /\ a \in nodes /\ a.id[1] = "attempt" /\ a.t \in 1..MaxTime
            /\ b \in nodes /\ b.id[1] = "attempt" /\ b.t \in 1..MaxTime
        BY <1>11, <4>1
      <4>3. Rank(a) = 2 * a.t /\ Rank(b) = 2 * b.t
        BY <4>2 DEF Rank
      <4>4. Rank(a) < Rank(b)
        BY <1>1, <1>11, <2>6, <4>1, <4>2, <4>3
      <4> QED BY <1>13, <4>1, <4>2, <4>4 DEF Rises
    <3> QED BY <1>10, <3>1, <3>2
  <2>8. n.id[1] # "retry"
    BY <1>5
  <2>9. /\ CountOf("retry")' = CountOf("retry") /\ Retried' = Retried
        /\ IsFiniteSet(Retried') /\ RetriesPlaced' /\ AllRise'
    BY <1>0, <1>4, <2>3, <2>7, <2>8, PlainRises
  <2>10. RetriesCounted'
    BY <1>18, <2>3, <2>9 DEF RetriesCounted
  <2> QED BY <2>5, <2>9, <2>10
<1>21. Untouched'
  BY <1>2 DEF Untouched
<1> QED BY <1>15, <1>17, <1>19, <1>20, <1>21 DEF GraphInv

(* So does a dead-letter record.                                           *)
LEMMA RecordKeeps ==
    ASSUME GraphAssumption, GraphInv, NEW t \in Times, NEW state, ReadRecord([state |-> state, t |-> t])
    PROVE  GraphInv'
<1> DEFINE r == [state |-> state, t |-> t]
<1>0. GraphTyped /\ GraphPlaced /\ Counted /\ KnownSound /\ AttemptsPlaced /\ Root \in IdsOf(nodes)
  BY DEF GraphInv, GraphPlaced
<1>1. t \in 1..MaxTime /\ t \in Nat /\ MaxTime \in Nat
  BY <1>0 DEF GraphAssumption, GraphTyped, Times
<1>2. phase = "records" /\ AddRecord(1, r) /\ UNCHANGED <<workflow, phase, evidence, statuses, clock>>
  BY DEF ReadRecord
<1> DEFINE n == Node(<<"record", 1>>, r.t, r.state)
           new == Edges(OrRoot(LatestAttempt(r.t)), "dead_lettered_to", n.id, r.t)
<1>3. nodes' = AddNode(nodes, n) /\ edges' = edges \cup new /\ UNCHANGED <<attempts, stages, retryLinks>>
  BY <1>2 DEF AddRecord
<1>4. n.id[1] = "record" /\ r.t = t
  BY DEF Node
<1>5. \A x \in new : /\ x.kind = "dead_lettered_to" /\ x.end = n.id /\ x.t = t
                     /\ x.source = Root \/ \E a \in LatestAttempt(t) : x.source = a.id
  <2> HIDE DEF n, r
  <2> QED BY <1>4, OrRootFacts
<1> HIDE DEF n, r, new
<1>6. /\ IsFiniteSet(nodes') /\ Apart(nodes') /\ nodes \subseteq nodes' /\ IdsOf(nodes') = IdsOf(nodes) \cup {n.id}
  BY <1>0, <1>3, AddNodeFacts DEF GraphTyped
<1>7. PICK m \in nodes' : m.id = n.id
  BY <1>6 DEF IdsOf
<1>8. ASSUME NEW x \in new
      PROVE  /\ x.source \in IdsOf(nodes') /\ x.end \in IdsOf(nodes')
             /\ x.kind \notin {"published_status", "retried_as"} /\ x.t \in 0..MaxTime
             /\ Rises(x, nodes')
  <2>1. PICK a \in nodes : a.id = x.source /\ Rank(a) < Rank(m)
    <3>1. Rank(m) = 2 * MaxTime + 2
      BY <1>4, <1>7 DEF Rank
    <3>2. CASE x.source = Root
      <4>1. PICK a \in nodes : a.id = Root
        BY <1>0 DEF IdsOf
      <4>2. Rank(a) = 1
        BY <4>1 DEF Rank, Root
      <4> QED BY <1>1, <3>1, <3>2, <4>1, <4>2
    <3>3. CASE x.source # Root
      <4>1. PICK a \in LatestAttempt(t) : x.source = a.id
        BY <1>5, <3>3
      <4>2. a \in nodes /\ a.id[1] = "attempt" /\ a.t \in 1..MaxTime
        BY <1>0, <1>1, <4>1, LatestFacts
      <4>3. Rank(a) = 2 * a.t
        BY <4>2 DEF Rank
      <4> QED BY <1>1, <3>1, <4>1, <4>2, <4>3
    <3> QED BY <3>2, <3>3
  <2>2. Rises(x, nodes')
    BY <1>5, <1>6, <1>7, <2>1 DEF Rises
  <2>3. x.source \in IdsOf(nodes)
    BY <2>1 DEF IdsOf
  <2> QED BY <1>1, <1>5, <1>6, <2>2, <2>3
<1>9. GraphTyped'
  BY <1>0, <1>2, <1>3, <1>6 DEF GraphTyped, Apart
<1>10. GraphPlaced'
  <2>1. n.id[1] \notin {"attempt", "stage", "status"}
    BY <1>4
  <2> QED BY <1>0, <1>2, <1>3, <1>8, <2>1, PlainPlaced
<1>11. \A types : Observed(types)' = Observed(types)
  BY <1>2 DEF Observed
<1>12. Counted'
  <2>1. /\ CountOf("attempt")' = CountOf("attempt") /\ CountOf("stage")' = CountOf("stage")
        /\ CountOf("status")' = CountOf("status")
    BY <1>0, <1>3, <1>4, PlainCounted
  <2> QED BY <1>0, <1>2, <1>11, <2>1 DEF Counted
<1>13. KnownSound'
  <2>1. SUFFICES ASSUME Known' PROVE InTime' /\ RetriesCounted' /\ RetriesPlaced' /\ AllRise'
    BY DEF KnownSound
  <2>2. Known
    BY <1>2, <2>1 DEF Known
  <2>3. InTime /\ RetriesCounted /\ RetriesPlaced /\ AllRise
    BY <1>0, <2>2 DEF KnownSound
  <2>4. InTime'
    BY <1>2, <1>3, <2>3 DEF InTime
  <2>5. n.id[1] # "retry"
    BY <1>4
  <2>6. /\ CountOf("retry")' = CountOf("retry") /\ Retried' = Retried
        /\ IsFiniteSet(Retried') /\ RetriesPlaced' /\ AllRise'
    BY <1>0, <1>3, <1>8, <2>3, <2>5, PlainRises
  <2>7. RetriesCounted'
    BY <1>11, <2>3, <2>6 DEF RetriesCounted
  <2> QED BY <2>4, <2>6, <2>7
<1>14. Untouched'
  BY <1>2 DEF Untouched
<1> QED BY <1>9, <1>10, <1>12, <1>13, <1>14 DEF GraphInv

(* The next list; the retries are linked after the statuses.               *)
LEMMA NextListKeeps ==
    ASSUME GraphAssumption, GraphInv, NextList
    PROVE  GraphInv'
<1>0. GraphTyped /\ GraphPlaced /\ Counted /\ KnownSound /\ AttemptsPlaced /\ Root \in IdsOf(nodes)
  BY DEF GraphInv, GraphPlaced
<1>1. /\ phase # "records" /\ clock' = 1 /\ phase' = IF phase = "observations" THEN "statuses" ELSE "records"
      /\ UNCHANGED <<workflow, evidence, statuses>>
      /\ IF phase = "statuses" THEN LinkRetries ELSE UNCHANGED <<nodes, edges, attempts, stages, retryLinks>>
  BY DEF NextList
<1> DEFINE after(m) == {Edge(m.id, "received_by", a.id, a.t) : a \in NextAttempt(m.t)}
           new == IF phase = "statuses" THEN UNION {after(m) : m \in retryLinks} ELSE {}
<1>2. edges' = edges \cup new /\ UNCHANGED <<nodes, attempts, stages, retryLinks>>
  BY <1>1 DEF LinkRetries
<1>3. \A x \in new : \E m \in retryLinks : \E a \in NextAttempt(m.t) : x.source = m.id /\ x.end = a.id /\ x.kind = "received_by"
  BY DEF Edge
<1> HIDE DEF new
<1>4. PICK n \in nodes : n.id = Root
  BY <1>0 DEF IdsOf
<1>5. nodes' = AddNode(nodes, n) /\ n.id[1] = "task" /\ nodes' = nodes
  BY <1>2, <1>4 DEF AddNode, IdsOf, Root
<1>6. GraphTyped'
  BY <1>0, <1>1, <1>2 DEF GraphTyped, Apart
<1>7. GraphPlaced'
  <2>1. \A m : \A a \in NextAttempt(m) : a.id \in IdsOf(nodes)
    <3>1. ASSUME NEW m, NEW a \in NextAttempt(m) PROVE a.id \in IdsOf(nodes)
      <4> DEFINE fit == {i \in DOMAIN attempts : attempts[i].t > m}
      <4>1. NextAttempt(m) = FirstOf(attempts, fit)
        BY DEF NextAttempt
      <4>2. attempts \in Seq(AttemptNode) /\ fit \subseteq DOMAIN attempts /\ DOMAIN attempts = 1..Len(attempts)
        BY <1>0 DEF GraphTyped
      <4> HIDE DEF fit
      <4>3. PICK i \in fit : a = attempts[i]
        BY <3>1, <4>1, <4>2, LastFirstFacts
      <4> QED BY <1>0, <4>2, <4>3 DEF AttemptsPlaced, IdsOf
    <3> QED BY <3>1
  <2>2. \A x \in new : /\ x.source \in IdsOf(nodes') /\ x.end \in IdsOf(nodes') /\ x.kind # "published_status"
                       /\ x.kind = "dead_lettered_to" => x.t \in 0..MaxTime
    BY <1>0, <1>3, <1>5, <2>1 DEF GraphPlaced, LinksPlaced
  <2>3. n.id[1] \notin {"attempt", "stage", "status"}
    BY <1>5
  <2>4. UNCHANGED <<attempts, stages, statuses, workflow>> /\ \A m \in retryLinks' : m \in retryLinks \/ m = n
    BY <1>1, <1>2
  <2> QED BY <1>0, <1>2, <1>5, <2>2, <2>3, <2>4, PlainPlaced
<1>8. \A types : Observed(types)' = Observed(types)
  BY <1>1 DEF Observed
<1>9. Counted'
  BY <1>0, <1>1, <1>5, <1>8 DEF Counted, CountOf
<1>10. KnownSound'
  <2>1. SUFFICES ASSUME Known' PROVE InTime' /\ RetriesCounted' /\ RetriesPlaced' /\ AllRise'
    BY DEF KnownSound
  <2>2. Known
    BY <1>1, <2>1 DEF Known
  <2>3. InTime /\ RetriesCounted /\ RetriesPlaced /\ AllRise
    BY <1>0, <2>2 DEF KnownSound
  <2>4. InTime'
    <3>1. phase' # "observations" /\ ~(phase' = "statuses" /\ statuses' # <<>>)
      BY <1>0, <1>1 DEF GraphTyped
    <3> QED BY <1>1, <1>2, <2>3, <3>1 DEF InTime
  <2>5. ASSUME NEW x \in new PROVE x.kind # "retried_as" /\ Rises(x, nodes')
    <3>1. PICK m \in retryLinks : \E a \in NextAttempt(m.t) : x.source = m.id /\ x.end = a.id /\ x.kind = "received_by"
      BY <1>3
    <3>2. PICK a \in NextAttempt(m.t) : x.source = m.id /\ x.end = a.id /\ x.kind = "received_by"
      BY <3>1
    <3>3. m \in nodes /\ m.id[1] = "retry" /\ m.t \in 1..MaxTime /\ m.t \in Nat
      BY <2>3, <3>1 DEF RetriesPlaced, RetryPlaced
    <3>4. a \in nodes /\ a.id[1] = "attempt" /\ a.t \in 1..MaxTime /\ a.t > m.t
      BY <1>0, <3>2, <3>3, LatestFacts
    <3>5. Rank(m) = 2 * m.t + 1 /\ Rank(a) = 2 * a.t
      BY <3>3, <3>4 DEF Rank
    <3>6. Rank(m) < Rank(a)
      BY <3>3, <3>4, <3>5
    <3> QED BY <1>5, <3>2, <3>3, <3>4, <3>6 DEF Rises
  <2>6. n.id[1] # "retry"
    BY <1>5
  <2>7. /\ CountOf("retry")' = CountOf("retry") /\ Retried' = Retried
        /\ IsFiniteSet(Retried') /\ RetriesPlaced' /\ AllRise'
    BY <1>0, <1>2, <1>5, <2>3, <2>5, <2>6, PlainRises
  <2>8. RetriesCounted'
    BY <1>8, <2>3, <2>7 DEF RetriesCounted
  <2> QED BY <2>4, <2>7, <2>8
<1>11. Untouched'
  BY <1>1 DEF Untouched
<1> QED BY <1>6, <1>7, <1>9, <1>10, <1>11 DEF GraphInv

(* The empty graph has the invariant.                                      *)
LEMMA GraphStarts ==
    ASSUME GraphInit
    PROVE  GraphInv
<1> DEFINE r == Node(Root, 0, None)
           c == Node(Child, 0, None)
<1>1. r.id = Root /\ c.id = Child /\ r.id[1] = "task" /\ c.id[1] = "child" /\ Root # Child
  BY DEF Node, Root, Child
<1>2. nodes = {r, c} /\ edges = {Edge(Child, "aggregated_into", Root, 0)}
  BY DEF GraphInit
<1> HIDE DEF r, c
<1>3. /\ \A x \in edges : x.source = Child /\ x.end = Root /\ x.kind = "aggregated_into"
  BY <1>2 DEF Edge
<1>4. IdsOf(nodes) = {Root, Child}
  BY <1>1, <1>2 DEF IdsOf
<1>5. IsFiniteSet(nodes)
  <2>1. IsFiniteSet({r}) /\ {r} \cup {c} = {r, c}
    BY FS_Singleton
  <2> QED BY <1>2, <2>1, FS_AddElement
<1>6. Apart(nodes)
  BY <1>1, <1>2 DEF Apart
<1>7. attempts = <<>> /\ stages = <<>> /\ evidence = <<>> /\ statuses = <<>> /\ retryLinks = {}
  BY DEF GraphInit
<1>8. GraphTyped
  BY <1>5, <1>6 DEF GraphInit, GraphTyped
<1>9. GraphPlaced
  <2>1. EdgesJoin /\ EdgesFit
    BY <1>3, <1>4 DEF EdgesJoin, EdgesFit
  <2>2. AttemptsPlaced /\ StagesPlaced /\ StatusesPlaced /\ LinksPlaced
    BY <1>1, <1>2, <1>7 DEF AttemptsPlaced, StagesPlaced, StatusesPlaced, LinksPlaced
  <2> QED BY <1>4, <2>1, <2>2 DEF GraphPlaced
<1>10. Counted
  <2>1. \A kind \in {"attempt", "stage", "status"} : {n \in nodes : n.id[1] = kind} = {}
    BY <1>1, <1>2
  <2>2. \A types : {i \in DOMAIN evidence : evidence[i].type \in types} = {}
    BY <1>7
  <2>3. CountOf("attempt") = 0 /\ CountOf("stage") = 0 /\ CountOf("status") = 0
    BY <2>1, FS_EmptySet DEF CountOf
  <2>4. Observed({"received"}) = 0 /\ Observed({"entered"}) = 0
    BY <2>2, FS_EmptySet DEF Observed
  <2> QED BY <1>7, <2>3, <2>4 DEF Counted
<1>11. KnownSound
  BY <1>7 DEF KnownSound, Known
<1>12. Untouched
  BY <1>2, <1>7 DEF Untouched, r, c
<1> QED BY <1>8, <1>9, <1>10, <1>11, <1>12 DEF GraphInv

(* Every step keeps it.                                                    *)
LEMMA GraphKeeps ==
    ASSUME GraphInv, [GraphNext]_graphVars
    PROVE  GraphInv'
<1>1. ASSUME NEW t \in Times, NEW o \in Observation(t), ReadObservation(o) PROVE GraphInv'
  <2>1. o.type \in {"received", "sample", "published", "entered", "retry", "dead"}
    BY <1>1 DEF ReadObservation, AddObservation
  <2> QED BY <1>1, <2>1, GraphAssumption, ReceivedKeeps, SampleKeeps, PublishedKeeps, EnteredKeeps, RetryKeeps, DeadKeeps
<1>2. ASSUME NEW t \in Times, NEW status \in {"processing", "manual_retrying", "completed", "failed"},
             ReadStatus([status |-> status, t |-> t])
      PROVE  GraphInv'
  BY <1>2, GraphAssumption, StatusKeeps
<1>3. ASSUME NEW t \in Times, NEW state \in {"dead_lettered", "replayed"}, ReadRecord([state |-> state, t |-> t])
      PROVE  GraphInv'
  BY <1>3, GraphAssumption, RecordKeeps
<1>4. CASE NextList
  BY <1>4, GraphAssumption, NextListKeeps
<1>5. CASE UNCHANGED graphVars
  <2>1. /\ UNCHANGED <<workflow, nodes, edges, attempts, stages>>
        /\ UNCHANGED <<retryLinks, phase, evidence, statuses, clock>>
    BY <1>5 DEF graphVars
  <2>2. GraphTyped'
    BY <2>1 DEF GraphInv, GraphTyped, Apart
  <2>3. GraphPlaced'
    <3>1. (Root \in IdsOf(nodes) /\ Child \in IdsOf(nodes) /\ EdgesJoin /\ EdgesFit)'
      BY <2>1 DEF GraphInv, GraphPlaced, EdgesJoin, EdgesFit, Root, Child
    <3>2. (AttemptsPlaced /\ LinksPlaced)'
      BY <2>1 DEF GraphInv, GraphPlaced, AttemptsPlaced, LinksPlaced, Root
    <3>3. StagesPlaced'
      BY <2>1 DEF GraphInv, GraphPlaced, StagesPlaced, OfStage
    <3>4. StatusesPlaced'
      BY <2>1 DEF GraphInv, GraphPlaced, StatusesPlaced, Root
    <3> QED BY <3>1, <3>2, <3>3, <3>4 DEF GraphPlaced
  <2>4. Counted'
    BY <2>1 DEF GraphInv, Counted, CountOf, Observed
  <2>5. KnownSound'
    BY <2>1 DEF GraphInv, KnownSound, Known, InTime, RetriesCounted, RetriesPlaced, RetryPlaced, AllRise, Rises, Rank, Retried, CountOf, Observed
  <2>6. Untouched'
    BY <2>1 DEF GraphInv, Untouched
  <2> QED BY <2>2, <2>3, <2>4, <2>5, <2>6 DEF GraphInv
<1> QED BY <1>1, <1>2, <1>3, <1>4, <1>5 DEF GraphNext

(* Edges that rise never lead back.                                        *)
LEMMA NoWayBack ==
    ASSUME GraphAssumption, GraphTyped, GraphPlaced, AllRise, RetriesPlaced, NEW n \in nodes
    PROVE  n.id \notin Reached({x.end : x \in {y \in edges : y.source = n.id}})
<1> DEFINE from == {x.end : x \in {y \in edges : y.source = n.id}}
           Higher == {m \in nodes : Rank(m) > Rank(n)}
           C == IdsOf(Higher)
<1>1. from \subseteq IdsOf(nodes) /\ (\A x \in edges : x.end \in IdsOf(nodes))
  BY DEF GraphPlaced, EdgesJoin
<1>2. Cardinality(nodes) \in Nat /\ Apart(nodes)
  BY FS_CardinalityType DEF GraphTyped
<1>3. ASSUME NEW m \in nodes PROVE Rank(m) \in Nat
  <2>1. CASE m.id[1] = "attempt"
    <3>1. PICK i \in 1..Len(attempts) : m = attempts[i]
      BY <2>1 DEF GraphPlaced, AttemptsPlaced
    <3>2. m \in AttemptNode
      BY <3>1 DEF GraphTyped
    <3>3. m.t \in Nat
      BY <3>2 DEF AttemptNode
    <3> QED BY <2>1, <3>3 DEF Rank
  <2>2. CASE m.id[1] = "retry"
    <3>1. m.t \in 1..MaxTime
      BY <2>2 DEF RetriesPlaced, RetryPlaced
    <3> QED BY <2>2, <3>1 DEF Rank
  <2>3. CASE m.id[1] \notin {"attempt", "retry"}
    <3>1. MaxTime \in Nat
      BY DEF GraphAssumption
    <3> QED BY <2>3, <3>1 DEF Rank
  <2> QED BY <2>1, <2>2, <2>3
<1>4. ASSUME NEW x \in edges, NEW m \in nodes, x.source = m.id PROVE \E e \in nodes : e.id = x.end /\ Rank(m) < Rank(e)
  <2>1. PICK p \in nodes, e \in nodes : p.id = x.source /\ e.id = x.end /\ Rank(p) < Rank(e)
    BY DEF AllRise, Rises
  <2>2. p = m
    BY <1>2, <1>4, <2>1 DEF Apart
  <2> QED BY <2>1, <2>2
<1>5. from \subseteq C
  <2>1. ASSUME NEW x \in edges, x.source = n.id PROVE x.end \in C
    <3>1. PICK e \in nodes : e.id = x.end /\ Rank(n) < Rank(e)
      BY <1>4, <2>1
    <3>2. e \in Higher
      BY <1>3, <3>1
    <3> QED BY <3>1, <3>2 DEF IdsOf
  <2> QED BY <2>1
<1>6. Onward(C) \subseteq C
  <2>1. ASSUME NEW x \in edges, x.source \in C PROVE x.end \in C
    <3>1. PICK m \in Higher : x.source = m.id
      BY <2>1 DEF IdsOf
    <3>2. m \in nodes /\ Rank(m) > Rank(n)
      BY <3>1
    <3>3. PICK e \in nodes : e.id = x.end /\ Rank(m) < Rank(e)
      BY <1>4, <3>1, <3>2
    <3>4. e \in Higher
      BY <1>3, <3>2, <3>3
    <3> QED BY <3>3, <3>4 DEF IdsOf
  <2> HIDE DEF C
  <2> QED BY <2>1 DEF Onward
<1>7. n.id \notin C
  <2>1. SUFFICES ASSUME NEW m \in Higher, m.id = n.id PROVE FALSE
    BY DEF IdsOf
  <2>2. m = n /\ Rank(m) > Rank(n)
    BY <1>2, <2>1 DEF Apart
  <2> QED BY <1>3, <2>2
<1> HIDE DEF from, C
<1>8. Reached(from) \subseteq C
  BY <1>1, <1>2, <1>5, <1>6, ReachedFacts
<1> QED BY <1>7, <1>8 DEF from

(* Attempts are one step from the task, statuses at most two.              *)
LEMMA HangsOff ==
    ASSUME GraphTyped, GraphPlaced, ~workflow, NEW n \in nodes, n.id[1] \in {"attempt", "status"}
    PROVE  n.id \in Reached({Root})
<1> DEFINE from == {Root}
<1>1. from \subseteq IdsOf(nodes) /\ (\A x \in edges : x.end \in IdsOf(nodes)) /\ Cardinality(nodes) \in Nat
  BY FS_CardinalityType DEF GraphPlaced, EdgesJoin, GraphTyped
<1>2. Cardinality(nodes) >= 2
  <2>1. PICK r \in nodes : r.id = Root
    BY DEF GraphPlaced, IdsOf
  <2>2. PICK c \in nodes : c.id = Child
    BY DEF GraphPlaced, IdsOf
  <2>3. r # c
    BY <2>1, <2>2 DEF Root, Child
  <2>4. IsFiniteSet({r}) /\ Cardinality({r}) = 1
    BY FS_Singleton
  <2>5. IsFiniteSet({r} \cup {c}) /\ Cardinality({r} \cup {c}) = 2
    BY <2>3, <2>4, FS_AddElement
  <2>6. {r} \cup {c} \subseteq nodes /\ IsFiniteSet(nodes)
    BY DEF GraphTyped
  <2>7. Cardinality({r} \cup {c}) <= Cardinality(nodes)
    BY <2>6, FS_Subset
  <2> QED BY <1>1, <2>5, <2>7
<1>3. \A i \in 1..Len(attempts) : attempts[i].id \in Onward({Root})
  BY DEF GraphPlaced, AttemptsPlaced, Onward
<1>4. n.id \in Onward(Onward({Root}))
  <2>1. CASE n.id[1] = "attempt"
    <3>1. n.id \in Onward({Root})
      BY <1>3, <2>1 DEF GraphPlaced, AttemptsPlaced
    <3> QED BY <3>1 DEF Onward
  <2>2. CASE n.id[1] = "status"
    <3>1. PICK x \in edges : x.end = n.id /\ (x.source = Root \/ \E i \in 1..Len(attempts) : x.source = attempts[i].id)
      BY <2>2 DEF GraphPlaced, StatusesPlaced
    <3>2. x.source \in Onward({Root})
      <4>1. Root \in Onward({Root})
        BY DEF Onward
      <4> QED BY <1>3, <3>1, <4>1
    <3> HIDE DEF from
    <3>3. \A S : x.source \in S => x.end \in Onward(S)
      BY DEF Onward
    <3> QED BY <3>1, <3>2, <3>3
  <2> QED BY <2>1, <2>2
<1> HIDE DEF from
<1>5. Onward(Onward(from)) \subseteq Reached(from)
  BY <1>1, <1>2, ReachedFacts
<1> QED BY <1>4, <1>5 DEF from

(* The invariant gives the property.                                       *)
LEMMA GraphInvFaithful ==
    ASSUME GraphInv
    PROVE  GraphFaithful
<1>0. GraphTyped /\ GraphPlaced /\ Counted /\ KnownSound
  BY DEF GraphInv
<1>1. \A x \in edges : x.source \in IdsOf(nodes) /\ x.end \in IdsOf(nodes)
  BY <1>0 DEF GraphPlaced, EdgesJoin
<1>2. ~workflow => \A n \in nodes : n.id[1] \in {"attempt", "status"} => n.id \in Reached({Root})
  BY <1>0, HangsOff
<1>3. Known => /\ CountOf("retry") = Observed({"retry"})
               /\ \A n \in nodes : n.id \notin Reached({x.end : x \in {y \in edges : y.source = n.id}})
  <2>1. SUFFICES ASSUME Known
                 PROVE  /\ CountOf("retry") = Observed({"retry"})
                        /\ \A n \in nodes : n.id \notin Reached({x.end : x \in {y \in edges : y.source = n.id}})
    OBVIOUS
  <2>2. RetriesCounted /\ RetriesPlaced /\ AllRise
    BY <1>0, <2>1 DEF KnownSound
  <2>3. \A n \in nodes : n.id \notin Reached({x.end : x \in {y \in edges : y.source = n.id}})
    BY <1>0, <2>2, GraphAssumption, NoWayBack
  <2> QED BY <2>2, <2>3 DEF RetriesCounted
<1>4. GraphSound
  BY <1>0, <1>1, <1>2, <1>3 DEF GraphSound, Counted, Known
<1>5. DeadLetterShown
  <2>1. EdgesJoin /\ EdgesFit /\ Len(statuses) \in Nat
    BY <1>0 DEF GraphPlaced, GraphTyped
  <2> QED BY <2>1, GraphAssumption, DeadShown DEF DeadLetterShown
<1> QED BY <1>4, <1>5 DEF GraphFaithful

(* The graph hangs together and shows how the attempts ended.              *)
THEOREM GraphIsFaithful == GraphInit /\ [][GraphNext]_graphVars => []GraphFaithful
<1>1. GraphInit => GraphInv
  BY GraphStarts
<1>2. GraphInv /\ [GraphNext]_graphVars => GraphInv'
  BY GraphKeeps
<1>3. GraphInv => GraphFaithful
  BY GraphInvFaithful
<1> QED BY <1>1, <1>2, <1>3, PTL
=============================================================================
