------------------------------ MODULE Backfill ------------------------------
(* The move of Studio's state from Redis to PostgreSQL: a snapshot read key *)
(* by key, checks, and one transaction that imports it and marks the source *)
(* as imported.  The tool may be run again, or twice at one time, and Redis *)
(* and PostgreSQL may be written meanwhile.                                *)
EXTENDS Naturals, Sequences, FiniteSets, Functions, StudioValues

CONSTANTS
    Owners,             \* service ids
    ScanOrder,          \* the kinds of records, in the order they are read
    Backfills,          \* runs of the tool
    MaxSourceWrites     \* bound on the writes to Redis and PostgreSQL

ASSUME BackfillAssumption ==
    /\ ScanOrder \in Seq(STRING) /\ {"services", "cards"} \subseteq Range(ScanOrder)
    /\ MaxSourceWrites \in Nat

VARIABLES
    source,         \* source[k]: services with records of the kind in Redis
    broken,         \* Redis holds a record that does not parse or agree
    tables,         \* tables[k]: rows in PostgreSQL: service |-> version
    imported,       \* migration_imports: the checksum of the completed import
    job,            \* job[b]: a run of the tool
    newer,          \* rows Studio wrote to PostgreSQL after an import
    together,       \* two runs overlapped
    sourceWrites

backfillVars == <<source, broken, tables, imported, job, newer, together, sourceWrites>>

AllKinds == Range(ScanOrder)
Kinds == AllKinds \ {"services", "cards"}      \* events, cursors, health, ...: what refers to a service
Versions == {"imported", "tombstone", "newer"}
Snapshots == [AllKinds -> SUBSET Owners]
ASSUME SnapshotAssumption == Nothing \notin Snapshots \cup Versions
NoJob == [pc |-> "idle", snapshot |-> [k \in AllKinds |-> {}], todo |-> <<>>, invalid |-> FALSE]

BackfillInit ==
    /\ source \in [AllKinds -> SUBSET Owners]
    /\ broken \in BOOLEAN
    /\ tables = [k \in AllKinds |-> [s \in Owners |-> Nothing]]
    /\ imported = Nothing
    /\ job = [b \in Backfills |-> NoJob]
    /\ newer = {} /\ together = FALSE /\ sourceWrites = 0

(* Writers that were not stopped.                                          *)
RedisWrites(k, s) ==
    /\ sourceWrites < MaxSourceWrites /\ sourceWrites' = sourceWrites + 1
    /\ source' \in {[source EXCEPT ![k] = @ \cup {s}], [source EXCEPT ![k] = @ \ {s}]} /\ source' # source
    /\ UNCHANGED <<broken, tables, imported, job, newer, together>>

(* Studio, switched over to PostgreSQL, updates a row.                     *)
StudioWrites(k, s) ==
    /\ imported # Nothing /\ tables[k][s] = "imported"
    /\ sourceWrites < MaxSourceWrites /\ sourceWrites' = sourceWrites + 1
    /\ tables' = [tables EXCEPT ![k][s] = "newer"] /\ newer' = newer \cup {<<k, s>>}
    /\ UNCHANGED <<source, broken, imported, job, together>>

-----------------------------------------------------------------------------
BeginBackfill(b) ==
    /\ job[b] = NoJob
    /\ job' = [job EXCEPT ![b] = [NoJob EXCEPT !.pc = "scan", !.todo = ScanOrder]]
    /\ together' = (together \/ \E o \in Backfills \ {b} : job[o] # NoJob)
    /\ UNCHANGED <<source, broken, tables, imported, newer, sourceWrites>>

(* snapshot: one kind after the other.                                     *)
Scan(b) ==
    /\ job[b].pc = "scan" /\ job[b].todo # <<>>
    /\ job' = [job EXCEPT ![b].snapshot[Head(job[b].todo)] = source[Head(job[b].todo)],
                         ![b].todo = Tail(@), ![b].invalid = @ \/ broken]
    /\ UNCHANGED <<source, broken, tables, imported, newer, together, sourceWrites>>

(* _validate_snapshot_invariants and the unreadable records: the run ends, *)
(* unless invalid records were allowed or only the checks were asked for.  *)
Checked(b, allow) ==
    /\ job[b].pc = "scan" /\ job[b].todo = <<>>
    /\ job' = [job EXCEPT ![b] = IF @.invalid /\ ~allow THEN NoJob ELSE [@ EXCEPT !.pc = "prior"]]
    /\ UNCHANGED <<source, broken, tables, imported, newer, together, sourceWrites>>

(* The transaction looks for a completed import: the same source is done,  *)
(* another is refused.                                                     *)
Prior(b) ==
    /\ job[b].pc = "prior"
    /\ job' = [job EXCEPT ![b] = IF imported = Nothing THEN [@ EXCEPT !.pc = "import"] ELSE NoJob]
    /\ UNCHANGED <<source, broken, tables, imported, newer, together, sourceWrites>>

(* Seeded fault: health documents of unknown services get no tombstone.    *)
MutantTombstones(snapshot) == (UNION {snapshot[k] : k \in Kinds \ {"health"}}) \ snapshot["services"]
(* tombstone_service_ids.                                                  *)
Tombstones(snapshot) == (UNION {snapshot[k] : k \in Kinds}) \ snapshot["services"]

ImportServices(snapshot) ==
    [s \in Owners |-> IF s \in snapshot["services"] THEN "imported"
                      ELSE IF s \in Tombstones(snapshot) /\ tables["services"][s] = Nothing THEN "tombstone"
                      ELSE tables["services"][s]]
(* Rows that are there are overwritten; events, which never change, stay.  *)
ImportRows(k, snapshot) ==
    [s \in Owners |-> IF s \in snapshot[k] /\ (k = "events" => tables[k][s] = Nothing) THEN "imported"
                      ELSE tables[k][s]]
ImportCards(snapshot) ==
    [s \in Owners |-> IF s \in snapshot["cards"] \cap snapshot["services"] THEN "imported" ELSE tables["cards"][s]]

(* The rest of the transaction: rows, then the mark of the import.         *)
Import(b) ==
    LET snapshot == job[b].snapshot
    IN  /\ job[b].pc = "import"
        /\ tables' = [k \in AllKinds |-> IF k = "services" THEN ImportServices(snapshot)
                                         ELSE IF k = "cards" THEN ImportCards(snapshot)
                                         ELSE ImportRows(k, snapshot)]
        /\ imported' = snapshot /\ job' = [job EXCEPT ![b] = NoJob]
        /\ UNCHANGED <<source, broken, newer, together, sourceWrites>>

(* The tool stops; its transaction is rolled back.                         *)
BackfillStops(b) ==
    /\ job[b] # NoJob /\ job' = [job EXCEPT ![b] = NoJob]
    /\ UNCHANGED <<source, broken, tables, imported, newer, together, sourceWrites>>

BackfillNext ==
    \/ \E k \in AllKinds, s \in Owners : RedisWrites(k, s) \/ StudioWrites(k, s)
    \/ \E b \in Backfills : \/ BeginBackfill(b) \/ Prior(b) \/ Import(b) \/ BackfillStops(b)
                            \/ Scan(b) \/ \E allow \in BOOLEAN : Checked(b, allow)

BackfillSpec == BackfillInit /\ [][BackfillNext]_backfillVars

-----------------------------------------------------------------------------
(* Every imported row refers to a service that is there, alive or as a     *)
(* tombstone, although the kinds were read at different times; and nothing *)
(* Studio wrote after the switch is overwritten by running the tool again, *)
(* unless two runs overlapped.                                             *)
ImportSound ==
    /\ \A k \in Kinds, s \in Owners : tables[k][s] # Nothing => tables["services"][s] # Nothing
    /\ ~together => \A r \in newer : tables[r[1]][r[2]] = "newer"
=============================================================================
