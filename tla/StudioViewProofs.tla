-------------------------- MODULE StudioViewProofs --------------------------
(* Proofs about what Studio shows of the services.  EventIngest: the pull  *)
(* cursor covers the feed and the search documents are complete, named and *)
(* findable.  SearchPages, FailedTaskPages and TaskJoins: what a listing   *)
(* read page by page, or joined over the services, may leave out.          *)
(* Incidents: every failure is in one incident, through merges and splits. *)
(* ReliabilityGoals: a goal's preview and its evaluation agree.            *)
EXTENDS EventIngest, SearchPages, FailedTaskPages, TaskJoins, Incidents, ReliabilityGoals,
        FiniteSetTheorems, SequenceTheorems, WellFoundedInduction, TLAPS

-----------------------------------------------------------------------------
(* The inductive invariant.                                                *)
Statuses == {StatusOf[e] : e \in Events}
FeedPcs == {"idle", "fetch", "finish", "ingest", "insert", "commit", "setnx", "pipe", "getdoc"}
WritePcs == {"unindex", "setdoc", "index"}
RegistryPcs == {"rename", "delete", "drop"}
RedisPcs == {"setnx", "pipe", "getdoc"} \cup WritePcs \cup RegistryPcs
EventPcs == {"insert", "commit", "setnx", "pipe", "getdoc"}
ProcType == [pc : FeedPcs \cup WritePcs \cup RegistryPcs, todo : SUBSET (Events \cup Tasks),
             ev : Nat, task : Tasks \cup {None}, row : Rows \cup {None}, at : Nat, name : Nat]

TypeOK ==
    /\ mode \in Modes
    /\ service \in [live : BOOLEAN, name : Nat]
    /\ feed \subseteq Events /\ emitted \in 0 .. MaxEvents /\ cursor \in Nat
    /\ sync \in [stored : Nat, newest : Nat, after : Nat, last : BOOLEAN, pages : Nat]
    /\ proc \in [Procs -> ProcType]
    /\ doc \in [Tasks -> Rows \cup {None}]
    /\ index \in [Tasks -> SUBSET Statuses]
    /\ since \in [Tasks -> SUBSET Events] /\ latest \in [Tasks -> Nat]
    /\ torn \subseteq Tasks \cup {None}

(* What a process is at determines whose process it is, which store it     *)
(* writes to and which of its fields are set.                              *)
ProcOK(i, p) ==
    /\ i = "registry" => p.pc \in {"idle"} \cup WritePcs \cup RegistryPcs /\ p.todo \subseteq Tasks
    /\ i # "registry" => p.pc \in FeedPcs \cup WritePcs /\ p.todo \subseteq Events
    /\ i # "pull" => p.pc \notin {"fetch", "finish"}
    /\ p.pc \in EventPcs => p.ev \in Events /\ p.task = TaskOf[p.ev]
    /\ p.pc \in WritePcs \cup {"drop"} => p.task \in Tasks
    /\ p.pc \in WritePcs => p.row \in Rows
    /\ p.pc \in RedisPcs => mode = "redis"
    /\ p.pc = "commit" => mode = "postgres"

ProcsOK == \A i \in Procs : ProcOK(i, proc[i])

FeedShape == feed = {e \in 1 .. emitted : e + FeedMax > emitted}

Covered(e) == e \in stored \cup lost \/ \E i \in Procs : proc[i].pc = "pipe" /\ proc[i].ev = e
KeysCovered == \A e \in keys : Covered(e)
CursorOK == cursor <= emitted /\ \A e \in feed : e <= cursor => Covered(e)

PullCovered(e) ==
    \/ Covered(e)
    \/ e \in proc["pull"].todo
    \/ proc["pull"].pc \in {"insert", "commit", "setnx"} /\ e = proc["pull"].ev
Reached(lo) == \A e \in feed : lo <= e /\ e <= sync.newest => PullCovered(e)
SyncOK ==
    proc["pull"].pc # "idle" =>
        /\ sync.stored = cursor /\ sync.newest <= emitted
        /\ sync.pages = 0 => sync.newest = 0 /\ sync.after = 0 /\ ~sync.last
        /\ proc["pull"].pc \in {"fetch", "finish"} => proc["pull"].todo = {}
        /\ proc["pull"].pc = "fetch" => ~sync.last
        /\ sync.last \/ proc["pull"].pc = "finish" => Reached(0)
        /\ \/ Reached(0)
           \/ /\ Reached(sync.after) /\ sync.after >= 1
              /\ sync.after + sync.pages * PageLimit <= sync.newest + 1

FindableOK ==
    mode = "redis" => \A t \in Tasks :
        \/ doc[t] = None \/ t \in torn
        \/ doc[t].status \in index[t]
        \/ \E i \in Procs : /\ proc[i].task = t
                            /\ \/ proc[i].pc \in {"setdoc", "drop"}
                               \/ proc[i].pc = "index" /\ proc[i].row.status = doc[t].status

Spans(r) ==
    /\ \A e \in r.seen : r.first <= Time[e] /\ Time[e] <= r.last
    /\ \E e \in r.seen : r.first = Time[e]
    /\ \E e \in r.seen : r.last = Time[e]
DocOK(t) ==
    IF doc[t] = None THEN since[t] = {}
    ELSE /\ Spans(doc[t]) /\ since[t] \subseteq doc[t].seen
         /\ service.live => doc[t].name = service.name
TransactionOK(i) ==
    /\ proc[i].row # None => Spans(proc[i].row)
    /\ doc[proc[i].task] # None => proc[i].row # None /\ since[proc[i].task] \subseteq proc[i].row.seen
    /\ service.live => proc[i].name = service.name
    /\ \A j \in Procs \ {i} : proc[j].pc = "commit" => proc[j].task # proc[i].task
DocumentsOK ==
    mode = "postgres" =>
        /\ \A t \in Tasks : DocOK(t)
        /\ \A i \in Procs : proc[i].pc = "commit" => TransactionOK(i)

IInv ==
    /\ TypeOK /\ ProcsOK /\ FeedShape /\ KeysCovered /\ CursorOK /\ SyncOK
    /\ FindableOK /\ DocumentsOK

-----------------------------------------------------------------------------
(* The records of a process, and what the updates of the actions make of   *)
(* them.                                                                   *)
Rec(p, s, e, t, r, a, n) ==
    [pc |-> p, todo |-> s, ev |-> e, task |-> t, row |-> r, at |-> a, name |-> n]
Pcs == FeedPcs \cup WritePcs \cup RegistryPcs

LEMMA RecFields ==
    ASSUME NEW p, NEW s, NEW e, NEW t, NEW r, NEW a, NEW n
    PROVE  LET q == Rec(p, s, e, t, r, a, n)
           IN  q.pc = p /\ q.todo = s /\ q.ev = e /\ q.task = t /\ q.row = r /\ q.at = a /\ q.name = n
BY DEF Rec

LEMMA RecType ==
    ASSUME NEW p \in Pcs, NEW s \in SUBSET (Events \cup Tasks), NEW e \in Nat, NEW t \in Tasks \cup {None},
           NEW r \in Rows \cup {None}, NEW a \in Nat, NEW n \in Nat
    PROVE  Rec(p, s, e, t, r, a, n) \in ProcType
BY DEF Rec, ProcType, Pcs

LEMMA RecOf ==
    ASSUME NEW o \in ProcType
    PROVE  /\ o = Rec(o.pc, o.todo, o.ev, o.task, o.row, o.at, o.name)
           /\ o.pc \in Pcs /\ o.todo \in SUBSET (Events \cup Tasks) /\ o.ev \in Nat /\ o.task \in Tasks \cup {None}
           /\ o.row \in Rows \cup {None} /\ o.at \in Nat /\ o.name \in Nat
BY DEF Rec, ProcType, Pcs

LEMMA IdleIs == Idle = Rec("idle", {}, 0, None, None, 0, 0)
BY DEF Idle, Rec

LEMMA IdleAt ==
    ASSUME NEW p
    PROVE  [Idle EXCEPT !.pc = p] = Rec(p, {}, 0, None, None, 0, 0)
<1>1. Idle = Rec("idle", {}, 0, None, None, 0, 0)
    BY IdleIs
<1> QED BY <1>1 DEF Rec

LEMMA IdleTodo ==
    ASSUME NEW p, NEW s
    PROVE  [Idle EXCEPT !.pc = p, !.todo = s] = Rec(p, s, 0, None, None, 0, 0)
<1>1. Idle = Rec("idle", {}, 0, None, None, 0, 0)
    BY IdleIs
<1>2. [Rec("idle", {}, 0, None, None, 0, 0) EXCEPT !.pc = p] = Rec(p, {}, 0, None, None, 0, 0)
    BY DEF Rec
<1>3. [Rec(p, {}, 0, None, None, 0, 0) EXCEPT !.todo = s] = Rec(p, s, 0, None, None, 0, 0)
    BY DEF Rec
<1> QED BY <1>1, <1>2, <1>3

LEMMA IdleTask ==
    ASSUME NEW p, NEW s, NEW t
    PROVE  [Idle EXCEPT !.pc = p, !.todo = s, !.task = t] = Rec(p, s, 0, t, None, 0, 0)
<1>1. Idle = Rec("idle", {}, 0, None, None, 0, 0)
    BY IdleIs
<1>2. [Rec("idle", {}, 0, None, None, 0, 0) EXCEPT !.pc = p] = Rec(p, {}, 0, None, None, 0, 0)
    BY DEF Rec
<1>3. [Rec(p, {}, 0, None, None, 0, 0) EXCEPT !.todo = s] = Rec(p, s, 0, None, None, 0, 0)
    BY DEF Rec
<1>4. [Rec(p, s, 0, None, None, 0, 0) EXCEPT !.task = t] = Rec(p, s, 0, t, None, 0, 0)
    BY DEF Rec
<1> QED BY <1>1, <1>2, <1>3, <1>4

LEMMA IdleEvent ==
    ASSUME NEW p, NEW s, NEW e, NEW t
    PROVE  [Idle EXCEPT !.pc = p, !.todo = s, !.ev = e, !.task = t] = Rec(p, s, e, t, None, 0, 0)
<1>1. Idle = Rec("idle", {}, 0, None, None, 0, 0)
    BY IdleIs
<1>2. [Rec("idle", {}, 0, None, None, 0, 0) EXCEPT !.pc = p] = Rec(p, {}, 0, None, None, 0, 0)
    BY DEF Rec
<1>3. [Rec(p, {}, 0, None, None, 0, 0) EXCEPT !.todo = s] = Rec(p, s, 0, None, None, 0, 0)
    BY DEF Rec
<1>4. [Rec(p, s, 0, None, None, 0, 0) EXCEPT !.ev = e] = Rec(p, s, e, None, None, 0, 0)
    BY DEF Rec
<1>5. [Rec(p, s, e, None, None, 0, 0) EXCEPT !.task = t] = Rec(p, s, e, t, None, 0, 0)
    BY DEF Rec
<1> QED BY <1>1, <1>2, <1>3, <1>4, <1>5

LEMMA IdleRow ==
    ASSUME NEW p, NEW s, NEW t, NEW r
    PROVE  [Idle EXCEPT !.pc = p, !.todo = s, !.task = t, !.row = r] = Rec(p, s, 0, t, r, 0, 0)
<1>1. Idle = Rec("idle", {}, 0, None, None, 0, 0)
    BY IdleIs
<1>2. [Rec("idle", {}, 0, None, None, 0, 0) EXCEPT !.pc = p] = Rec(p, {}, 0, None, None, 0, 0)
    BY DEF Rec
<1>3. [Rec(p, {}, 0, None, None, 0, 0) EXCEPT !.todo = s] = Rec(p, s, 0, None, None, 0, 0)
    BY DEF Rec
<1>4. [Rec(p, s, 0, None, None, 0, 0) EXCEPT !.task = t] = Rec(p, s, 0, t, None, 0, 0)
    BY DEF Rec
<1>5. [Rec(p, s, 0, t, None, 0, 0) EXCEPT !.row = r] = Rec(p, s, 0, t, r, 0, 0)
    BY DEF Rec
<1> QED BY <1>1, <1>2, <1>3, <1>4, <1>5

LEMMA StepPc ==
    ASSUME NEW o \in ProcType, NEW p
    PROVE  [o EXCEPT !.pc = p] = Rec(p, o.todo, o.ev, o.task, o.row, o.at, o.name)
<1>1. o = Rec(o.pc, o.todo, o.ev, o.task, o.row, o.at, o.name)
    BY RecOf
<1> QED BY <1>1 DEF Rec

LEMMA StepAt ==
    ASSUME NEW o \in ProcType, NEW p, NEW a
    PROVE  [o EXCEPT !.pc = p, !.at = a] = Rec(p, o.todo, o.ev, o.task, o.row, a, o.name)
<1>1. o = Rec(o.pc, o.todo, o.ev, o.task, o.row, o.at, o.name)
    BY RecOf
<1>2. [Rec(o.pc, o.todo, o.ev, o.task, o.row, o.at, o.name) EXCEPT !.pc = p] = Rec(p, o.todo, o.ev, o.task, o.row, o.at, o.name)
    BY DEF Rec
<1>3. [Rec(p, o.todo, o.ev, o.task, o.row, o.at, o.name) EXCEPT !.at = a] = Rec(p, o.todo, o.ev, o.task, o.row, a, o.name)
    BY DEF Rec
<1> QED BY <1>1, <1>2, <1>3

LEMMA StepRow ==
    ASSUME NEW o \in ProcType, NEW p, NEW r
    PROVE  [o EXCEPT !.pc = p, !.row = r] = Rec(p, o.todo, o.ev, o.task, r, o.at, o.name)
<1>1. o = Rec(o.pc, o.todo, o.ev, o.task, o.row, o.at, o.name)
    BY RecOf
<1>2. [Rec(o.pc, o.todo, o.ev, o.task, o.row, o.at, o.name) EXCEPT !.pc = p] = Rec(p, o.todo, o.ev, o.task, o.row, o.at, o.name)
    BY DEF Rec
<1>3. [Rec(p, o.todo, o.ev, o.task, o.row, o.at, o.name) EXCEPT !.row = r] = Rec(p, o.todo, o.ev, o.task, r, o.at, o.name)
    BY DEF Rec
<1> QED BY <1>1, <1>2, <1>3

LEMMA StepName ==
    ASSUME NEW o \in ProcType, NEW p, NEW n
    PROVE  [o EXCEPT !.pc = p, !.name = n] = Rec(p, o.todo, o.ev, o.task, o.row, o.at, n)
<1>1. o = Rec(o.pc, o.todo, o.ev, o.task, o.row, o.at, o.name)
    BY RecOf
<1>2. [Rec(o.pc, o.todo, o.ev, o.task, o.row, o.at, o.name) EXCEPT !.pc = p] = Rec(p, o.todo, o.ev, o.task, o.row, o.at, o.name)
    BY DEF Rec
<1>3. [Rec(p, o.todo, o.ev, o.task, o.row, o.at, o.name) EXCEPT !.name = n] = Rec(p, o.todo, o.ev, o.task, o.row, o.at, n)
    BY DEF Rec
<1> QED BY <1>1, <1>2, <1>3

LEMMA StepRowName ==
    ASSUME NEW o \in ProcType, NEW r, NEW n
    PROVE  [o EXCEPT !.pc = "commit", !.row = r, !.name = n] = Rec("commit", o.todo, o.ev, o.task, r, o.at, n)
<1>1. o = Rec(o.pc, o.todo, o.ev, o.task, o.row, o.at, o.name)
    BY RecOf
<1>2. [Rec(o.pc, o.todo, o.ev, o.task, o.row, o.at, o.name) EXCEPT !.pc = "commit"] = Rec("commit", o.todo, o.ev, o.task, o.row, o.at, o.name)
    BY DEF Rec
<1>3. [Rec("commit", o.todo, o.ev, o.task, o.row, o.at, o.name) EXCEPT !.row = r] = Rec("commit", o.todo, o.ev, o.task, r, o.at, o.name)
    BY DEF Rec
<1>4. [Rec("commit", o.todo, o.ev, o.task, r, o.at, o.name) EXCEPT !.name = n] = Rec("commit", o.todo, o.ev, o.task, r, o.at, n)
    BY DEF Rec
<1> QED BY <1>1, <1>2, <1>3, <1>4

(* The newest n of an interval are its upper end.                          *)
LEMMA NewestOfInterval ==
    ASSUME NEW a \in Nat, NEW b \in Nat, NEW n \in Nat
    PROVE  Newest(n, a .. b) = {e \in a .. b : e + n > b}
<1> SUFFICES ASSUME NEW e \in a .. b
             PROVE  Cardinality({f \in a .. b : f > e}) < n <=> e + n > b
    BY DEF Newest
<1>1. {f \in a .. b : f > e} = (e + 1) .. b
    BY SMT
<1>2. Cardinality((e + 1) .. b) = IF e + 1 > b THEN 0 ELSE b - (e + 1) + 1
    <2>1. e + 1 \in Int /\ b \in Int
        BY SMT
    <2> QED BY <2>1, FS_Interval
<1>3. Cardinality((e + 1) .. b) = b - e
    BY <1>2, SMT
<1>4. Cardinality({f \in a .. b : f > e}) = b - e
    BY <1>1, <1>3
<1> QED BY <1>4, SMT

LEMMA MaxOf ==
    ASSUME NEW S, S \subseteq Nat, NEW m \in S, \A y \in S : y <= m
    PROVE  Max(S) = m
<1>1. \A y \in S : m >= y
    BY SMT
<1>2. \A x \in S : (\A y \in S : x >= y) => x = m
    BY SMT
<1> QED BY <1>1, <1>2 DEF Max

LEMMA MinOf ==
    ASSUME NEW S, S \subseteq Nat, NEW m \in S, \A y \in S : m <= y
    PROVE  Min(S) = m
<1>1. \A x \in S : (\A y \in S : x <= y) => x = m
    BY SMT
<1> QED BY <1>1 DEF Min

-----------------------------------------------------------------------------
(* What the actions make of the processes.                                 *)

LEMMA SyncStartIs ==
    ASSUME TypeOK, SyncStart
    PROVE  proc' = [proc EXCEPT !["pull"] = Rec("fetch", {}, 0, None, None, 0, 0)]
BY IdleAt DEF SyncStart, Set

LEMMA SyncPageIs ==
    ASSUME TypeOK, SyncPage
    PROVE  \/ /\ Page(sync.after) = {} /\ UNCHANGED sync
              /\ proc' = [proc EXCEPT !["pull"] = Rec("finish", {}, 0, None, None, 0, 0)]
           \/ /\ Page(sync.after) # {}
              /\ proc' = [proc EXCEPT !["pull"] = Rec("ingest", NewItems(Page(sync.after), sync.stored), 0, None, None, 0, 0)]
BY IdleAt, IdleTodo DEF SyncPage, Set

LEMMA SyncTurnIs ==
    ASSUME TypeOK, SyncTurn
    PROVE  proc' = [proc EXCEPT !["pull"] = Rec(IF sync.last THEN "finish" ELSE "fetch", {}, 0, None, None, 0, 0)]
BY IdleAt DEF SyncTurn, Set

LEMMA PushStartIs ==
    ASSUME TypeOK, NEW e \in Events, PushStart(e)
    PROVE  proc' = [proc EXCEPT !["push"] = Rec("ingest", {e}, 0, None, None, 0, 0)]
BY IdleTodo DEF PushStart, Set

LEMMA DoneIs ==
    ASSUME TypeOK, NEW i \in Procs, Done(i)
    PROVE  proc' = [proc EXCEPT ![i] = Rec("ingest", proc[i].todo, 0, None, None, 0, 0)]
BY IdleTodo DEF Done, Set

LEMMA LookupIs ==
    ASSUME TypeOK, NEW i \in Procs, NEW e \in Events, Lookup(i, e)
    PROVE  \/ /\ service.live /\ UNCHANGED lost
              /\ proc' = [proc EXCEPT ![i] = Rec("insert", proc[i].todo \ {e}, e, TaskOf[e], None, 0, 0)]
           \/ /\ lost' = lost \cup {e}
              /\ proc' = [proc EXCEPT ![i] = Rec("ingest", proc[i].todo \ {e}, 0, None, None, 0, 0)]
<1>1. [Idle EXCEPT !.pc = "ingest", !.todo = proc[i].todo \ {e}]
      = Rec("ingest", proc[i].todo \ {e}, 0, None, None, 0, 0)
    BY IdleTodo
<1>2. [Idle EXCEPT !.pc = "insert", !.todo = proc[i].todo \ {e}, !.ev = e, !.task = TaskOf[e]]
      = Rec("insert", proc[i].todo \ {e}, e, TaskOf[e], None, 0, 0)
    BY IdleEvent
<1> QED BY <1>1, <1>2 DEF Lookup, Set

LEMMA PgInsertIs ==
    ASSUME TypeOK, NEW i \in Procs, PgInsert(i)
    PROVE  \/ /\ proc[i].ev \in stored
              /\ proc' = [proc EXCEPT ![i] = Rec("ingest", proc[i].todo, 0, None, None, 0, 0)]
           \/ /\ proc[i].ev \notin stored
              /\ proc' = [proc EXCEPT ![i] = Rec("commit", proc[i].todo, proc[i].ev, proc[i].task, doc[proc[i].task], proc[i].at, service.name)]
<1>1. proc[i] \in ProcType
    BY DEF TypeOK
<1>2. [proc[i] EXCEPT !.pc = "commit", !.row = doc[proc[i].task], !.name = service.name]
      = Rec("commit", proc[i].todo, proc[i].ev, proc[i].task, doc[proc[i].task], proc[i].at, service.name)
    BY <1>1, StepRowName, Zenon
<1> QED BY <1>2, DoneIs DEF PgInsert, Set

LEMMA ReadLatestIs ==
    ASSUME TypeOK, NEW i \in Procs, ReadLatest(i)
    PROVE  proc' = [proc EXCEPT ![i] = Rec("setnx", proc[i].todo, proc[i].ev, proc[i].task, proc[i].row, latest[proc[i].task], proc[i].name)]
BY StepAt DEF ReadLatest, Set, TypeOK

LEMMA SetNXIs ==
    ASSUME TypeOK, NEW i \in Procs, SetNX(i)
    PROVE  \/ /\ proc[i].ev \in keys /\ UNCHANGED keys
              /\ proc' = [proc EXCEPT ![i] = Rec("ingest", proc[i].todo, 0, None, None, 0, 0)]
           \/ /\ keys' = keys \cup {proc[i].ev}
              /\ proc' = [proc EXCEPT ![i] = Rec("pipe", proc[i].todo, proc[i].ev, proc[i].task, proc[i].row, proc[i].at, proc[i].name)]
BY DoneIs, StepPc DEF SetNX, Set, TypeOK

LEMMA PipeIs ==
    ASSUME TypeOK, NEW i \in Procs, Pipe(i)
    PROVE  proc' = [proc EXCEPT ![i] = Rec("getdoc", proc[i].todo, proc[i].ev, proc[i].task, proc[i].row, proc[i].at, service.name)]
<1>1. proc[i] \in ProcType
    BY DEF TypeOK
<1>2. [proc[i] EXCEPT !.pc = "getdoc", !.name = service.name]
      = Rec("getdoc", proc[i].todo, proc[i].ev, proc[i].task, proc[i].row, proc[i].at, service.name)
    BY <1>1, StepName
<1> QED BY <1>2 DEF Pipe, Set

LEMMA GetDocIs ==
    ASSUME TypeOK, NEW i \in Procs, GetDoc(i)
    PROVE  proc' = [proc EXCEPT ![i] = Rec("unindex", proc[i].todo, proc[i].ev, proc[i].task, Merged(doc[proc[i].task], proc[i].ev, proc[i].name), proc[i].at, proc[i].name)]
BY StepRow DEF GetDoc, Set, TypeOK

LEMMA UnindexIs ==
    ASSUME TypeOK, NEW i \in Procs, Unindex(i)
    PROVE  proc' = [proc EXCEPT ![i] = Rec("setdoc", proc[i].todo, proc[i].ev, proc[i].task, proc[i].row, proc[i].at, proc[i].name)]
BY StepPc DEF Unindex, Set, TypeOK

LEMMA SetDocIs ==
    ASSUME TypeOK, NEW i \in Procs, SetDoc(i)
    PROVE  proc' = [proc EXCEPT ![i] = Rec("index", proc[i].todo, proc[i].ev, proc[i].task, proc[i].row, proc[i].at, proc[i].name)]
BY StepPc DEF SetDoc, Set, TypeOK

LEMMA AddIndexIs ==
    ASSUME TypeOK, NEW i \in Procs, AddIndex(i)
    PROVE  proc' = [proc EXCEPT ![i] = Rec(IF i = "registry" THEN "rename" ELSE "ingest", proc[i].todo, 0, None, None, 0, 0)]
BY DoneIs, IdleTodo DEF AddIndex, Set

LEMMA RenameNextIs ==
    ASSUME TypeOK, NEW t \in Tasks, RenameNext(t)
    PROVE  \/ /\ doc[t] = None
              /\ proc' = [proc EXCEPT !["registry"] = Rec("rename", proc["registry"].todo \ {t}, 0, None, None, 0, 0)]
           \/ /\ doc[t] # None
              /\ proc' = [proc EXCEPT !["registry"] = Rec("unindex", proc["registry"].todo \ {t}, 0, t,
                                                          [doc[t] EXCEPT !.name = service.name], 0, 0)]
<1>1. [Idle EXCEPT !.pc = "rename", !.todo = proc["registry"].todo \ {t}]
      = Rec("rename", proc["registry"].todo \ {t}, 0, None, None, 0, 0)
    BY IdleTodo
<1> DEFINE r == [doc[t] EXCEPT !.name = service.name]
<1>2. [Idle EXCEPT !.pc = "unindex", !.todo = proc["registry"].todo \ {t}, !.task = t, !.row = r]
      = Rec("unindex", proc["registry"].todo \ {t}, 0, t, r, 0, 0)
    BY IdleRow
<1> QED BY <1>1, <1>2 DEF RenameNext, Set

LEMMA DeleteNextIs ==
    ASSUME TypeOK, NEW t \in Tasks, DeleteNext(t)
    PROVE  proc' = [proc EXCEPT !["registry"] = Rec("drop", proc["registry"].todo \ {t}, 0, t, None, 0, 0)]
BY IdleTask DEF DeleteNext, Set

LEMMA DeleteDocIs ==
    ASSUME TypeOK, DeleteDoc
    PROVE  proc' = [proc EXCEPT !["registry"] = Rec("delete", proc["registry"].todo, 0, None, None, 0, 0)]
BY IdleTodo DEF DeleteDoc, Set

LEMMA RenameIs ==
    ASSUME TypeOK, Rename
    PROVE  \/ mode = "postgres" /\ UNCHANGED proc
           \/ /\ mode # "postgres" /\ UNCHANGED <<doc, since>>
              /\ proc' = [proc EXCEPT !["registry"] = Rec("rename", Documented, 0, None, None, 0, 0)]
BY IdleTodo DEF Rename, Set

LEMMA CreateIs ==
    ASSUME TypeOK, Create
    PROVE  \/ mode = "postgres" /\ UNCHANGED proc
           \/ /\ mode # "postgres" /\ UNCHANGED <<doc, since>>
              /\ proc' = [proc EXCEPT !["registry"] = Rec("rename", Documented, 0, None, None, 0, 0)]
BY IdleTodo DEF Create, Set

LEMMA DeleteIs ==
    ASSUME TypeOK, Delete
    PROVE  \/ mode = "postgres" /\ UNCHANGED proc
           \/ /\ mode # "postgres" /\ UNCHANGED <<doc, since>>
              /\ proc' = [proc EXCEPT !["registry"] = Rec("delete", Documented, 0, None, None, 0, 0)]
BY IdleTodo DEF Delete, Set

LEMMA PruneIs ==
    ASSUME TypeOK, NEW t \in Tasks, Prune(t)
    PROVE  \/ mode = "postgres" /\ UNCHANGED proc
           \/ /\ mode # "postgres" /\ UNCHANGED <<doc, since>>
              /\ proc' = [proc EXCEPT !["registry"] = Rec("delete", {t}, 0, None, None, 0, 0)]
BY IdleTodo DEF Prune, Set

-----------------------------------------------------------------------------
(* Types, and the fields of the processes.                                 *)
LEMMA ProcMoves ==
    ASSUME TypeOK, ProcsOK, NEW i \in Procs, NEW q, q \in ProcType, ProcOK(i, q),
           proc' = [proc EXCEPT ![i] = q], mode' = mode
    PROVE  /\ proc' \in [Procs -> ProcType] /\ ProcsOK'
           /\ proc'[i] = q /\ \A j \in Procs \ {i} : proc'[j] = proc[j]
<1>1. /\ proc' \in [Procs -> ProcType] /\ proc'[i] = q
      /\ \A j \in Procs \ {i} : proc'[j] = proc[j]
    BY DEF TypeOK
<1>2. \A j \in Procs : ProcOK(j, proc[j])
    BY DEF ProcsOK
<1>3. ProcsOK'
    <2> SUFFICES ASSUME NEW j \in Procs PROVE ProcOK(j, proc[j])'
        BY DEF ProcsOK
    <2>1. ProcOK(j, proc'[j])
        BY <1>1, <1>2
    <2> QED BY <2>1 DEF ProcOK
<1> QED BY <1>1, <1>3

LEMMA MergedType ==
    ASSUME NEW r \in Rows \cup {None}, NEW e \in Events, NEW n \in Nat
    PROVE  Merged(r, e, n) \in Rows
<1>1. Time[e] \in Nat /\ StatusOf[e] \in {StatusOf[f] : f \in Events} /\ {e} \in SUBSET Events
    BY IngestAssumption
<1>2. CASE r = None
    BY <1>1, <1>2 DEF Merged, Rows
<1>3. CASE r # None
    <2>1. r \in Rows
        BY <1>3
    <2>2. r.first \in Nat /\ r.last \in Nat /\ r.seen \in SUBSET Events
        BY <2>1 DEF Rows
    <2> DEFINE f == IF Time[e] < r.first THEN Time[e] ELSE r.first
               l == IF Time[e] > r.last THEN Time[e] ELSE r.last
               s == r.seen \cup {e}
    <2>3. f \in Nat /\ l \in Nat /\ s \in SUBSET Events
        BY <1>1, <2>2
    <2>4. Merged(r, e, n) = [first |-> f, last |-> l, status |-> StatusOf[e], name |-> n, seen |-> s]
        BY <1>3 DEF Merged
    <2> HIDE DEF f, l, s
    <2> QED BY <1>1, <2>3, <2>4 DEF Rows
<1> QED BY <1>2, <1>3

LEMMA Renames ==
    ASSUME NEW r \in Rows, NEW n \in Nat
    PROVE  /\ [r EXCEPT !.name = n] \in Rows
           /\ [r EXCEPT !.name = n].name = n
           /\ [r EXCEPT !.name = n].status = r.status
           /\ [r EXCEPT !.name = n].first = r.first /\ [r EXCEPT !.name = n].last = r.last
           /\ [r EXCEPT !.name = n].seen = r.seen
           /\ [r EXCEPT !.name = n] # None
<1>1. [r EXCEPT !.name = n] \in Rows
    BY DEF Rows
<1>2. [r EXCEPT !.name = n] # None
    BY <1>1, IngestAssumption
<1> QED BY <1>1, <1>2 DEF Rows

LEMMA RenamedType ==
    ASSUME doc \in [Tasks -> Rows \cup {None}], NEW n \in Nat
    PROVE  Renamed(n) \in [Tasks -> Rows \cup {None}]
BY Renames DEF Renamed

LEMMA ProcTypes ==
    ASSUME TypeOK, ProcsOK, NEW i \in Procs
    PROVE  /\ ProcOK(i, proc[i])
           /\ proc[i].pc \in Pcs /\ proc[i].todo \in SUBSET (Events \cup Tasks) /\ proc[i].ev \in Nat
           /\ proc[i].task \in Tasks \cup {None} /\ proc[i].row \in Rows \cup {None}
           /\ proc[i].at \in Nat /\ proc[i].name \in Nat
           /\ i # "registry" /\ proc[i].pc \in EventPcs =>
                  proc[i].ev \in Events /\ proc[i].task \in Tasks /\ proc[i].task = TaskOf[proc[i].ev]
           /\ service.name \in Nat /\ service.live \in BOOLEAN
BY RecOf, IngestAssumption DEF TypeOK, ProcsOK, ProcOK

LEMMA SyncTypes ==
    ASSUME TypeOK, ProcsOK, SyncStart \/ SyncPage \/ SyncTurn \/ SyncFinish
    PROVE  proc' \in [Procs -> ProcType] /\ ProcsOK'
<1> USE DEF Procs, Pcs, FeedPcs, WritePcs, RegistryPcs, EventPcs, RedisPcs
<1>0. ASSUME NEW p \in {"idle", "fetch", "ingest", "finish"}, NEW s \in SUBSET Events
      PROVE  LET q == Rec(p, s, 0, None, None, 0, 0)
             IN  q \in ProcType /\ ProcOK("pull", q)
    <2> DEFINE q == Rec(p, s, 0, None, None, 0, 0)
    <2>1. q \in ProcType
        BY RecType
    <2>2. q.pc = p /\ q.todo = s
        BY RecFields
    <2> HIDE DEF q
    <2>3. ProcOK("pull", q)
        BY <2>2 DEF ProcOK
    <2> QED BY <2>1, <2>3 DEF q
<1>1. CASE SyncStart
    <2>1. proc' = [proc EXCEPT !["pull"] = Rec("fetch", {}, 0, None, None, 0, 0)] /\ mode' = mode
        BY <1>1, SyncStartIs DEF SyncStart
    <2> QED BY <1>0, <2>1, ProcMoves
<1>2. CASE SyncTurn
    <2> DEFINE p == IF sync.last THEN "finish" ELSE "fetch"
    <2>1. p \in {"fetch", "finish"}
        OBVIOUS
    <2>2. proc' = [proc EXCEPT !["pull"] = Rec(p, {}, 0, None, None, 0, 0)] /\ mode' = mode
        BY <1>2, SyncTurnIs DEF SyncTurn
    <2> HIDE DEF p
    <2> QED BY <1>0, <2>1, <2>2, ProcMoves
<1>3. CASE SyncFinish
    <2>1. proc' = [proc EXCEPT !["pull"] = Rec("idle", {}, 0, None, None, 0, 0)] /\ mode' = mode
        BY <1>3, IdleIs DEF SyncFinish, Set
    <2> QED BY <1>0, <2>1, ProcMoves
<1>4. CASE SyncPage
    <2> DEFINE s == NewItems(Page(sync.after), sync.stored)
    <2>1. s \subseteq feed
        BY DEF NewItems, Page, Newest, Older
    <2>2. mode' = mode
        BY <1>4 DEF SyncPage
    <2>3. \/ proc' = [proc EXCEPT !["pull"] = Rec("finish", {}, 0, None, None, 0, 0)]
          \/ proc' = [proc EXCEPT !["pull"] = Rec("ingest", s, 0, None, None, 0, 0)]
        BY <1>4, SyncPageIs
    <2>4. s \subseteq Events
        BY <2>1 DEF TypeOK
    <2> HIDE DEF s
    <2>5. CASE proc' = [proc EXCEPT !["pull"] = Rec("finish", {}, 0, None, None, 0, 0)]
        BY <1>0, <2>2, <2>5, ProcMoves
    <2>6. CASE proc' = [proc EXCEPT !["pull"] = Rec("ingest", s, 0, None, None, 0, 0)]
        BY <1>0, <2>2, <2>4, <2>6, ProcMoves
    <2> QED BY <2>3, <2>5, <2>6
<1> QED BY <1>1, <1>2, <1>3, <1>4

(* The records the other actions write fit their processes.                *)
LEMMA BetweenFits ==
    ASSUME NEW i \in {"pull", "push"}, NEW p \in {"idle", "ingest"}, NEW s \in SUBSET Events
    PROVE  LET q == Rec(p, s, 0, None, None, 0, 0)
           IN  q \in ProcType /\ ProcOK(i, q)
<1> USE DEF Procs, Pcs, FeedPcs, WritePcs, RegistryPcs, EventPcs, RedisPcs
<1> DEFINE q == Rec(p, s, 0, None, None, 0, 0)
<1>1. q \in ProcType
    BY RecType
<1>2. q.pc = p /\ q.todo = s
    BY RecFields
<1> HIDE DEF q
<1>3. ProcOK(i, q)
    BY <1>2 DEF ProcOK
<1> QED BY <1>1, <1>3 DEF q

LEMMA EventFits ==
    ASSUME NEW i \in {"pull", "push"}, NEW p \in EventPcs, NEW s \in SUBSET Events, NEW e \in Events,
           NEW r \in Rows \cup {None}, NEW a \in Nat, NEW n \in Nat,
           p \in RedisPcs => mode = "redis", p = "commit" => mode = "postgres"
    PROVE  LET q == Rec(p, s, e, TaskOf[e], r, a, n)
           IN  q \in ProcType /\ ProcOK(i, q)
<1> USE DEF Procs, Pcs, FeedPcs, WritePcs, RegistryPcs, EventPcs, RedisPcs
<1> DEFINE q == Rec(p, s, e, TaskOf[e], r, a, n)
<1>0. e \in Nat /\ TaskOf[e] \in Tasks
    BY IngestAssumption DEF Events
<1>1. q \in ProcType
    BY <1>0, RecType
<1>2. q.pc = p /\ q.todo = s /\ q.ev = e /\ q.task = TaskOf[e]
    BY RecFields
<1> HIDE DEF q
<1>3. ProcOK(i, q)
    BY <1>2 DEF ProcOK
<1> QED BY <1>1, <1>3 DEF q

LEMMA WriteFits ==
    ASSUME NEW i \in Procs, NEW p \in WritePcs, NEW s, s \subseteq (IF i = "registry" THEN Tasks ELSE Events),
           NEW e \in Nat, NEW t \in Tasks, NEW r \in Rows, NEW a \in Nat, NEW n \in Nat, mode = "redis"
    PROVE  LET q == Rec(p, s, e, t, r, a, n)
           IN  q \in ProcType /\ ProcOK(i, q)
<1> USE DEF Procs, Pcs, FeedPcs, WritePcs, RegistryPcs, EventPcs, RedisPcs
<1> DEFINE q == Rec(p, s, e, t, r, a, n)
<1>1. q \in ProcType
    BY RecType
<1>2. q.pc = p /\ q.todo = s /\ q.ev = e /\ q.task = t /\ q.row = r
    BY RecFields
<1> HIDE DEF q
<1>3. ProcOK(i, q)
    BY <1>2 DEF ProcOK
<1> QED BY <1>1, <1>3 DEF q

LEMMA RegistryFits ==
    ASSUME NEW p \in {"idle", "rename", "delete", "drop"}, NEW s \in SUBSET Tasks, NEW t \in Tasks \cup {None},
           p = "drop" => t \in Tasks, p # "idle" => mode = "redis"
    PROVE  LET q == Rec(p, s, 0, t, None, 0, 0)
           IN  q \in ProcType /\ ProcOK("registry", q)
<1> USE DEF Procs, Pcs, FeedPcs, WritePcs, RegistryPcs, EventPcs, RedisPcs
<1> DEFINE q == Rec(p, s, 0, t, None, 0, 0)
<1>1. q \in ProcType
    BY RecType
<1>2. q.pc = p /\ q.todo = s /\ q.task = t
    BY RecFields
<1> HIDE DEF q
<1>3. ProcOK("registry", q)
    BY <1>2 DEF ProcOK
<1> QED BY <1>1, <1>3 DEF q

LEMMA IngestTypes ==
    ASSUME TypeOK, ProcsOK, NEW i \in {"pull", "push"}, Ingest(i)
    PROVE  /\ proc' \in [Procs -> ProcType] /\ ProcsOK'
           /\ doc' \in [Tasks -> Rows \cup {None}] /\ since' \in [Tasks -> SUBSET Events]
           /\ latest' \in [Tasks -> Nat]
<1> DEFINE o == proc[i]
           Fit == proc' \in [Procs -> ProcType] /\ ProcsOK'
<1>0. i \in Procs /\ mode' = mode
    BY DEF Procs, Ingest, Lookup, PgInsert, PgCommit, ReadLatest, SetNX, Pipe, GetDoc
<1>1. /\ o.todo \in SUBSET Events /\ o.row \in Rows \cup {None} /\ o.at \in Nat /\ o.name \in Nat
      /\ o.pc \in EventPcs => o.ev \in Events /\ o.task \in Tasks /\ o.task = TaskOf[o.ev]
      /\ o.pc \in RedisPcs => mode = "redis"
      /\ service.name \in Nat
    BY <1>0, ProcTypes DEF ProcOK
<1>2. Done(i) => Fit
    <2>1. Rec("ingest", o.todo, 0, None, None, 0, 0) \in ProcType /\ ProcOK(i, Rec("ingest", o.todo, 0, None, None, 0, 0))
        BY <1>1, BetweenFits
    <2> QED BY <1>0, <2>1, DoneIs, ProcMoves
<1>3. ASSUME NEW e \in Events, Lookup(i, e)
      PROVE  Fit
    <2>0. o.todo \ {e} \in SUBSET Events
        BY <1>1
    <2>1. CASE proc' = [proc EXCEPT ![i] = Rec("insert", o.todo \ {e}, e, TaskOf[e], None, 0, 0)]
        <3>1. LET q == Rec("insert", o.todo \ {e}, e, TaskOf[e], None, 0, 0) IN q \in ProcType /\ ProcOK(i, q)
            BY <2>0, EventFits DEF EventPcs, RedisPcs, WritePcs, RegistryPcs
        <3> QED BY <1>0, <2>1, <3>1, ProcMoves
    <2>2. CASE proc' = [proc EXCEPT ![i] = Rec("ingest", o.todo \ {e}, 0, None, None, 0, 0)]
        <3>1. LET q == Rec("ingest", o.todo \ {e}, 0, None, None, 0, 0) IN q \in ProcType /\ ProcOK(i, q)
            BY <2>0, BetweenFits
        <3> QED BY <1>0, <2>2, <3>1, ProcMoves
    <2> QED BY <1>0, <1>3, <2>1, <2>2, LookupIs
<1>4. PgInsert(i) => Fit
    <2> SUFFICES ASSUME PgInsert(i) PROVE Fit
        OBVIOUS
    <2>1. o.pc = "insert" /\ mode = "postgres"
        BY DEF PgInsert
    <2>2. doc[o.task] \in Rows \cup {None} /\ o.task = TaskOf[o.ev] /\ o.ev \in Events
        BY <1>1, <2>1 DEF TypeOK, EventPcs
    <2> DEFINE q == Rec("commit", o.todo, o.ev, TaskOf[o.ev], doc[o.task], o.at, service.name)
    <2>3. q \in ProcType /\ ProcOK(i, q)
        BY <1>1, <2>1, <2>2, EventFits DEF EventPcs, RedisPcs, WritePcs, RegistryPcs
    <2>4. Done(i) \/ proc' = [proc EXCEPT ![i] = q]
        BY <1>0, <2>2, PgInsertIs DEF PgInsert
    <2> HIDE DEF q
    <2> QED BY <1>0, <1>2, <2>3, <2>4, ProcMoves
<1>5. ReadLatest(i) => Fit
    <2> SUFFICES ASSUME ReadLatest(i) PROVE Fit
        OBVIOUS
    <2>1. o.pc = "insert" /\ mode = "redis"
        BY DEF ReadLatest
    <2>2. latest[o.task] \in Nat /\ o.task = TaskOf[o.ev] /\ o.ev \in Events
        BY <1>1, <2>1 DEF TypeOK, EventPcs
    <2> DEFINE q == Rec("setnx", o.todo, o.ev, TaskOf[o.ev], o.row, latest[o.task], o.name)
    <2>3. q \in ProcType /\ ProcOK(i, q)
        BY <1>1, <2>1, <2>2, EventFits DEF EventPcs, RedisPcs, WritePcs, RegistryPcs
    <2>4. proc' = [proc EXCEPT ![i] = q]
        BY <1>0, <2>2, ReadLatestIs
    <2> HIDE DEF q
    <2> QED BY <1>0, <2>3, <2>4, ProcMoves
<1>6. SetNX(i) => Fit
    <2> SUFFICES ASSUME SetNX(i) PROVE Fit
        OBVIOUS
    <2>1. o.pc = "setnx" /\ mode = "redis" /\ o.task = TaskOf[o.ev] /\ o.ev \in Events
        BY <1>1 DEF SetNX, EventPcs, RedisPcs
    <2> DEFINE q == Rec("pipe", o.todo, o.ev, TaskOf[o.ev], o.row, o.at, o.name)
    <2>3. q \in ProcType /\ ProcOK(i, q)
        BY <1>1, <2>1, EventFits DEF EventPcs, RedisPcs, WritePcs, RegistryPcs
    <2>4. Done(i) \/ proc' = [proc EXCEPT ![i] = q]
        BY <1>0, <2>1, SetNXIs DEF SetNX
    <2> HIDE DEF q
    <2> QED BY <1>0, <1>2, <2>3, <2>4, ProcMoves
<1>7. Pipe(i) => Fit
    <2> SUFFICES ASSUME Pipe(i) PROVE Fit
        OBVIOUS
    <2>1. o.pc = "pipe" /\ mode = "redis" /\ o.task = TaskOf[o.ev] /\ o.ev \in Events
        BY <1>1 DEF Pipe, EventPcs, RedisPcs
    <2> DEFINE q == Rec("getdoc", o.todo, o.ev, TaskOf[o.ev], o.row, o.at, service.name)
    <2>3. q \in ProcType /\ ProcOK(i, q)
        BY <1>1, <2>1, EventFits DEF EventPcs, RedisPcs, WritePcs, RegistryPcs
    <2>4. proc' = [proc EXCEPT ![i] = q]
        BY <1>0, <2>1, PipeIs
    <2> HIDE DEF q
    <2> QED BY <1>0, <2>3, <2>4, ProcMoves
<1>8. GetDoc(i) => Fit
    <2> SUFFICES ASSUME GetDoc(i) PROVE Fit
        OBVIOUS
    <2>1. o.pc = "getdoc" /\ mode = "redis" /\ o.task \in Tasks /\ o.ev \in Events /\ o.ev \in Nat
        BY <1>0, <1>1, ProcTypes DEF GetDoc, EventPcs, RedisPcs
    <2> DEFINE r == Merged(doc[o.task], o.ev, o.name)
    <2>2. r \in Rows
        BY <1>1, <2>1, MergedType DEF TypeOK
    <2> HIDE DEF r
    <2> DEFINE q == Rec("unindex", o.todo, o.ev, o.task, r, o.at, o.name)
    <2>3. q \in ProcType /\ ProcOK(i, q)
        BY <1>0, <1>1, <2>1, <2>2, WriteFits DEF WritePcs
    <2>4. proc' = [proc EXCEPT ![i] = q]
        BY <1>0, GetDocIs DEF r
    <2> HIDE DEF q
    <2> QED BY <1>0, <2>3, <2>4, ProcMoves
<1>9. PgCommit(i) => Fit
    BY <1>2 DEF PgCommit
<1>10. Fit
    BY <1>3, <1>4, <1>5, <1>6, <1>7, <1>8, <1>9 DEF Ingest
<1>11. doc' \in [Tasks -> Rows \cup {None}] /\ since' \in [Tasks -> SUBSET Events]
    <2>1. CASE PgCommit(i)
        <3>1. o.ev \in Events /\ o.task \in Tasks
            BY <1>1, <2>1 DEF PgCommit, InTransaction, EventPcs
        <3> DEFINE m == Merged(o.row, o.ev, o.name)
        <3>2. m \in Rows
            BY <1>1, <3>1, MergedType
        <3> HIDE DEF m
        <3>3. Projected(o.task, m) \in Rows
            <4>1. doc[o.task] # None => doc[o.task].name \in Nat
                BY <3>1 DEF TypeOK, Rows
            <4> QED BY <3>2, <4>1, Renames DEF Projected
        <3>4. /\ doc' = [doc EXCEPT ![o.task] = Projected(o.task, m)]
              /\ since' = [since EXCEPT ![o.task] = @ \cup {o.ev}]
            BY <2>1 DEF PgCommit, m
        <3> QED BY <3>1, <3>3, <3>4 DEF TypeOK
    <2>2. CASE ~PgCommit(i)
        <3>1. UNCHANGED <<doc, since>>
            BY <2>2 DEF Ingest, Lookup, PgInsert, ReadLatest, SetNX, Pipe, GetDoc
        <3> QED BY <3>1 DEF TypeOK
    <2> QED BY <2>1, <2>2
<1>12. latest' \in [Tasks -> Nat]
    <2>1. CASE Pipe(i)
        <3>1. o.ev \in Events /\ o.task \in Tasks /\ Time[o.ev] \in Nat /\ latest[o.task] \in Nat
            BY <1>1, <2>1, IngestAssumption DEF Pipe, EventPcs, TypeOK
        <3>2. latest' = [latest EXCEPT ![o.task] = IF Time[o.ev] > o.at THEN Time[o.ev] ELSE @]
            BY <2>1 DEF Pipe
        <3> QED BY <3>1, <3>2 DEF TypeOK
    <2>2. CASE ~Pipe(i)
        <3>1. UNCHANGED latest
            BY <2>2 DEF Ingest, Lookup, PgInsert, PgCommit, ReadLatest, SetNX, GetDoc, redisVars
        <3> QED BY <3>1 DEF TypeOK
    <2> QED BY <2>1, <2>2
<1> QED BY <1>10, <1>11, <1>12

LEMMA WriteTypes ==
    ASSUME TypeOK, ProcsOK, NEW i \in Procs, Unindex(i) \/ SetDoc(i) \/ AddIndex(i) \/ Abort(i)
    PROVE  /\ proc' \in [Procs -> ProcType] /\ ProcsOK'
           /\ doc' \in [Tasks -> Rows \cup {None}] /\ index' \in [Tasks -> SUBSET Statuses]
           /\ torn' \subseteq Tasks \cup {None}
<1> DEFINE o == proc[i]
           Fit == proc' \in [Procs -> ProcType] /\ ProcsOK'
           own == IF i = "registry" THEN Tasks ELSE Events
<1>0. mode' = mode /\ (i # "registry" => i \in {"pull", "push"})
    BY DEF Procs, Unindex, SetDoc, AddIndex, Abort
<1>1. /\ o.todo \subseteq own /\ o.ev \in Nat /\ o.at \in Nat /\ o.name \in Nat
      /\ o.pc \in WritePcs => o.task \in Tasks /\ o.row \in Rows /\ mode = "redis"
      /\ o.pc = "drop" => o.task \in Tasks
      /\ o.task \in Tasks \cup {None}
    BY ProcTypes DEF ProcOK, RedisPcs
<1>2. Unindex(i) \/ SetDoc(i) => Fit
    <2> SUFFICES ASSUME Unindex(i) \/ SetDoc(i) PROVE Fit
        OBVIOUS
    <2>1. o.pc \in WritePcs
        BY DEF Unindex, SetDoc, WritePcs
    <2> DEFINE q(p) == Rec(p, o.todo, o.ev, o.task, o.row, o.at, o.name)
    <2>2. \A p \in {"setdoc", "index"} : q(p) \in ProcType /\ ProcOK(i, q(p))
        BY <1>1, <2>1, WriteFits DEF WritePcs
    <2>3. \E p \in {"setdoc", "index"} : proc' = [proc EXCEPT ![i] = q(p)]
        BY UnindexIs, SetDocIs
    <2> HIDE DEF q
    <2> QED BY <1>0, <2>2, <2>3, ProcMoves
<1>3. AddIndex(i) => Fit
    <2> SUFFICES ASSUME AddIndex(i) PROVE Fit
        OBVIOUS
    <2>1. mode = "redis"
        BY <1>1 DEF AddIndex, WritePcs
    <2>2. CASE i = "registry"
        <3> DEFINE q == Rec("rename", o.todo, 0, None, None, 0, 0)
        <3>1. q \in ProcType /\ ProcOK(i, q)
            BY <1>1, <2>1, <2>2, RegistryFits
        <3>2. proc' = [proc EXCEPT ![i] = q]
            BY <2>2, AddIndexIs
        <3> HIDE DEF q
        <3> QED BY <1>0, <3>1, <3>2, ProcMoves
    <2>3. CASE i # "registry"
        <3> DEFINE q == Rec("ingest", o.todo, 0, None, None, 0, 0)
        <3>1. q \in ProcType /\ ProcOK(i, q)
            BY <1>0, <1>1, <2>3, BetweenFits
        <3>2. proc' = [proc EXCEPT ![i] = q]
            BY <2>3, AddIndexIs
        <3> HIDE DEF q
        <3> QED BY <1>0, <3>1, <3>2, ProcMoves
    <2> QED BY <2>2, <2>3
<1>4. Abort(i) => Fit
    <2>1. Idle \in ProcType /\ ProcOK(i, Idle)
        BY <1>0, IdleIs, BetweenFits, RegistryFits
    <2>2. Abort(i) => proc' = [proc EXCEPT ![i] = Idle]
        BY DEF Abort, Set
    <2> QED BY <1>0, <2>1, <2>2, ProcMoves
<1>5. doc' \in [Tasks -> Rows \cup {None}]
    <2>1. CASE SetDoc(i)
        <3>1. o.task \in Tasks /\ o.row \in Rows /\ doc' = [doc EXCEPT ![o.task] = o.row]
            BY <1>1, <2>1 DEF SetDoc, WritePcs
        <3> QED BY <3>1 DEF TypeOK
    <2>2. CASE ~SetDoc(i)
        <3>1. doc' = doc
            BY <2>2 DEF Unindex, AddIndex, Abort
        <3> QED BY <3>1 DEF TypeOK
    <2> QED BY <2>1, <2>2
<1>6. index' \in [Tasks -> SUBSET Statuses]
    <2>1. CASE Unindex(i)
        <3>1. index' = [index EXCEPT ![o.task] = IF doc[o.task] = None THEN @ ELSE @ \ {doc[o.task].status}]
            BY <2>1 DEF Unindex
        <3> QED BY <3>1 DEF TypeOK
    <2>2. CASE AddIndex(i)
        <3>1. index' = [index EXCEPT ![o.task] = @ \cup {o.row.status}] /\ o.row \in Rows
            BY <1>1, <2>2 DEF AddIndex, WritePcs
        <3>2. o.row.status \in Statuses
            BY <3>1 DEF Rows, Statuses
        <3> QED BY <3>1, <3>2 DEF TypeOK
    <2>3. CASE SetDoc(i) \/ Abort(i)
        <3>1. index' = index
            BY <2>3 DEF SetDoc, Abort, redisVars
        <3> QED BY <3>1 DEF TypeOK
    <2> QED BY <2>1, <2>2, <2>3
<1>7. torn' \subseteq Tasks \cup {None}
    BY <1>1 DEF Unindex, SetDoc, AddIndex, Abort, TypeOK
<1> QED BY <1>2, <1>3, <1>4, <1>5, <1>6, <1>7

Registry ==
    \/ Rename \/ Delete \/ Create \/ RegistryDone \/ DeleteDoc
    \/ \E t \in Tasks : RenameNext(t) \/ DeleteNext(t) \/ Prune(t)

LEMMA RegistryTypes ==
    ASSUME TypeOK, ProcsOK, Registry
    PROVE  /\ proc' \in [Procs -> ProcType] /\ ProcsOK'
           /\ doc' \in [Tasks -> Rows \cup {None}] /\ index' \in [Tasks -> SUBSET Statuses]
           /\ since' \in [Tasks -> SUBSET Events] /\ service' \in [live : BOOLEAN, name : Nat]
<1> DEFINE o == proc["registry"]
           Fit == proc' \in [Procs -> ProcType] /\ ProcsOK'
<1> USE DEF Registry
<1>0. mode' = mode /\ "registry" \in Procs /\ mode \in {"postgres", "redis"}
    BY IngestAssumption DEF Procs, TypeOK, Rename, Delete, Create, RegistryDone, DeleteDoc, RenameNext, DeleteNext, Prune
<1>1. /\ o.todo \subseteq Tasks /\ (o.pc \in RegistryPcs => mode = "redis")
      /\ o.pc = "drop" => o.task \in Tasks
      /\ service.name \in Nat /\ service.live \in BOOLEAN
    BY <1>0, ProcTypes DEF ProcOK, RedisPcs
<1>2. UNCHANGED proc => Fit
    BY <1>0 DEF TypeOK, ProcsOK, ProcOK
<1>3. ASSUME NEW p \in {"idle", "rename", "delete", "drop"}, NEW s \in SUBSET Tasks, NEW t \in Tasks \cup {None},
             p = "drop" => t \in Tasks, p # "idle" => mode = "redis",
             proc' = [proc EXCEPT !["registry"] = Rec(p, s, 0, t, None, 0, 0)]
      PROVE  Fit
    <2> DEFINE q == Rec(p, s, 0, t, None, 0, 0)
    <2>1. q \in ProcType /\ ProcOK("registry", q)
        BY <1>3, RegistryFits
    <2> HIDE DEF q
    <2> QED BY <1>0, <1>3, <2>1, ProcMoves DEF q
<1>4. Rename \/ Create => Fit
    <2>1. Documented \in SUBSET Tasks
        BY DEF Documented
    <2> QED BY <1>0, <1>2, <1>3, <2>1, RenameIs, CreateIs
<1>5. Delete => Fit
    <2>1. Documented \in SUBSET Tasks
        BY DEF Documented
    <2> QED BY <1>0, <1>2, <1>3, <2>1, DeleteIs
<1>6. ASSUME NEW t \in Tasks, Prune(t) PROVE Fit
    BY <1>0, <1>2, <1>3, <1>6, PruneIs
<1>7. ASSUME NEW t \in Tasks, DeleteNext(t) PROVE Fit
    <2>1. mode = "redis" /\ o.todo \ {t} \in SUBSET Tasks
        BY <1>1, <1>7 DEF DeleteNext, RegistryPcs
    <2> QED BY <1>3, <1>7, <2>1, DeleteNextIs
<1>8. DeleteDoc => Fit
    <2>1. DeleteDoc => mode = "redis"
        BY <1>1 DEF DeleteDoc, RegistryPcs
    <2> QED BY <1>1, <1>3, <2>1, DeleteDocIs
<1>9. RegistryDone => Fit
    <2>1. RegistryDone => proc' = [proc EXCEPT !["registry"] = Rec("idle", {}, 0, None, None, 0, 0)]
        BY IdleIs DEF RegistryDone, Set
    <2> QED BY <1>3, <2>1
<1>10. ASSUME NEW t \in Tasks, RenameNext(t) PROVE Fit
    <2>1. mode = "redis" /\ o.todo \ {t} \in SUBSET Tasks
        BY <1>1, <1>10 DEF RenameNext, RegistryPcs
    <2>2. CASE doc[t] = None
        BY <1>3, <1>10, <2>1, <2>2, RenameNextIs
    <2>3. CASE doc[t] # None
        <3> DEFINE r == [doc[t] EXCEPT !.name = service.name]
                   q == Rec("unindex", o.todo \ {t}, 0, t, r, 0, 0)
        <3>1. doc[t] \in Rows
            BY <2>3 DEF TypeOK
        <3>2. r \in Rows
            BY <1>1, <3>1, Renames
        <3>3. q \in ProcType /\ ProcOK("registry", q)
            <4> HIDE DEF r
            <4> QED BY <1>0, <2>1, <3>2, WriteFits DEF WritePcs
        <3>4. proc' = [proc EXCEPT !["registry"] = q]
            BY <1>10, <2>3, RenameNextIs
        <3> HIDE DEF q
        <3> QED BY <1>0, <3>3, <3>4, ProcMoves
    <2> QED BY <2>2, <2>3
<1>11. Fit
    BY <1>4, <1>5, <1>6, <1>7, <1>8, <1>9, <1>10
<1>12. service' \in [live : BOOLEAN, name : Nat]
    <2>1. service \in [live : BOOLEAN, name : Nat]
        BY DEF TypeOK
    <2>2. \/ service' = service \/ service' = [service EXCEPT !.name = @ + 1]
          \/ service' = [service EXCEPT !.live = FALSE] \/ service' = [live |-> TRUE, name |-> service.name + 1]
        BY DEF Rename, Delete, Create, RegistryDone, DeleteDoc, RenameNext, DeleteNext, Prune
    <2>3. service.name \in Nat /\ service.name + 1 \in Nat /\ FALSE \in BOOLEAN /\ TRUE \in BOOLEAN
        BY <1>1
    <2>4. [service EXCEPT !.name = @ + 1] \in [live : BOOLEAN, name : Nat]
        BY <2>1, <2>3
    <2>5. [service EXCEPT !.live = FALSE] \in [live : BOOLEAN, name : Nat]
        BY <2>1, <2>3
    <2>6. [live |-> TRUE, name |-> service.name + 1] \in [live : BOOLEAN, name : Nat]
        BY <2>3
    <2> QED BY <2>1, <2>2, <2>4, <2>5, <2>6
<1>13. doc' \in [Tasks -> Rows \cup {None}] /\ since' \in [Tasks -> SUBSET Events]
    <2>0. doc \in [Tasks -> Rows \cup {None}] /\ since \in [Tasks -> SUBSET Events]
        BY DEF TypeOK
    <2>1. CASE Rename \/ Create
        <3>1. service'.name \in Nat
            BY <1>12
        <3>2. doc' = Renamed(service'.name) \/ doc' = doc
            BY <2>1 DEF Rename, Create
        <3>3. since' = since
            BY <2>1 DEF Rename, Create
        <3> QED BY <2>0, <3>1, <3>2, <3>3, RenamedType
    <2>2. CASE Delete
        BY <2>0, <2>2 DEF Delete
    <2>3. CASE DeleteDoc
        BY <2>0, <2>3 DEF DeleteDoc
    <2>4. CASE \E t \in Tasks : Prune(t)
        BY <2>0, <2>4 DEF Prune
    <2>5. CASE RegistryDone \/ \E t \in Tasks : RenameNext(t) \/ DeleteNext(t)
        <3>1. UNCHANGED <<doc, since>>
            BY <2>5 DEF RegistryDone, RenameNext, DeleteNext
        <3> QED BY <2>0, <3>1
    <2> QED BY <2>1, <2>2, <2>3, <2>4, <2>5
<1>14. index' \in [Tasks -> SUBSET Statuses]
    <2>1. \/ index' = index
          \/ \E t \in Tasks : index' = [index EXCEPT ![t] = IF doc[t] = None THEN @ ELSE @ \ {doc[t].status}]
        BY DEF Rename, Delete, Create, RegistryDone, DeleteDoc, RenameNext, DeleteNext, Prune, redisVars
    <2> QED BY <2>1 DEF TypeOK
<1> QED BY <1>11, <1>12, <1>13, <1>14

-----------------------------------------------------------------------------
(* The feed keeps the newest numbers; a page is an interval of them.       *)
LEMMA Bounds ==
    /\ MaxEvents \in Nat /\ FeedMax \in Nat /\ PageLimit \in Nat /\ MaxPages \in Nat
    /\ FeedMax >= 1 /\ PageLimit >= 1 /\ MaxPages >= 1 /\ FeedMax <= PageLimit * MaxPages
<1>1. {FeedMax, PageLimit, MaxPages} \subseteq Nat \ {0}
    BY IngestAssumption
<1>2. FeedMax \in Nat \ {0} /\ PageLimit \in Nat \ {0} /\ MaxPages \in Nat \ {0}
    BY <1>1
<1>3. \A n \in Nat \ {0} : n >= 1
    BY SMT
<1> QED BY <1>2, <1>3, IngestAssumption

LEMMA FeedKept ==
    ASSUME TypeOK, FeedShape, Next
    PROVE  /\ FeedShape' /\ feed' \subseteq Events /\ emitted' \in 0 .. MaxEvents /\ emitted <= emitted'
           /\ \A e \in feed' : e <= emitted => e \in feed
<1>0. emitted \in Nat /\ emitted <= MaxEvents /\ FeedMax \in Nat /\ FeedMax >= 1 /\ MaxEvents \in Nat
    BY IngestAssumption DEF TypeOK
<1>1. CASE FeedAdd
    <2> DEFINE m == emitted + 1
               lo == IF emitted >= FeedMax THEN emitted + 1 - FeedMax ELSE 1
    <2>1. emitted' = m /\ m <= MaxEvents /\ m \in Nat /\ feed' = Newest(FeedMax, feed \cup {m})
        BY <1>0, <1>1 DEF FeedAdd
    <2>2. feed \cup {m} = lo .. m /\ lo \in Nat
        BY <1>0 DEF FeedShape
    <2>3. Newest(FeedMax, lo .. m) = {e \in lo .. m : e + FeedMax > m}
        BY <1>0, <2>1, <2>2, NewestOfInterval
    <2>4. {e \in lo .. m : e + FeedMax > m} = {e \in 1 .. m : e + FeedMax > m}
        BY <1>0
    <2>5. feed' = {e \in 1 .. m : e + FeedMax > m}
        BY <2>1, <2>2, <2>3, <2>4
    <2>6. FeedShape'
        BY <2>1, <2>5 DEF FeedShape
    <2>7. feed' \subseteq Events /\ emitted' \in 0 .. MaxEvents
        BY <1>0, <2>1, <2>5 DEF Events
    <2>8. ASSUME NEW e \in feed', e <= emitted PROVE e \in feed
        BY <1>0, <2>5, <2>8 DEF FeedShape
    <2> QED BY <1>0, <2>1, <2>6, <2>7, <2>8
<1>2. CASE UNCHANGED <<feed, emitted>>
    <2>1. feed \subseteq Events /\ emitted \in 0 .. MaxEvents
        BY DEF TypeOK
    <2>2. FeedShape'
        BY <1>2 DEF FeedShape
    <2> QED BY <1>0, <1>2, <2>1, <2>2
<1>3. FeedAdd \/ UNCHANGED <<feed, emitted>>
    BY DEF Next, Ingest, feedVars, Relay, PushStart, SyncStart, SyncPage, SyncTurn, SyncFinish,
           PushEnd, Lookup, PgInsert, PgCommit, ReadLatest, SetNX, Pipe, GetDoc, Unindex, SetDoc,
           AddIndex, Abort, Rename, Delete, Create, RegistryDone, DeleteDoc, RenameNext, DeleteNext, Prune
<1> QED BY <1>1, <1>2, <1>3

LEMMA PageIs ==
    ASSUME TypeOK, FeedShape, NEW after \in Nat, NEW top, top = IF after \in feed THEN after - 1 ELSE emitted
    PROVE  /\ top \in Nat /\ top <= emitted
           /\ Older(after) = {e \in feed : e <= top}
           /\ Page(after) = {e \in feed : e <= top /\ e + PageLimit > top}
           /\ Page(after) # {} => top \in Page(after) /\ Max(Page(after)) = top
           /\ \A e \in feed : e <= top => Page(after) # {}
           /\ \/ /\ NextCursor(after) = 0
                 /\ Page(after) = Older(after)
              \/ /\ NextCursor(after) = top + 1 - PageLimit
                 /\ top + 1 - PageLimit \in Nat /\ top + 1 - PageLimit >= 1
<1>0. /\ emitted \in Nat /\ FeedMax \in Nat /\ FeedMax >= 1 /\ PageLimit \in Nat /\ PageLimit >= 1
      /\ feed \subseteq Nat
    BY Bounds DEF TypeOK, Events
<1> DEFINE lo == IF emitted >= FeedMax THEN emitted + 1 - FeedMax ELSE 1
<1>1. feed = lo .. emitted /\ lo \in Nat /\ lo >= 1
    <2>1. lo \in Nat /\ lo >= 1
        BY <1>0
    <2>2. \A e \in 1 .. emitted : e + FeedMax > emitted <=> lo <= e
        BY <1>0
    <2>3. {e \in 1 .. emitted : e + FeedMax > emitted} = lo .. emitted
        BY <1>0, <2>1, <2>2
    <2> QED BY <2>1, <2>3 DEF FeedShape
<1> HIDE DEF lo
<1>2. top \in Nat /\ top <= emitted
    BY <1>0, <1>1
<1>3. Older(after) = lo .. top
    BY <1>0, <1>1 DEF Older
<1>4. lo .. top = {e \in feed : e <= top}
    BY <1>0, <1>1, <1>2
<1>5. Page(after) = {e \in lo .. top : e + PageLimit > top}
    BY <1>0, <1>1, <1>2, <1>3, NewestOfInterval DEF Page
<1>6. Page(after) = {e \in feed : e <= top /\ e + PageLimit > top}
    BY <1>4, <1>5
<1>7. ASSUME Page(after) # {} PROVE top \in Page(after) /\ Max(Page(after)) = top
    <2>1. PICK e \in Page(after) : TRUE
        BY <1>7
    <2>2. top \in lo .. top /\ top + PageLimit > top
        BY <1>0, <1>1, <1>2, <1>5, <2>1
    <2>3. top \in Page(after) /\ Page(after) \subseteq Nat /\ \A y \in Page(after) : y <= top
        BY <1>1, <1>2, <1>5, <2>2
    <2> QED BY <2>3, MaxOf
<1>8. ASSUME NEW e \in feed, e <= top PROVE Page(after) # {}
    <2>1. top \in lo .. top /\ top + PageLimit > top
        BY <1>0, <1>1, <1>2, <1>8
    <2> QED BY <1>5, <2>1
<1>9. CASE lo + PageLimit <= top
    <2> DEFINE m == top + 1 - PageLimit
    <2>1. m \in Nat /\ m >= 1 /\ m \in lo .. top /\ m + PageLimit > top
        BY <1>0, <1>1, <1>2, <1>9
    <2>2. m \in Page(after) /\ Page(after) \subseteq Nat /\ \A y \in Page(after) : m <= y
        BY <1>0, <1>1, <1>2, <1>5, <2>1
    <2>3. Min(Page(after)) = m
        <3> HIDE DEF m
        <3> QED BY <2>2, MinOf
    <2>4. lo \in Older(after) /\ lo \notin Page(after)
        BY <1>0, <1>1, <1>2, <1>3, <1>5, <1>9
    <2>5. NextCursor(after) = m
        BY <2>3, <2>4 DEF NextCursor
    <2> QED BY <1>2, <1>3, <1>4, <1>6, <1>7, <1>8, <2>1, <2>5
<1>10. CASE ~(lo + PageLimit <= top)
    <2>1. Page(after) = Older(after)
        BY <1>0, <1>1, <1>2, <1>3, <1>5, <1>10
    <2>2. NextCursor(after) = 0
        BY <2>1 DEF NextCursor
    <2> QED BY <1>2, <1>3, <1>4, <1>6, <1>7, <1>8, <2>1, <2>2
<1> QED BY <1>9, <1>10

LEMMA SyncFields ==
    ASSUME TypeOK, FeedShape, SyncPage, Page(sync.after) # {}
    PROVE  LET items == Page(sync.after)
           IN  /\ sync'.stored = sync.stored /\ sync'.newest = (IF sync.pages = 0 THEN Max(items) ELSE sync.newest)
               /\ sync'.after = NextCursor(sync.after) /\ sync'.pages = sync.pages + 1
               /\ sync'.last = (\/ sync.stored \in items \/ NextCursor(sync.after) = 0 \/ sync.pages = MaxPages - 1)
<1> DEFINE items == Page(sync.after)
           nw == IF sync.pages = 0 THEN Max(items) ELSE sync.newest
           la == \/ sync.stored \in items \/ NextCursor(sync.after) = 0 \/ sync.pages = MaxPages - 1
<1>1. sync' = [stored |-> sync.stored, newest |-> nw, after |-> NextCursor(sync.after), last |-> la, pages |-> sync.pages + 1]
    BY DEF SyncPage
<1>2. /\ sync'.stored = sync.stored /\ sync'.newest = nw
      /\ sync'.after = NextCursor(sync.after) /\ sync'.pages = sync.pages + 1 /\ sync'.last = la
    <2> HIDE DEF nw, la
    <2> QED BY <1>1, Zenon
<1> QED BY <1>2

LEMMA SyncType ==
    ASSUME TypeOK, FeedShape, Next
    PROVE  sync' \in [stored : Nat, newest : Nat, after : Nat, last : BOOLEAN, pages : Nat] /\ cursor' \in Nat
<1> DEFINE S == [stored : Nat, newest : Nat, after : Nat, last : BOOLEAN, pages : Nat]
<1>0. sync \in S /\ cursor \in Nat /\ NoSync \in S
    BY DEF TypeOK, NoSync
<1>1. CASE SyncStart
    <2>1. sync' = [NoSync EXCEPT !.stored = cursor] /\ cursor' = cursor
        BY <1>1 DEF SyncStart
    <2> QED BY <1>0, <2>1
<1>2. CASE SyncPage
    <2>0. cursor' = cursor
        BY <1>2 DEF SyncPage
    <2>1. CASE Page(sync.after) = {}
        BY <1>0, <1>2, <2>0, <2>1 DEF SyncPage
    <2>2. CASE Page(sync.after) # {}
        <3> DEFINE items == Page(sync.after)
                   top == IF sync.after \in feed THEN sync.after - 1 ELSE emitted
                   nx == NextCursor(sync.after)
                   nw == IF sync.pages = 0 THEN Max(items) ELSE sync.newest
                   la == \/ sync.stored \in items \/ nx = 0 \/ sync.pages = MaxPages - 1
        <3>1. sync.after \in Nat /\ sync.newest \in Nat /\ sync.stored \in Nat /\ sync.pages \in Nat
            BY <1>0
        <3>2. nx \in Nat /\ Max(items) \in Nat
            BY <2>2, <3>1, PageIs
        <3>3. nw \in Nat /\ la \in BOOLEAN /\ sync.pages + 1 \in Nat
            BY <3>1, <3>2
        <3>4. sync' = [stored |-> sync.stored, newest |-> nw, after |-> nx, last |-> la, pages |-> sync.pages + 1]
            BY <1>2, <2>2 DEF SyncPage
        <3> HIDE DEF nx, nw, la
        <3>5. sync' \in S
            BY <3>1, <3>2, <3>3, <3>4
        <3> QED BY <1>0, <2>0, <3>5
    <2> QED BY <2>1, <2>2
<1>3. CASE SyncFinish
    BY <1>0, <1>3 DEF SyncFinish
<1>4. CASE ~SyncStart /\ ~SyncPage /\ ~SyncFinish
    <2>1. (sync' = sync \/ sync' = NoSync) /\ cursor' = cursor
        BY <1>4 DEF Next, Ingest, feedVars, FeedAdd, Relay, PushStart, SyncTurn,
           PushEnd, Lookup, PgInsert, PgCommit, ReadLatest, SetNX, Pipe, GetDoc, Unindex, SetDoc,
           AddIndex, Abort, Rename, Delete, Create, RegistryDone, DeleteDoc, RenameNext, DeleteNext, Prune
    <2> QED BY <1>0, <2>1
<1> QED BY <1>1, <1>2, <1>3, <1>4

LEMMA TypesKept ==
    ASSUME TypeOK, ProcsOK, FeedShape, Next
    PROVE  TypeOK' /\ ProcsOK' /\ FeedShape'
<1> DEFINE Procs1 == proc' \in [Procs -> ProcType] /\ ProcsOK'
           Docs1 == doc' \in [Tasks -> Rows \cup {None}]
<1>0. /\ feed' \subseteq Events /\ emitted' \in 0 .. MaxEvents /\ cursor' \in Nat /\ FeedShape'
      /\ sync' \in [stored : Nat, newest : Nat, after : Nat, last : BOOLEAN, pages : Nat]
    BY FeedKept, SyncType
<1>1. proc' = proc /\ mode' = mode => Procs1
    BY DEF TypeOK, ProcsOK, ProcOK
<1>2. CASE FeedAdd \/ Relay
    BY <1>0, <1>1, <1>2 DEF FeedAdd, Relay, TypeOK, redisVars, feedVars
<1>3. CASE SyncStart \/ SyncPage \/ SyncTurn \/ SyncFinish
    <2>1. Procs1
        BY <1>3, SyncTypes
    <2>2. UNCHANGED <<mode, service, doc, index, since, latest, torn>>
        BY <1>3 DEF SyncStart, SyncPage, SyncTurn, SyncFinish, redisVars
    <2> QED BY <1>0, <2>1, <2>2 DEF TypeOK
<1>4. CASE PushEnd \/ \E e \in Events : PushStart(e)
    <2>0. "push" \in Procs /\ UNCHANGED <<mode, service, doc, index, since, latest, torn>>
        BY <1>4 DEF PushEnd, PushStart, redisVars, Procs
    <2>1. \E p \in {"idle", "ingest"}, s \in SUBSET Events :
            proc' = [proc EXCEPT !["push"] = Rec(p, s, 0, None, None, 0, 0)]
        <3>1. CASE PushEnd
            <4>1. proc' = [proc EXCEPT !["push"] = Rec("idle", {}, 0, None, None, 0, 0)]
                BY <3>1, IdleIs DEF PushEnd, Set
            <4> QED BY <4>1
        <3>2. CASE \E e \in Events : PushStart(e)
            <4>1. PICK e \in Events : proc' = [proc EXCEPT !["push"] = Rec("ingest", {e}, 0, None, None, 0, 0)]
                BY <3>2, PushStartIs
            <4>2. {e} \in SUBSET Events
                OBVIOUS
            <4> QED BY <4>1, <4>2
        <3> QED BY <1>4, <3>1, <3>2
    <2>2. Procs1
        <3>1. PICK p \in {"idle", "ingest"}, s \in SUBSET Events :
                proc' = [proc EXCEPT !["push"] = Rec(p, s, 0, None, None, 0, 0)]
            BY <2>1
        <3>2. LET q == Rec(p, s, 0, None, None, 0, 0) IN q \in ProcType /\ ProcOK("push", q)
            BY BetweenFits
        <3> QED BY <2>0, <3>1, <3>2, ProcMoves
    <2> QED BY <1>0, <2>0, <2>2 DEF TypeOK
<1>5. CASE \E i \in {"pull", "push"} : Ingest(i)
    <2>1. Procs1 /\ Docs1 /\ since' \in [Tasks -> SUBSET Events] /\ latest' \in [Tasks -> Nat]
        BY <1>5, IngestTypes
    <2>2. UNCHANGED <<mode, service, index, torn>>
        BY <1>5 DEF Ingest, Lookup, PgInsert, PgCommit, ReadLatest, SetNX, Pipe, GetDoc, redisVars
    <2> QED BY <1>0, <2>1, <2>2 DEF TypeOK
<1>6. CASE \E i \in Procs : Unindex(i) \/ SetDoc(i) \/ AddIndex(i) \/ Abort(i)
    <2>1. Procs1 /\ Docs1 /\ index' \in [Tasks -> SUBSET Statuses] /\ torn' \subseteq Tasks \cup {None}
        BY <1>6, WriteTypes
    <2>2. UNCHANGED <<mode, service, since, latest>>
        BY <1>6 DEF Unindex, SetDoc, AddIndex, Abort, redisVars
    <2> QED BY <1>0, <2>1, <2>2 DEF TypeOK
<1>7. CASE Registry
    <2>1. /\ Procs1 /\ Docs1 /\ index' \in [Tasks -> SUBSET Statuses]
          /\ since' \in [Tasks -> SUBSET Events] /\ service' \in [live : BOOLEAN, name : Nat]
        BY <1>7, RegistryTypes
    <2>2. UNCHANGED <<mode, latest, torn>>
        BY <1>7 DEF Registry, Rename, Delete, Create, RegistryDone, DeleteDoc, RenameNext, DeleteNext, Prune, redisVars
    <2> QED BY <1>0, <2>1, <2>2 DEF TypeOK
<1> QED BY <1>2, <1>3, <1>4, <1>5, <1>6, <1>7 DEF Next, Registry

-----------------------------------------------------------------------------
(* What is covered stays covered: a pipeline ends by storing its event or  *)
(* by losing it.                                                           *)
Kept ==
    /\ stored \subseteq stored' /\ lost \subseteq lost'
    /\ \A i \in Procs : proc[i].pc = "pipe" => proc'[i] = proc[i] \/ proc[i].ev \in stored' \cup lost'

LEMMA MovesKeep ==
    ASSUME TypeOK, NEW i \in Procs, NEW q, proc' = [proc EXCEPT ![i] = q],
           proc[i].pc = "pipe" => proc[i].ev \in stored' \cup lost',
           stored \subseteq stored', lost \subseteq lost'
    PROVE  Kept
BY DEF Kept, TypeOK

LEMMA NextKeeps ==
    ASSUME TypeOK, ProcsOK, Next
    PROVE  Kept
<1> USE DEF Procs
<1>1. CASE UNCHANGED <<proc, stored, lost>>
    BY <1>1 DEF Kept
<1>2. CASE FeedAdd \/ Relay
    BY <1>1, <1>2 DEF FeedAdd, Relay
<1>3. CASE SyncStart \/ SyncPage \/ SyncTurn \/ SyncFinish
    <2>1. proc["pull"].pc # "pipe" /\ UNCHANGED <<stored, lost>> /\ \E q : proc' = [proc EXCEPT !["pull"] = q]
        BY <1>3 DEF SyncStart, SyncPage, SyncTurn, SyncFinish, Set
    <2> QED BY <2>1, MovesKeep
<1>4. CASE PushEnd \/ \E e \in Events : PushStart(e)
    <2>1. proc["push"].pc # "pipe" /\ UNCHANGED <<stored, lost>> /\ \E q : proc' = [proc EXCEPT !["push"] = q]
        BY <1>4 DEF PushEnd, PushStart, Set
    <2> QED BY <2>1, MovesKeep
<1>5. ASSUME NEW i \in {"pull", "push"}, Ingest(i) PROVE Kept
    <2>1. \E q : proc' = [proc EXCEPT ![i] = q]
        BY <1>5 DEF Ingest, Lookup, PgInsert, PgCommit, ReadLatest, SetNX, Pipe, GetDoc, Done, Set
    <2>2. /\ proc[i].pc = "pipe" => proc[i].ev \in stored'
          /\ stored \subseteq stored' /\ lost \subseteq lost'
        BY <1>5 DEF Ingest, Lookup, PgInsert, PgCommit, InTransaction, ReadLatest, SetNX, Pipe, GetDoc
    <2> QED BY <2>1, <2>2, MovesKeep
<1>6. ASSUME NEW i \in Procs, Unindex(i) \/ SetDoc(i) \/ AddIndex(i) \/ Abort(i) PROVE Kept
    <2>1. \E q : proc' = [proc EXCEPT ![i] = q]
        BY <1>6 DEF Unindex, SetDoc, AddIndex, Abort, Done, Set
    <2>2. /\ proc[i].pc = "pipe" => proc[i].ev \in lost'
          /\ stored \subseteq stored' /\ lost \subseteq lost'
        BY <1>6 DEF Unindex, SetDoc, AddIndex, Abort
    <2> QED BY <2>1, <2>2, MovesKeep
<1>7. CASE Registry
    <2>1. UNCHANGED proc \/ \E q : proc' = [proc EXCEPT !["registry"] = q]
        BY <1>7 DEF Registry, Rename, Delete, Create, RegistryDone, DeleteDoc, RenameNext, DeleteNext, Prune, Set
    <2>2. UNCHANGED <<stored, lost>>
        BY <1>7 DEF Registry, Rename, Delete, Create, RegistryDone, DeleteDoc, RenameNext, DeleteNext, Prune
    <2>3. proc["registry"].pc # "pipe"
        BY DEF ProcsOK, ProcOK, WritePcs, RegistryPcs
    <2> QED BY <1>1, <2>1, <2>2, <2>3, MovesKeep
<1> QED BY <1>2, <1>3, <1>4, <1>5, <1>6, <1>7 DEF Next, Registry

LEMMA CoveredKept ==
    ASSUME Kept, NEW e, Covered(e)
    PROVE  Covered(e)'
BY DEF Kept, Covered

LEMMA KeysKept ==
    ASSUME TypeOK, ProcsOK, KeysCovered, Next
    PROVE  KeysCovered'
<1>0. Kept
    BY NextKeeps
<1>1. CASE UNCHANGED keys
    BY <1>0, <1>1, CoveredKept DEF KeysCovered
<1>2. ASSUME NEW i \in {"pull", "push"}, SetNX(i), keys' # keys PROVE KeysCovered'
    <2>0. i \in Procs
        BY DEF Procs
    <2> DEFINE q == Rec("pipe", proc[i].todo, proc[i].ev, proc[i].task, proc[i].row, proc[i].at, proc[i].name)
    <2>1. keys' = keys \cup {proc[i].ev} /\ proc' = [proc EXCEPT ![i] = q]
        BY <1>2, <2>0, SetNXIs
    <2>2. q.pc = "pipe" /\ q.ev = proc[i].ev
        BY RecFields
    <2> HIDE DEF q
    <2>3. proc'[i] = q
        BY <2>0, <2>1 DEF TypeOK
    <2>4. ASSUME NEW e, e = proc[i].ev PROVE Covered(e)'
        <3>1. proc'[i].pc = "pipe" /\ proc'[i].ev = e
            BY <2>2, <2>3, <2>4
        <3>2. \E j \in Procs : proc'[j].pc = "pipe" /\ proc'[j].ev = e
            BY <2>0, <3>1
        <3> QED BY <3>2 DEF Covered
    <2> SUFFICES ASSUME NEW e, e \in keys' PROVE Covered(e)'
        BY DEF KeysCovered
    <2> QED BY <1>0, <2>1, <2>4, CoveredKept DEF KeysCovered
<1>3. UNCHANGED keys \/ \E i \in {"pull", "push"} : SetNX(i)
    BY DEF Next, Ingest, redisVars, FeedAdd, Relay, PushStart, SyncStart, SyncPage, SyncTurn, SyncFinish,
           PushEnd, Lookup, PgInsert, PgCommit, ReadLatest, Pipe, GetDoc, Unindex, SetDoc,
           AddIndex, Abort, Rename, Delete, Create, RegistryDone, DeleteDoc, RenameNext, DeleteNext, Prune
<1> QED BY <1>1, <1>2, <1>3

-----------------------------------------------------------------------------
(* The pull: what the pages read so far have reached, and what the cursor  *)
(* covers once they are through.                                           *)
LEMMA NumberTypes ==
    ASSUME TypeOK
    PROVE  /\ feed \subseteq Nat /\ emitted \in Nat /\ cursor \in Nat
           /\ sync.stored \in Nat /\ sync.newest \in Nat /\ sync.after \in Nat /\ sync.pages \in Nat
           /\ sync.last \in BOOLEAN
BY DEF TypeOK, Events

LEMMA CursorKept ==
    ASSUME TypeOK, ProcsOK, FeedShape, CursorOK, SyncOK, Next
    PROVE  CursorOK'
<1>0. Kept /\ emitted <= emitted' /\ emitted \in Nat /\ emitted' \in Nat /\ cursor \in Nat /\ sync.newest \in Nat
    BY NextKeeps, FeedKept, NumberTypes DEF TypeOK
<1>1. \A e \in feed' : e \in Nat /\ (e <= emitted => e \in feed)
    BY FeedKept, TypesKept DEF TypeOK, Events
<1>2. CASE cursor' = cursor
    <2>1. cursor' <= emitted'
        BY <1>0, <1>2 DEF CursorOK
    <2>2. ASSUME NEW e, e \in feed', e <= cursor' PROVE Covered(e)'
        <3>1. e \in feed /\ e <= cursor
            BY <1>0, <1>1, <1>2, <2>2 DEF CursorOK
        <3>2. Covered(e)
            BY <3>1 DEF CursorOK
        <3> QED BY <1>0, <3>2, CoveredKept
    <2> QED BY <2>1, <2>2 DEF CursorOK
<1>3. CASE SyncFinish /\ cursor' # cursor
    <2>1. proc["pull"].pc = "finish" /\ cursor' = sync.newest /\ feed' = feed /\ emitted' = emitted
        BY <1>3 DEF SyncFinish
    <2>2. Reached(0) /\ sync.newest <= emitted
        BY <2>1 DEF SyncOK
    <2>3. proc["pull"].todo = {} /\ proc["pull"].pc \notin {"insert", "commit", "setnx"}
        BY <2>1 DEF SyncOK
    <2>4. ASSUME NEW e, e \in feed', e <= cursor' PROVE Covered(e)'
        <3>1. PullCovered(e)
            BY <1>1, <2>1, <2>2, <2>4 DEF Reached
        <3>2. Covered(e)
            BY <2>3, <3>1 DEF PullCovered
        <3> QED BY <1>0, <3>2, CoveredKept
    <2> QED BY <2>1, <2>2, <2>4 DEF CursorOK
<1>4. cursor' = cursor \/ SyncFinish
    BY DEF Next, Ingest, feedVars, FeedAdd, Relay, PushStart, SyncStart, SyncPage, SyncTurn,
           PushEnd, Lookup, PgInsert, PgCommit, ReadLatest, SetNX, Pipe, GetDoc, Unindex, SetDoc,
           AddIndex, Abort, Rename, Delete, Create, RegistryDone, DeleteDoc, RenameNext, DeleteNext, Prune
<1> QED BY <1>2, <1>3, <1>4

LEMMA SyncHolds ==
    ASSUME TypeOK, SyncOK, UNCHANGED <<cursor, sync>>, emitted' \in Nat, emitted <= emitted',
           \A e \in feed' : e \in Nat /\ (e <= emitted => e \in feed),
           proc["pull"].pc # "idle",
           proc'["pull"].pc \in {"fetch", "finish"} => proc'["pull"] = proc["pull"],
           \A e \in Nat : PullCovered(e) => PullCovered(e)'
    PROVE  SyncOK'
<1>1. emitted \in Nat /\ sync.newest \in Nat /\ sync.newest <= emitted /\ sync.newest <= emitted'
    BY NumberTypes DEF SyncOK
<1>2. ASSUME NEW lo, Reached(lo) PROVE Reached(lo)'
    <2> SUFFICES ASSUME NEW e, e \in feed', lo <= e, e <= sync.newest PROVE PullCovered(e)'
        BY DEF Reached
    <2>1. e \in feed /\ e \in Nat
        BY <1>1
    <2>2. PullCovered(e)
        BY <1>2, <2>1 DEF Reached
    <2> QED BY <2>1, <2>2
<1>3. Reached(0) => Reached(0)'
    BY <1>2
<1>4. Reached(sync.after) => Reached(sync.after)'
    <2> SUFFICES ASSUME Reached(sync.after) PROVE Reached(sync.after)'
        OBVIOUS
    <2>1. PICK lo : lo = sync.after
        OBVIOUS
    <2>2. Reached(lo)'
        BY <1>2, <2>1
    <2> QED BY <2>1, <2>2 DEF Reached
<1> QED BY <1>1, <1>3, <1>4 DEF SyncOK

(* A step of the pull that ingests an event covers it.                     *)
LEMMA IngestCovers ==
    ASSUME TypeOK, ProcsOK, KeysCovered, Kept, Ingest("pull"), NEW e \in Nat, PullCovered(e)
    PROVE  PullCovered(e)' /\ proc'["pull"].pc \notin {"fetch", "finish"} /\ proc["pull"].pc # "idle"
<1> DEFINE o == proc["pull"]
           q == proc'["pull"]
<1>0. "pull" \in Procs /\ proc \in [Procs -> ProcType] /\ o.pc # "idle"
    BY DEF Procs, TypeOK, Ingest, Lookup, PgInsert, PgCommit, InTransaction, ReadLatest, SetNX, Pipe, GetDoc
<1>1. Covered(e) => PullCovered(e)'
    BY CoveredKept DEF PullCovered
<1>2. e \in q.todo => PullCovered(e)'
    BY DEF PullCovered
<1>3. Done("pull") => q.todo = o.todo /\ q.pc = "ingest"
    <2>1. Done("pull") => q = Rec("ingest", o.todo, 0, None, None, 0, 0)
        BY <1>0, DoneIs
    <2> QED BY <2>1, RecFields
<1>4. ASSUME NEW f \in Events, Lookup("pull", f)
      PROVE  PullCovered(e)' /\ q.pc \notin {"fetch", "finish"}
    <2>0. o.pc = "ingest"
        BY <1>4 DEF Lookup
    <2>1. CASE /\ lost' = lost \cup {f}
               /\ proc' = [proc EXCEPT !["pull"] = Rec("ingest", o.todo \ {f}, 0, None, None, 0, 0)]
        <3>1. q = Rec("ingest", o.todo \ {f}, 0, None, None, 0, 0)
            BY <1>0, <2>1
        <3>2. q.todo = o.todo \ {f} /\ q.pc = "ingest"
            BY <3>1, RecFields
        <3>3. e = f => PullCovered(e)'
            BY <2>1 DEF PullCovered, Covered
        <3> QED BY <1>1, <1>2, <2>0, <3>2, <3>3 DEF PullCovered
    <2>2. CASE proc' = [proc EXCEPT !["pull"] = Rec("insert", o.todo \ {f}, f, TaskOf[f], None, 0, 0)]
        <3>1. q = Rec("insert", o.todo \ {f}, f, TaskOf[f], None, 0, 0)
            BY <1>0, <2>2
        <3>2. q.todo = o.todo \ {f} /\ q.pc = "insert" /\ q.ev = f
            BY <3>1, RecFields
        <3>3. e = f => PullCovered(e)'
            BY <3>2 DEF PullCovered
        <3> QED BY <1>1, <1>2, <2>0, <3>2, <3>3 DEF PullCovered
    <2> QED BY <1>0, <1>4, <2>1, <2>2, LookupIs
<1>5. ASSUME q.todo = o.todo, q.pc \in {"insert", "commit", "setnx"}, q.ev = o.ev
      PROVE  PullCovered(e)' /\ q.pc \notin {"fetch", "finish"}
    BY <1>1, <1>5 DEF PullCovered
<1>6. ASSUME q.todo = o.todo, q.pc \notin {"fetch", "finish"},
             o.pc \in {"insert", "commit", "setnx"} => Covered(o.ev) \/ o.ev \in stored' \/ (q.pc = "pipe" /\ q.ev = o.ev)
      PROVE  PullCovered(e)' /\ q.pc \notin {"fetch", "finish"}
    <2>1. CASE e \in o.todo
        BY <1>2, <1>6, <2>1
    <2>2. CASE Covered(e)
        BY <1>1, <1>6, <2>2
    <2>3. CASE o.pc \in {"insert", "commit", "setnx"} /\ e = o.ev
        <3>1. e \in stored' => PullCovered(e)'
            BY DEF PullCovered, Covered
        <3>2. q.pc = "pipe" /\ q.ev = e => PullCovered(e)'
            BY <1>0 DEF PullCovered, Covered
        <3> QED BY <1>1, <1>6, <2>3, <3>1, <3>2
    <2> QED BY <2>1, <2>2, <2>3 DEF PullCovered
<1>7. CASE PgInsert("pull")
    <2>1. CASE o.ev \in stored /\ Done("pull")
        <3>1. Covered(o.ev)
            BY <2>1 DEF Covered
        <3> QED BY <1>0, <1>3, <1>6, <2>1, <3>1
    <2>2. CASE proc' = [proc EXCEPT !["pull"] = Rec("commit", o.todo, o.ev, o.task, doc[o.task], o.at, service.name)]
        <3>1. q = Rec("commit", o.todo, o.ev, o.task, doc[o.task], o.at, service.name)
            BY <1>0, <2>2
        <3>2. q.todo = o.todo /\ q.pc = "commit" /\ q.ev = o.ev
            BY <3>1, RecFields
        <3> QED BY <1>0, <1>5, <3>2
    <2> QED BY <1>0, <1>7, <2>1, <2>2, PgInsertIs DEF PgInsert
<1>8. CASE PgCommit("pull")
    BY <1>0, <1>3, <1>6, <1>8 DEF PgCommit
<1>9. CASE ReadLatest("pull")
    <2>1. q = Rec("setnx", o.todo, o.ev, o.task, o.row, latest[o.task], o.name)
        BY <1>0, <1>9, ReadLatestIs
    <2>2. q.todo = o.todo /\ q.pc = "setnx" /\ q.ev = o.ev
        BY <2>1, RecFields
    <2> QED BY <1>0, <1>5, <2>2
<1>10. CASE SetNX("pull")
    <2>1. CASE o.ev \in keys /\ Done("pull")
        <3>1. Covered(o.ev)
            BY <2>1 DEF KeysCovered
        <3> QED BY <1>0, <1>3, <1>6, <2>1, <3>1
    <2>2. CASE proc' = [proc EXCEPT !["pull"] = Rec("pipe", o.todo, o.ev, o.task, o.row, o.at, o.name)]
        <3>1. q = Rec("pipe", o.todo, o.ev, o.task, o.row, o.at, o.name)
            BY <1>0, <2>2
        <3>2. q.todo = o.todo /\ q.pc = "pipe" /\ q.ev = o.ev
            BY <3>1, RecFields
        <3> QED BY <1>0, <1>6, <3>2
    <2> QED BY <1>0, <1>10, <2>1, <2>2, SetNXIs DEF SetNX
<1>11. CASE Pipe("pull")
    <2>1. q = Rec("getdoc", o.todo, o.ev, o.task, o.row, o.at, service.name) /\ o.pc = "pipe"
        BY <1>0, <1>11, PipeIs DEF Pipe
    <2>2. q.todo = o.todo /\ q.pc = "getdoc"
        BY <2>1, RecFields
    <2> QED BY <1>0, <1>6, <2>1, <2>2
<1>12. CASE GetDoc("pull")
    <2>1. q = Rec("unindex", o.todo, o.ev, o.task, Merged(doc[o.task], o.ev, o.name), o.at, o.name) /\ o.pc = "getdoc"
        BY <1>0, <1>12, GetDocIs DEF GetDoc
    <2>2. q.todo = o.todo /\ q.pc = "unindex"
        BY <2>1, RecFields
    <2> QED BY <1>0, <1>6, <2>1, <2>2
<1> QED BY <1>0, <1>4, <1>7, <1>8, <1>9, <1>10, <1>11, <1>12 DEF Ingest

LEMMA IngestMoves ==
    ASSUME TypeOK, Ingest("pull")
    PROVE  proc'["pull"].pc \notin {"fetch", "finish"}
<1> DEFINE o == proc["pull"]
           q == proc'["pull"]
<1>0. "pull" \in Procs /\ proc \in [Procs -> ProcType]
    BY DEF Procs, TypeOK
<1>1. CASE \E e \in Events : Lookup("pull", e)
    <2>1. PICK e \in Events : Lookup("pull", e)
        BY <1>1
    <2>2. \/ q = Rec("insert", o.todo \ {e}, e, TaskOf[e], None, 0, 0)
          \/ q = Rec("ingest", o.todo \ {e}, 0, None, None, 0, 0)
        BY <1>0, <2>1, LookupIs
    <2> QED BY <2>2, RecFields
<1>2. CASE PgInsert("pull")
    <2>1. \/ q = Rec("ingest", o.todo, 0, None, None, 0, 0)
          \/ q = Rec("commit", o.todo, o.ev, o.task, doc[o.task], o.at, service.name)
        BY <1>0, <1>2, PgInsertIs
    <2> QED BY <2>1, RecFields
<1>3. CASE PgCommit("pull")
    <2>1. q = Rec("ingest", o.todo, 0, None, None, 0, 0)
        BY <1>0, <1>3, DoneIs DEF PgCommit
    <2> QED BY <2>1, RecFields
<1>4. CASE ReadLatest("pull")
    <2>1. q = Rec("setnx", o.todo, o.ev, o.task, o.row, latest[o.task], o.name)
        BY <1>0, <1>4, ReadLatestIs
    <2> QED BY <2>1, RecFields
<1>5. CASE SetNX("pull")
    <2>1. \/ q = Rec("ingest", o.todo, 0, None, None, 0, 0)
          \/ q = Rec("pipe", o.todo, o.ev, o.task, o.row, o.at, o.name)
        BY <1>0, <1>5, SetNXIs
    <2> QED BY <2>1, RecFields
<1>6. CASE Pipe("pull")
    <2>1. q = Rec("getdoc", o.todo, o.ev, o.task, o.row, o.at, service.name)
        BY <1>0, <1>6, PipeIs
    <2> QED BY <2>1, RecFields
<1>7. CASE GetDoc("pull")
    <2>1. q = Rec("unindex", o.todo, o.ev, o.task, Merged(doc[o.task], o.ev, o.name), o.at, o.name)
        BY <1>0, <1>7, GetDocIs
    <2> QED BY <2>1, RecFields
<1> QED BY <1>1, <1>2, <1>3, <1>4, <1>5, <1>6, <1>7 DEF Ingest

LEMMA WriteCovers ==
    ASSUME TypeOK, Kept, Unindex("pull") \/ SetDoc("pull") \/ AddIndex("pull"), NEW e \in Nat, PullCovered(e)
    PROVE  PullCovered(e)' /\ proc'["pull"].pc \notin {"fetch", "finish"} /\ proc["pull"].pc # "idle"
<1> DEFINE o == proc["pull"]
           q == proc'["pull"]
<1>0. "pull" \in Procs /\ proc \in [Procs -> ProcType] /\ o.pc \in {"unindex", "setdoc", "index"}
    BY DEF Procs, TypeOK, Unindex, SetDoc, AddIndex
<1>1. \/ q = Rec("setdoc", o.todo, o.ev, o.task, o.row, o.at, o.name)
      \/ q = Rec("index", o.todo, o.ev, o.task, o.row, o.at, o.name)
      \/ q = Rec("ingest", o.todo, 0, None, None, 0, 0)
    BY <1>0, UnindexIs, SetDocIs, AddIndexIs
<1>2. q.todo = o.todo /\ q.pc \notin {"fetch", "finish"}
    BY <1>1, RecFields
<1>3. Covered(e) => Covered(e)'
    BY CoveredKept
<1> QED BY <1>0, <1>2, <1>3 DEF PullCovered

(* Arithmetic of the pages.                                                *)
LEMMA PageSums ==
    ASSUME NEW a \in Nat, NEW b \in Nat, NEW count \in Nat, NEW limit \in Nat, NEW most \in Nat,
           a + limit = b
    PROVE  /\ a + (0 + 1) * limit = b
           /\ a + (count + 1) * limit = b + count * limit
           /\ most * limit = limit * most
           /\ count >= 1 => count * limit >= limit
<1>1. (count + 1) * limit = count * limit + limit /\ (0 + 1) * limit = limit
    BY SMT
<1>2. most * limit = limit * most
    BY SMT
<1>3. count * limit \in Nat
    BY SMT
<1>4. count >= 1 => count * limit >= limit
    <2>1. CASE count = 0
        BY <2>1
    <2>2. CASE count # 0
        <3>1. PICK k \in Nat : count = k + 1
            BY <2>2, count - 1 \in Nat
        <3>2. (k + 1) * limit = k * limit + limit /\ k * limit \in Nat
            BY SMT
        <3> QED BY <3>1, <3>2
    <2> QED BY <2>1, <2>2
<1> QED BY <1>1, <1>2, <1>3, <1>4

LEMMA PageEnds ==
    ASSUME TypeOK, ProcsOK, FeedShape, SyncOK, Kept, SyncPage, Page(sync.after) = {}
    PROVE  SyncOK'
<1> DEFINE top == IF sync.after \in feed THEN sync.after - 1 ELSE emitted
<1>0. /\ feed \subseteq Nat /\ emitted \in Nat /\ sync.after \in Nat /\ sync.newest \in Nat
      /\ \A e \in feed : e <= emitted
    BY NumberTypes DEF FeedShape
<1>1. proc["pull"].pc = "fetch" /\ proc["pull"].todo = {} /\ UNCHANGED <<feed, emitted, cursor>>
    BY DEF SyncPage, SyncOK
<1>2. sync' = sync /\ proc' = [proc EXCEPT !["pull"] = Rec("finish", {}, 0, None, None, 0, 0)]
    BY SyncPageIs
<1>3. proc'["pull"].pc = "finish" /\ proc'["pull"].todo = {}
    <2>1. proc'["pull"] = Rec("finish", {}, 0, None, None, 0, 0)
        BY <1>2 DEF TypeOK, Procs
    <2> QED BY <2>1, RecFields
<1>4. \A e \in feed : ~(e <= top)
    BY <1>0, PageIs
<1>5. ASSUME NEW e \in feed, e <= sync.newest PROVE Covered(e)
    <2>1. sync.after \in feed /\ sync.after <= e
        BY <1>0, <1>4
    <2>2. PullCovered(e)
        BY <1>0, <1>1, <1>5, <2>1 DEF SyncOK, Reached
    <2> QED BY <1>1, <2>2 DEF PullCovered
<1>6. Reached(0)'
    <2> SUFFICES ASSUME NEW e, e \in feed, e <= sync.newest PROVE PullCovered(e)'
        BY <1>1, <1>2 DEF Reached
    <2> QED BY <1>5, CoveredKept DEF PullCovered
<1> QED BY <1>1, <1>2, <1>3, <1>6 DEF SyncOK

LEMMA PageReaches ==
    ASSUME TypeOK, ProcsOK, FeedShape, CursorOK, SyncOK, Kept, SyncPage, Page(sync.after) # {}
    PROVE  SyncOK'
<1> DEFINE top == IF sync.after \in feed THEN sync.after - 1 ELSE emitted
           items == Page(sync.after)
           a == NextCursor(sync.after)
           newest == IF sync.pages = 0 THEN top ELSE sync.newest
<1>0. /\ feed \subseteq Nat /\ emitted \in Nat /\ sync.after \in Nat /\ sync.newest \in Nat /\ sync.pages \in Nat
      /\ sync.stored \in Nat /\ PageLimit \in Nat /\ PageLimit >= 1 /\ MaxPages \in Nat /\ FeedMax \in Nat
      /\ FeedMax <= PageLimit * MaxPages
      /\ \A e \in feed : 1 <= e /\ e <= emitted /\ e + FeedMax > emitted
    BY NumberTypes, Bounds DEF FeedShape
<1>1. /\ proc["pull"].pc = "fetch" /\ proc["pull"].todo = {} /\ UNCHANGED <<feed, emitted, cursor>>
      /\ sync.stored = cursor /\ sync.newest <= emitted
      /\ sync.pages = 0 => sync.newest = 0 /\ sync.after = 0
    BY DEF SyncPage, SyncOK
<1>2. /\ top \in Nat /\ top <= emitted
      /\ Older(sync.after) = {e \in feed : e <= top}
      /\ items = {e \in feed : e <= top /\ e + PageLimit > top}
      /\ Max(items) = top
      /\ \/ a = 0 /\ items = Older(sync.after)
         \/ a = top + 1 - PageLimit /\ a \in Nat /\ a >= 1
    BY <1>0, PageIs
<1>3. /\ sync'.stored = cursor /\ sync'.newest = newest /\ sync'.after = a /\ sync'.pages = sync.pages + 1
      /\ sync'.last = (\/ cursor \in items \/ a = 0 \/ sync.pages = MaxPages - 1)
    BY <1>1, <1>2, SyncFields
<1>4. proc'["pull"].pc = "ingest" /\ proc'["pull"].todo = NewItems(items, cursor)
    <2>1. proc'["pull"] = Rec("ingest", NewItems(items, sync.stored), 0, None, None, 0, 0)
        BY SyncPageIs DEF TypeOK, Procs
    <2> QED BY <1>1, <2>1, RecFields
<1>5. \A e : Covered(e) => PullCovered(e)'
    BY CoveredKept DEF PullCovered
<1>6. \A e : PullCovered(e) => PullCovered(e)'
    BY <1>1, <1>5 DEF PullCovered
<1>7. ASSUME NEW e \in feed, e <= cursor PROVE PullCovered(e)'
    BY <1>5, <1>7 DEF CursorOK
<1>8. ASSUME NEW e \in items PROVE PullCovered(e)'
    <2>1. CASE e \in NewItems(items, cursor)
        BY <1>4, <2>1 DEF PullCovered
    <2>2. CASE e \notin NewItems(items, cursor)
        <3>0. e \in feed /\ e \in Nat /\ cursor \in Nat
            BY <1>0, <1>1, <1>2, <1>8
        <3>1. ~(cursor \in items => e > cursor)
            BY <1>8, <2>2 DEF NewItems
        <3>2. e <= cursor
            BY <3>0, <3>1
        <3> QED BY <1>7, <3>0, <3>2
    <2> QED BY <2>1, <2>2
<1> HIDE DEF items, a
<1>9. ASSUME NEW e \in feed, top < e, e <= newest PROVE PullCovered(e)'
    <2>1. sync.pages # 0
        BY <1>9, <1>0, <1>2
    <2>2. e <= sync.newest /\ sync.after <= e
        BY <1>0, <1>9, <2>1
    <2>3. PullCovered(e)
        BY <1>0, <1>1, <2>2 DEF SyncOK, Reached
    <2> QED BY <1>6, <2>3
<1>10. ASSUME Reached(0), sync.pages # 0 PROVE Reached(0)'
    <2> SUFFICES ASSUME NEW e, e \in feed, e <= sync.newest PROVE PullCovered(e)'
        BY <1>1, <1>3, <1>10 DEF Reached
    <2>1. PullCovered(e)
        BY <1>0, <1>10 DEF Reached
    <2> QED BY <1>6, <2>1
<1>11. CASE a = 0
    <2>1. Reached(0)'
        <3> SUFFICES ASSUME NEW e, e \in feed, e <= newest PROVE PullCovered(e)'
            BY <1>1, <1>3 DEF Reached
        <3> QED BY <1>0, <1>2, <1>8, <1>9, <1>11
    <2> QED BY <1>1, <1>2, <1>3, <1>4, <2>1, <1>0 DEF SyncOK
<1>12. CASE a = top + 1 - PageLimit /\ a >= 1 /\ a \in Nat
    <2>1. ASSUME NEW e, e \in feed, a <= e, e <= newest PROVE PullCovered(e)'
        <3>1. e \in items \/ top < e
            BY <1>0, <1>2, <1>12, <2>1
        <3> QED BY <1>8, <1>9, <2>1, <3>1
    <2>2. Reached(0)' \/ a + (sync.pages + 1) * PageLimit <= newest + 1
        <3>1. CASE sync.pages = 0
            <4>1. a + (0 + 1) * PageLimit = top + 1
                BY <1>0, <1>2, <1>12, PageSums
            <4> QED BY <3>1, <4>1, <1>2
        <3>2. CASE sync.pages # 0 /\ Reached(0)
            BY <1>10, <3>2
        <3>3. CASE sync.pages # 0 /\ ~Reached(0)
            <4>1. /\ Reached(sync.after) /\ sync.after >= 1
                  /\ sync.after + sync.pages * PageLimit <= sync.newest + 1
                BY <1>1, <3>3 DEF SyncOK
            <4>2. sync.pages * PageLimit >= PageLimit /\ sync.pages * PageLimit \in Nat
                BY <1>0, <3>3, PageSums
            <4>3. CASE sync.after \in feed
                <5>1. a + PageLimit = sync.after
                    BY <1>0, <1>12, <4>3
                <5>2. a + (sync.pages + 1) * PageLimit = sync.after + sync.pages * PageLimit
                    BY <1>0, <1>12, <5>1, PageSums
                <5> QED BY <3>3, <4>1, <5>2
            <4>4. CASE sync.after \notin feed
                <5>1. sync.after <= emitted
                    BY <1>0, <1>1, <4>1, <4>2
                <5>2. sync.after + FeedMax <= emitted
                    BY <1>0, <4>1, <4>4, <5>1 DEF FeedShape
                <5>3. \A e \in feed : sync.after <= e
                    BY <1>0, <5>2
                <5>4. Reached(0)
                    BY <4>1, <5>3 DEF Reached
                <5> QED BY <3>3, <5>4
            <4> QED BY <4>3, <4>4
        <3> QED BY <3>1, <3>2, <3>3
    <2>3. ASSUME sync'.last PROVE Reached(0)'
        <3>1. CASE cursor \in items
            <4> SUFFICES ASSUME NEW e, e \in feed, e <= newest PROVE PullCovered(e)'
                BY <1>1, <1>3 DEF Reached
            <4>1. e \in items \/ top < e \/ e <= cursor
                BY <1>0, <1>1, <1>2, <3>1
            <4> QED BY <1>7, <1>8, <1>9, <4>1
        <3>2. CASE sync.pages = MaxPages - 1 /\ ~(Reached(0)')
            <4>1. sync.pages + 1 = MaxPages
                BY <1>0, <3>2
            <4>2. a + MaxPages * PageLimit <= newest + 1 /\ newest <= emitted
                BY <1>1, <1>2, <2>2, <3>2, <4>1
            <4>3. MaxPages * PageLimit = PageLimit * MaxPages /\ PageLimit * MaxPages \in Nat
                BY <1>0, PageSums
            <4>4. \A e \in feed : a <= e
                BY <1>0, <1>2, <1>12, <4>2, <4>3
            <4> SUFFICES ASSUME NEW e, e \in feed, e <= newest PROVE PullCovered(e)'
                BY <1>1, <1>3 DEF Reached
            <4> QED BY <2>1, <4>4
        <3>3. a # 0
            BY <1>12
        <3>4. cursor \in items \/ sync.pages = MaxPages - 1
            BY <1>3, <2>3, <3>3, Zenon
        <3> QED BY <3>1, <3>2, <3>4
    <2>4. Reached(sync.after)'
        BY <1>1, <1>3, <2>1 DEF Reached
    <2>5. sync'.newest <= emitted' /\ sync'.pages # 0
        BY <1>0, <1>1, <1>2, <1>3
    <2> HIDE DEF top, newest
    <2> QED BY <1>1, <1>3, <1>4, <1>12, <2>2, <2>3, <2>4, <2>5 DEF SyncOK
<1> QED BY <1>2, <1>11, <1>12

LEMMA WriteMoves ==
    ASSUME TypeOK, Unindex("pull") \/ SetDoc("pull") \/ AddIndex("pull")
    PROVE  proc'["pull"].pc \notin {"fetch", "finish"}
<1> DEFINE o == proc["pull"]
           q == proc'["pull"]
<1>1. \/ q = Rec("setdoc", o.todo, o.ev, o.task, o.row, o.at, o.name)
      \/ q = Rec("index", o.todo, o.ev, o.task, o.row, o.at, o.name)
      \/ q = Rec("ingest", o.todo, 0, None, None, 0, 0)
    BY UnindexIs, SetDocIs, AddIndexIs DEF TypeOK, Procs
<1> QED BY <1>1, RecFields

LEMMA SyncKept ==
    ASSUME TypeOK, ProcsOK, FeedShape, KeysCovered, CursorOK, SyncOK, Next
    PROVE  SyncOK'
<1>0. /\ Kept /\ emitted' \in Nat /\ emitted <= emitted' /\ emitted \in Nat
      /\ \A e \in feed' : e \in Nat /\ (e <= emitted => e \in feed)
      /\ "pull" \in Procs /\ proc \in [Procs -> ProcType]
    BY NextKeeps, FeedKept, TypesKept DEF TypeOK, Events, Procs
<1>1. CASE proc'["pull"] = proc["pull"] /\ UNCHANGED <<sync, cursor>>
    <2>1. CASE proc["pull"].pc = "idle"
        BY <1>1, <2>1 DEF SyncOK
    <2>2. CASE proc["pull"].pc # "idle"
        <3>1. \A e \in Nat : PullCovered(e) => PullCovered(e)'
            BY <1>0, <1>1, CoveredKept DEF PullCovered
        <3> QED BY <1>0, <1>1, <2>2, <3>1, SyncHolds
    <2> QED BY <2>1, <2>2
<1>2. CASE SyncPage
    BY <1>0, <1>2, PageEnds, PageReaches
<1>3. CASE SyncStart
    <2>1. sync' = [NoSync EXCEPT !.stored = cursor] /\ UNCHANGED <<cursor, emitted, feed>>
        BY <1>3 DEF SyncStart
    <2>2. /\ sync'.stored = cursor /\ sync'.newest = 0 /\ sync'.after = 0 /\ sync'.pages = 0 /\ sync'.last = FALSE
        BY <2>1 DEF NoSync
    <2>3. proc'["pull"] = Rec("fetch", {}, 0, None, None, 0, 0)
        BY <1>0, <1>3, SyncStartIs
    <2>4. proc'["pull"].pc = "fetch" /\ proc'["pull"].todo = {}
        BY <2>3, RecFields
    <2>5. Reached(0)'
        BY <1>0, <2>1, <2>2 DEF Reached, FeedShape
    <2> QED BY <1>0, <2>1, <2>2, <2>4, <2>5 DEF SyncOK
<1>4. CASE SyncTurn
    <2> DEFINE pc == IF sync.last THEN "finish" ELSE "fetch"
    <2>1. UNCHANGED <<sync, cursor, emitted, feed>> /\ proc["pull"].pc = "ingest" /\ proc["pull"].todo = {}
        BY <1>4 DEF SyncTurn, feedVars
    <2>2. proc'["pull"] = Rec(pc, {}, 0, None, None, 0, 0)
        BY <1>0, <1>4, SyncTurnIs
    <2>3. proc'["pull"].pc = pc /\ proc'["pull"].todo = {}
        BY <2>2, RecFields
    <2>4. \A e : PullCovered(e) => PullCovered(e)'
        BY <1>0, <2>1, CoveredKept DEF PullCovered
    <2>5. ASSUME NEW lo, Reached(lo) PROVE Reached(lo)'
        BY <2>1, <2>4, <2>5 DEF Reached
    <2>6. Reached(sync.after) => Reached(sync.after)'
        <3> SUFFICES ASSUME Reached(sync.after) PROVE Reached(sync.after)'
            OBVIOUS
        <3>1. PICK lo : lo = sync.after
            OBVIOUS
        <3>2. Reached(lo)'
            BY <2>5, <3>1
        <3> QED BY <2>1, <3>1, <3>2 DEF Reached
    <2>7. Reached(0) => Reached(0)'
        BY <2>5
    <2>8. pc = "finish" <=> sync.last
        OBVIOUS
    <2>9. pc = "fetch" <=> ~sync.last
        OBVIOUS
    <2> HIDE DEF pc
    <2> QED BY <2>1, <2>3, <2>6, <2>7, <2>8, <2>9 DEF SyncOK
<1>5. CASE SyncFinish \/ Abort("pull")
    <2>1. proc'["pull"] = Idle
        BY <1>0, <1>5 DEF SyncFinish, Abort, Set
    <2> QED BY <2>1 DEF Idle, SyncOK
<1>6. CASE Ingest("pull")
    <2>0. UNCHANGED <<sync, cursor>>
        BY <1>6 DEF Ingest, Lookup, PgInsert, PgCommit, ReadLatest, SetNX, Pipe, GetDoc, feedVars
    <2>1. \A e \in Nat : PullCovered(e) => PullCovered(e)'
        BY <1>0, <1>6, IngestCovers
    <2>2. proc["pull"].pc # "idle" /\ proc'["pull"].pc \notin {"fetch", "finish"}
        <3>1. proc["pull"].pc # "idle"
            BY <1>6 DEF Ingest, Lookup, PgInsert, PgCommit, InTransaction, ReadLatest, SetNX, Pipe, GetDoc
        <3>2. proc'["pull"].pc \notin {"fetch", "finish"}
            BY <1>0, <1>6, IngestMoves
        <3> QED BY <3>1, <3>2
    <2> QED BY <1>0, <2>0, <2>1, <2>2, SyncHolds
<1>7. CASE Unindex("pull") \/ SetDoc("pull") \/ AddIndex("pull")
    <2>0. UNCHANGED <<sync, cursor>>
        BY <1>7 DEF Unindex, SetDoc, AddIndex, feedVars
    <2>1. \A e \in Nat : PullCovered(e) => PullCovered(e)'
        BY <1>0, <1>7, WriteCovers
    <2>2. proc["pull"].pc # "idle" /\ proc'["pull"].pc \notin {"fetch", "finish"}
        BY <1>0, <1>7, WriteMoves DEF Unindex, SetDoc, AddIndex
    <2> QED BY <1>0, <2>0, <2>1, <2>2, SyncHolds
<1>8. CASE FeedAdd \/ Relay
    <2>1. proc' = proc /\ UNCHANGED <<sync, cursor>>
        BY <1>8 DEF FeedAdd, Relay, feedVars
    <2> QED BY <1>1, <2>1
<1>9. CASE PushEnd \/ \E e \in Events : PushStart(e)
    <2>1. (\E q : proc' = [proc EXCEPT !["push"] = q]) /\ UNCHANGED <<sync, cursor>>
        BY <1>9 DEF PushEnd, PushStart, Set, feedVars
    <2> QED BY <1>0, <1>1, <2>1
<1>10. CASE Ingest("push")
    <2>1. (\E q : proc' = [proc EXCEPT !["push"] = q]) /\ UNCHANGED <<sync, cursor>>
        BY <1>10 DEF Ingest, Lookup, PgInsert, PgCommit, ReadLatest, SetNX, Pipe, GetDoc, Done, Set, feedVars
    <2> QED BY <1>0, <1>1, <2>1
<1>11. ASSUME NEW i \in Procs, i # "pull", Unindex(i) \/ SetDoc(i) \/ AddIndex(i) \/ Abort(i) PROVE SyncOK'
    <2>1. (\E q : proc' = [proc EXCEPT ![i] = q]) /\ UNCHANGED <<sync, cursor>>
        BY <1>11 DEF Unindex, SetDoc, AddIndex, Abort, Done, Set, feedVars
    <2> QED BY <1>0, <1>1, <1>11, <2>1
<1>12. CASE Registry
    <2>1. (proc' = proc \/ \E q : proc' = [proc EXCEPT !["registry"] = q]) /\ UNCHANGED <<sync, cursor>>
        BY <1>12 DEF Registry, Rename, Delete, Create, RegistryDone, DeleteDoc, RenameNext, DeleteNext, Prune, Set, feedVars
    <2> QED BY <1>0, <1>1, <2>1
<1> QED BY <1>2, <1>3, <1>4, <1>5, <1>6, <1>7, <1>8, <1>9, <1>10, <1>11, <1>12 DEF Next, Registry

-----------------------------------------------------------------------------
(* Redis: a document that its status set does not name is being written.   *)
Writing(i, t) ==
    /\ proc[i].task = t
    /\ \/ proc[i].pc \in {"setdoc", "drop"}
       \/ proc[i].pc = "index" /\ proc[i].row.status = doc[t].status

LEMMA FindableKept ==
    ASSUME TypeOK, ProcsOK, FindableOK, Next
    PROVE  FindableOK'
<1>0. /\ mode' = mode /\ proc \in [Procs -> ProcType] /\ index \in [Tasks -> SUBSET Statuses]
      /\ doc \in [Tasks -> Rows \cup {None}]
    BY DEF TypeOK, Next, Ingest, FeedAdd, Relay, PushStart, SyncStart, SyncPage, SyncTurn, SyncFinish,
           PushEnd, Lookup, PgInsert, PgCommit, ReadLatest, SetNX, Pipe, GetDoc, Unindex, SetDoc,
           AddIndex, Abort, Rename, Delete, Create, RegistryDone, DeleteDoc, RenameNext, DeleteNext, Prune
<1>1. CASE mode # "redis"
    BY <1>0, <1>1 DEF FindableOK
<1>2. CASE mode = "redis" /\ Next
    <2> USE <1>0, <1>2
    <2>0. \A t \in Tasks : doc[t] = None \/ t \in torn \/ doc[t].status \in index[t] \/ \E i \in Procs : Writing(i, t)
        BY DEF FindableOK, Writing
    <2>1. SUFFICES ASSUME NEW t \in Tasks, doc'[t] # None, t \notin torn', doc'[t].status \notin index'[t]
                   PROVE  \E i \in Procs : Writing(i, t)'
        BY DEF FindableOK, Writing
    <2>2. ASSUME NEW i \in Procs, NEW q, proc' = [proc EXCEPT ![i] = q], torn' = torn,
                 doc' = doc, index' = index, ~Writing(i, t)
          PROVE  \E j \in Procs : Writing(j, t)'
        <3>1. PICK j \in Procs : Writing(j, t)
            BY <2>0, <2>1, <2>2
        <3>2. j # i /\ proc'[j] = proc[j]
            BY <2>2, <3>1
        <3> QED BY <2>2, <3>1, <3>2 DEF Writing
    <2>3. ASSUME UNCHANGED <<proc, doc, index, torn>> PROVE \E j \in Procs : Writing(j, t)'
        BY <2>0, <2>1, <2>3 DEF Writing
    <2>4. CASE FeedAdd \/ Relay
        BY <2>3, <2>4 DEF FeedAdd, Relay, redisVars
    <2>5. CASE SyncStart \/ SyncPage \/ SyncTurn \/ SyncFinish
        <3>1. /\ "pull" \in Procs /\ ~Writing("pull", t) /\ UNCHANGED <<doc, index, torn>>
              /\ \E q : proc' = [proc EXCEPT !["pull"] = q]
            BY <2>5 DEF SyncStart, SyncPage, SyncTurn, SyncFinish, Set, redisVars, Procs, Writing
        <3> QED BY <2>2, <3>1
    <2>6. CASE PushEnd \/ \E e \in Events : PushStart(e)
        <3>1. /\ "push" \in Procs /\ ~Writing("push", t) /\ UNCHANGED <<doc, index, torn>>
              /\ \E q : proc' = [proc EXCEPT !["push"] = q]
            BY <2>6 DEF PushEnd, PushStart, Set, redisVars, Procs, Writing
        <3> QED BY <2>2, <3>1
    <2>7. ASSUME NEW i \in {"pull", "push"}, Ingest(i) PROVE \E j \in Procs : Writing(j, t)'
        <3>1. /\ i \in Procs /\ ~Writing(i, t) /\ UNCHANGED <<doc, index, torn>>
              /\ \E q : proc' = [proc EXCEPT ![i] = q]
            BY <2>7 DEF Ingest, Lookup, PgInsert, PgCommit, InTransaction, ReadLatest, SetNX, Pipe, GetDoc,
                        Done, Set, redisVars, Procs, Writing
        <3> QED BY <2>2, <3>1
    <2>8. ASSUME NEW i \in Procs, Unindex(i) PROVE \E j \in Procs : Writing(j, t)'
        <3> DEFINE o == proc[i]
                   q == Rec("setdoc", o.todo, o.ev, o.task, o.row, o.at, o.name)
        <3>1. proc' = [proc EXCEPT ![i] = q] /\ UNCHANGED <<doc, torn>> /\ o.pc = "unindex"
            BY <2>8, UnindexIs DEF Unindex
        <3>2. q.pc = "setdoc" /\ q.task = o.task
            BY RecFields
        <3> HIDE DEF q
        <3>3. proc'[i] = q /\ \A j \in Procs \ {i} : proc'[j] = proc[j]
            BY <3>1
        <3>4. CASE o.task = t
            BY <3>2, <3>3, <3>4 DEF Writing
        <3>5. CASE o.task # t
            <4>1. index'[t] = index[t]
                BY <2>8, <3>5 DEF Unindex
            <4>2. PICK j \in Procs : Writing(j, t)
                BY <2>0, <2>1, <3>1, <4>1
            <4>3. j # i
                BY <3>1, <4>2 DEF Writing
            <4> QED BY <3>1, <3>3, <4>2, <4>3 DEF Writing
        <3> QED BY <3>4, <3>5
    <2>9. ASSUME NEW i \in Procs, SetDoc(i) PROVE \E j \in Procs : Writing(j, t)'
        <3> DEFINE o == proc[i]
                   q == Rec("index", o.todo, o.ev, o.task, o.row, o.at, o.name)
        <3>1. /\ proc' = [proc EXCEPT ![i] = q] /\ UNCHANGED <<index, torn>> /\ o.pc = "setdoc"
              /\ doc' = [doc EXCEPT ![o.task] = o.row]
            BY <2>9, SetDocIs DEF SetDoc, redisVars
        <3>2. q.pc = "index" /\ q.task = o.task /\ q.row = o.row
            BY RecFields
        <3> HIDE DEF q
        <3>3. proc'[i] = q /\ \A j \in Procs \ {i} : proc'[j] = proc[j]
            BY <3>1
        <3>4. CASE o.task = t
            <4>1. doc'[t] = o.row
                BY <3>1, <3>4
            <4> QED BY <3>2, <3>3, <3>4, <4>1 DEF Writing
        <3>5. CASE o.task # t
            <4>1. doc'[t] = doc[t]
                BY <3>1, <3>5
            <4>2. PICK j \in Procs : Writing(j, t)
                BY <2>0, <2>1, <3>1, <4>1
            <4>3. j # i
                BY <3>5, <4>2 DEF Writing
            <4> QED BY <3>1, <3>3, <4>1, <4>2, <4>3 DEF Writing
        <3> QED BY <3>4, <3>5
    <2>10. ASSUME NEW i \in Procs, AddIndex(i) PROVE \E j \in Procs : Writing(j, t)'
        <3> DEFINE o == proc[i]
        <3>1. /\ \E q : proc' = [proc EXCEPT ![i] = q]
              /\ UNCHANGED <<doc, torn>> /\ o.pc = "index" /\ index' = [index EXCEPT ![o.task] = @ \cup {o.row.status}]
            BY <2>10 DEF AddIndex, Done, Set
        <3>2. doc[t].status \notin index[t]
            BY <2>1, <3>1
        <3>3. PICK j \in Procs : Writing(j, t)
            BY <2>0, <2>1, <3>1, <3>2
        <3>4. j # i
            <4> SUFFICES ASSUME Writing(i, t) PROVE FALSE
                BY <3>3
            <4>1. o.task = t /\ o.row.status = doc[t].status
                BY <3>1 DEF Writing
            <4>2. doc[t].status \in index'[t]
                BY <3>1, <4>1
            <4> QED BY <2>1, <3>1, <4>2
        <3>5. proc'[j] = proc[j]
            BY <3>1, <3>4
        <3> QED BY <3>1, <3>3, <3>5 DEF Writing
    <2>11. ASSUME NEW i \in Procs, Abort(i) PROVE \E j \in Procs : Writing(j, t)'
        <3>1. /\ \E q : proc' = [proc EXCEPT ![i] = q]
              /\ UNCHANGED <<doc, index>> /\ torn \subseteq torn'
              /\ proc[i].pc \in {"setdoc", "index", "drop"} => proc[i].task \in torn'
            BY <2>11 DEF Abort, Set, redisVars
        <3>2. PICK j \in Procs : Writing(j, t)
            BY <2>0, <2>1, <3>1
        <3>3. j # i
            BY <2>1, <3>1, <3>2 DEF Writing
        <3>4. proc'[j] = proc[j]
            BY <3>1, <3>3
        <3> QED BY <3>1, <3>2, <3>4 DEF Writing
    <2>12. ASSUME NEW u \in Tasks, DeleteNext(u) PROVE \E j \in Procs : Writing(j, t)'
        <3> DEFINE o == proc["registry"]
                   q == Rec("drop", o.todo \ {u}, 0, u, None, 0, 0)
        <3>0. "registry" \in Procs
            BY DEF Procs
        <3>1. proc' = [proc EXCEPT !["registry"] = q] /\ UNCHANGED <<doc, torn>> /\ o.pc = "delete"
            BY <2>12, DeleteNextIs DEF DeleteNext
        <3>2. q.pc = "drop" /\ q.task = u
            BY RecFields
        <3> HIDE DEF q
        <3>3. proc'["registry"] = q /\ \A j \in Procs \ {"registry"} : proc'[j] = proc[j]
            BY <3>0, <3>1
        <3>4. CASE u = t
            BY <3>0, <3>2, <3>3, <3>4 DEF Writing
        <3>5. CASE u # t
            <4>1. index'[t] = index[t]
                BY <2>12, <3>5 DEF DeleteNext
            <4>2. PICK j \in Procs : Writing(j, t)
                BY <2>0, <2>1, <3>1, <4>1
            <4>3. j # "registry"
                BY <3>1, <4>2 DEF Writing
            <4> QED BY <3>1, <3>3, <4>2, <4>3 DEF Writing
        <3> QED BY <3>4, <3>5
    <2>13. CASE DeleteDoc
        <3> DEFINE o == proc["registry"]
        <3>0. "registry" \in Procs
            BY DEF Procs
        <3>1. /\ \E q : proc' = [proc EXCEPT !["registry"] = q]
              /\ UNCHANGED <<index, torn>> /\ o.pc = "drop" /\ doc' = [doc EXCEPT ![o.task] = None]
            BY <2>13 DEF DeleteDoc, Set, redisVars
        <3>2. o.task # t /\ doc'[t] = doc[t]
            BY <2>1, <3>1
        <3>3. PICK j \in Procs : Writing(j, t)
            BY <2>0, <2>1, <3>1, <3>2
        <3>4. j # "registry"
            BY <3>2, <3>3 DEF Writing
        <3>5. proc'[j] = proc[j]
            BY <3>1, <3>4
        <3> QED BY <3>2, <3>3, <3>5 DEF Writing
    <2>14. CASE \/ Rename \/ Delete \/ Create \/ RegistryDone
                \/ \E u \in Tasks : RenameNext(u) \/ Prune(u)
        <3>1. /\ "registry" \in Procs /\ ~Writing("registry", t) /\ UNCHANGED <<doc, index, torn>>
              /\ \E q : proc' = [proc EXCEPT !["registry"] = q]
            BY <2>14 DEF Rename, Delete, Create, RegistryDone, RenameNext, Prune, Set, redisVars, Procs, Writing
        <3> QED BY <2>2, <3>1
    <2> QED BY <2>4, <2>5, <2>6, <2>7, <2>8, <2>9, <2>10, <2>11, <2>12, <2>13, <2>14 DEF Next
<1> QED BY <1>1, <1>2

-----------------------------------------------------------------------------
(* PostgreSQL: documents and the transactions that are about to write one. *)
LEMMA MergedSpans ==
    ASSUME NEW r \in Rows \cup {None}, NEW e \in Events, NEW n \in Nat, r # None => Spans(r)
    PROVE  LET m == Merged(r, e, n)
           IN  /\ Spans(m) /\ m.name = n /\ e \in m.seen
               /\ r # None => r.seen \subseteq m.seen
<1>1. Time[e] \in Nat
    BY IngestAssumption
<1>2. CASE r = None
    <2>1. Merged(r, e, n) = [first |-> Time[e], last |-> Time[e], status |-> StatusOf[e], name |-> n, seen |-> {e}]
        BY <1>2 DEF Merged
    <2> QED BY <1>1, <1>2, <2>1 DEF Spans
<1>3. CASE r # None
    <2>0. r.first \in Nat /\ r.last \in Nat /\ r.seen \subseteq Events /\ Spans(r)
        BY <1>3 DEF Rows
    <2>1. \A f \in r.seen : Time[f] \in Nat
        BY <2>0, IngestAssumption
    <2> DEFINE a == IF Time[e] < r.first THEN Time[e] ELSE r.first
               b == IF Time[e] > r.last THEN Time[e] ELSE r.last
               s == r.seen \cup {e}
               m == Merged(r, e, n)
    <2>2. \A f \in s : a <= Time[f] /\ Time[f] <= b
        BY <1>1, <2>0, <2>1 DEF Spans
    <2>3. (\E f \in s : a = Time[f]) /\ (\E f \in s : b = Time[f])
        BY <2>0 DEF Spans
    <2>4. m = [first |-> a, last |-> b, status |-> StatusOf[e], name |-> n, seen |-> s]
        BY <1>3 DEF Merged
    <2> HIDE DEF a, b, m
    <2>5. m.first = a /\ m.last = b /\ m.name = n /\ m.seen = s
        BY <2>4
    <2> QED BY <2>2, <2>3, <2>5 DEF Spans, m
<1> QED BY <1>2, <1>3

LEMMA SpansRenamed ==
    ASSUME NEW r \in Rows, NEW n \in Nat, Spans(r)
    PROVE  Spans([r EXCEPT !.name = n])
BY Renames DEF Spans

LEMMA DocumentsKept ==
    ASSUME TypeOK, ProcsOK, DocumentsOK, Next
    PROVE  DocumentsOK'
<1>0. /\ mode' = mode /\ proc \in [Procs -> ProcType] /\ since \in [Tasks -> SUBSET Events]
      /\ doc \in [Tasks -> Rows \cup {None}]
    BY DEF TypeOK, Next, Ingest, FeedAdd, Relay, PushStart, SyncStart, SyncPage, SyncTurn, SyncFinish,
           PushEnd, Lookup, PgInsert, PgCommit, ReadLatest, SetNX, Pipe, GetDoc, Unindex, SetDoc,
           AddIndex, Abort, Rename, Delete, Create, RegistryDone, DeleteDoc, RenameNext, DeleteNext, Prune
<1>1. CASE mode # "postgres"
    BY <1>0, <1>1 DEF DocumentsOK
<1>2. CASE mode = "postgres"
    <2> USE <1>0, <1>2
    <2>0. /\ \A t \in Tasks : DocOK(t)
          /\ \A i \in Procs : proc[i].pc = "commit" => TransactionOK(i)
          /\ \A i \in Procs : ProcOK(i, proc[i])
        BY DEF DocumentsOK, ProcsOK
    <2>1. ASSUME UNCHANGED <<doc, since, service>>,
                 \A i \in Procs : proc'[i] = proc[i] \/ proc'[i].pc # "commit"
          PROVE  DocumentsOK'
        <3>1. \A t \in Tasks : DocOK(t)'
            BY <2>0, <2>1 DEF DocOK, Spans
        <3>2. ASSUME NEW i \in Procs, proc'[i].pc = "commit" PROVE TransactionOK(i)'
            BY <2>0, <2>1, <3>2 DEF TransactionOK, Spans
        <3> QED BY <3>1, <3>2 DEF DocumentsOK
    <2>2. ASSUME UNCHANGED <<doc, since, service>>, NEW i \in Procs, NEW q, proc' = [proc EXCEPT ![i] = q], q.pc # "commit"
          PROVE  DocumentsOK'
        BY <2>1, <2>2
    <2>3. CASE FeedAdd \/ Relay
        BY <2>1, <2>3 DEF FeedAdd, Relay
    <2>4. CASE SyncStart \/ SyncPage \/ SyncTurn \/ SyncFinish
        <3>1. UNCHANGED <<doc, since, service>> /\ "pull" \in Procs
            BY <2>4 DEF SyncStart, SyncPage, SyncTurn, SyncFinish, Procs
        <3>2. \E q : proc' = [proc EXCEPT !["pull"] = q] /\ q.pc # "commit"
            <4>1. \E s, pc : proc' = [proc EXCEPT !["pull"] = Rec(pc, s, 0, None, None, 0, 0)] /\ pc # "commit"
                BY <2>4, SyncStartIs, SyncPageIs, SyncTurnIs, IdleIs DEF SyncFinish, Set
            <4>2. PICK s, pc : proc' = [proc EXCEPT !["pull"] = Rec(pc, s, 0, None, None, 0, 0)] /\ pc # "commit"
                BY <4>1
            <4>3. Rec(pc, s, 0, None, None, 0, 0).pc = pc
                BY RecFields
            <4> QED BY <4>2, <4>3
        <3> QED BY <2>2, <3>1, <3>2
    <2>5. CASE PushEnd \/ \E e \in Events : PushStart(e)
        <3>1. UNCHANGED <<doc, since, service>> /\ "push" \in Procs
            BY <2>5 DEF PushEnd, PushStart, Procs
        <3>2. \E q : proc' = [proc EXCEPT !["push"] = q] /\ q.pc # "commit"
            <4>1. ASSUME NEW e \in Events, PushStart(e) PROVE proc' = [proc EXCEPT !["push"] = Rec("ingest", {e}, 0, None, None, 0, 0)]
                BY <4>1, PushStartIs
            <4>2. PushEnd => proc' = [proc EXCEPT !["push"] = Idle]
                BY DEF PushEnd, Set
            <4>3. Idle.pc # "commit" /\ \A e : Rec("ingest", {e}, 0, None, None, 0, 0).pc # "commit"
                BY RecFields DEF Idle
            <4> QED BY <2>5, <4>1, <4>2, <4>3
        <3> QED BY <2>2, <3>1, <3>2
    <2>6. ASSUME NEW i \in {"pull", "push"}, NEW e \in Events, Lookup(i, e) PROVE DocumentsOK'
        <3>1. UNCHANGED <<doc, since, service>> /\ i \in Procs
            BY <2>6 DEF Lookup, Procs
        <3>2. \E q : proc' = [proc EXCEPT ![i] = q] /\ q.pc # "commit"
            <4>1. \/ proc' = [proc EXCEPT ![i] = Rec("insert", proc[i].todo \ {e}, e, TaskOf[e], None, 0, 0)]
                  \/ proc' = [proc EXCEPT ![i] = Rec("ingest", proc[i].todo \ {e}, 0, None, None, 0, 0)]
                BY <2>6, <3>1, LookupIs
            <4> QED BY <4>1, RecFields
        <3> QED BY <2>2, <3>1, <3>2
    <2>7. ASSUME NEW i \in {"pull", "push"}, PgInsert(i) PROVE DocumentsOK'
        <3> DEFINE o == proc[i]
                   q == Rec("commit", o.todo, o.ev, o.task, doc[o.task], o.at, service.name)
        <3>1. /\ UNCHANGED <<doc, since, service>> /\ i \in Procs /\ o.pc = "insert"
              /\ \A j \in Procs \ {i} : proc[j].pc = "commit" => proc[j].task # o.task
            BY <2>7 DEF PgInsert, Procs, InTransaction
        <3>2. CASE proc' = [proc EXCEPT ![i] = Rec("ingest", o.todo, 0, None, None, 0, 0)]
            <4>1. Rec("ingest", o.todo, 0, None, None, 0, 0).pc = "ingest"
                BY RecFields
            <4> QED BY <2>2, <3>1, <3>2, <4>1
        <3>3. CASE proc' = [proc EXCEPT ![i] = q]
            <4>1. q.pc = "commit" /\ q.task = o.task /\ q.row = doc[o.task] /\ q.name = service.name
                BY RecFields
            <4> HIDE DEF q
            <4>2. o.task \in Tasks
                BY <2>0, <3>1, IngestAssumption DEF ProcOK, EventPcs
            <4>3. proc'[i] = q /\ \A j \in Procs \ {i} : proc'[j] = proc[j]
                BY <3>1, <3>3
            <4>4. \A t \in Tasks : DocOK(t)'
                BY <2>0, <3>1 DEF DocOK, Spans
            <4>5. TransactionOK(i)'
                <5>1. DocOK(o.task)
                    BY <2>0, <4>2
                <5>2. q.row # None => Spans(q.row) /\ since[o.task] \subseteq q.row.seen
                    BY <4>1, <5>1 DEF DocOK
                <5> QED BY <3>1, <4>1, <4>3, <5>2 DEF TransactionOK, Spans
            <4>6. ASSUME NEW j \in Procs, j # i, proc'[j].pc = "commit" PROVE TransactionOK(j)'
                <5>1. proc'[j] = proc[j] /\ TransactionOK(j)
                    BY <2>0, <4>3, <4>6
                <5>2. \A k \in Procs \ {j} : proc'[k].pc = "commit" => proc'[k].task # proc'[j].task
                    <6>1. proc[j].task # o.task
                        BY <3>1, <4>6, <5>1
                    <6>2. \A k \in Procs \ {j} : proc[k].pc = "commit" => proc[k].task # proc[j].task
                        BY <5>1 DEF TransactionOK
                    <6> QED BY <4>1, <4>3, <5>1, <6>1, <6>2
                <5> QED BY <3>1, <5>1, <5>2 DEF TransactionOK, Spans
            <4> QED BY <4>4, <4>5, <4>6 DEF DocumentsOK
        <3> QED BY <2>7, <3>1, <3>2, <3>3, PgInsertIs
    <2>8. ASSUME NEW i \in {"pull", "push"}, PgCommit(i) PROVE DocumentsOK'
        <3> DEFINE o == proc[i]
                   m == Merged(o.row, o.ev, o.name)
                   d == Projected(o.task, m)
        <3>1. /\ service' = service /\ i \in Procs /\ o.pc = "commit"
              /\ doc' = [doc EXCEPT ![o.task] = d] /\ since' = [since EXCEPT ![o.task] = @ \cup {o.ev}]
              /\ Done(i)
            BY <2>8 DEF PgCommit, Procs, InTransaction
        <3>2. /\ o.ev \in Events /\ o.task \in Tasks /\ o.row \in Rows \cup {None} /\ o.name \in Nat
              /\ TransactionOK(i) /\ DocOK(o.task)
            <4>1. o.ev \in Events /\ o.task = TaskOf[o.ev]
                BY <2>0, <3>1 DEF ProcOK, EventPcs
            <4> QED BY <2>0, <3>1, <4>1, ProcTypes, IngestAssumption DEF DocumentsOK
        <3>3. Spans(m) /\ m.name = o.name /\ o.ev \in m.seen /\ (o.row # None => o.row.seen \subseteq m.seen)
            BY <3>2, MergedSpans DEF TransactionOK
        <3>4. m \in Rows
            BY <3>2, MergedType
        <3> HIDE DEF m
        <3>5. /\ d \in Rows /\ d # None /\ Spans(d) /\ d.seen = m.seen
              /\ service.live => d.name = service.name
            <4>1. CASE doc[o.task] = None
                BY <3>2, <3>3, <3>4, <4>1, IngestAssumption DEF Projected, TransactionOK
            <4>2. CASE doc[o.task] # None
                <5>1. doc[o.task].name \in Nat
                    BY <3>2, <4>2 DEF Rows
                <5>2. service.live => doc[o.task].name = service.name
                    BY <3>2, <4>2 DEF DocOK
                <5>3. d = [m EXCEPT !.name = doc[o.task].name]
                    BY <4>2 DEF Projected
                <5> QED BY <3>3, <3>4, <5>1, <5>2, <5>3, Renames, SpansRenamed
            <4> QED BY <4>1, <4>2
        <3> HIDE DEF d
        <3>6. doc'[o.task] = d /\ since'[o.task] = since[o.task] \cup {o.ev}
            BY <3>1, <3>2
        <3>7. since[o.task] \subseteq d.seen
            BY <3>2, <3>3, <3>5 DEF DocOK, TransactionOK
        <3>8. \A t \in Tasks \ {o.task} : doc'[t] = doc[t] /\ since'[t] = since[t]
            BY <3>1
        <3>9. ASSUME NEW t \in Tasks PROVE DocOK(t)'
            <4>1. CASE t = o.task
                BY <3>1, <3>3, <3>5, <3>6, <3>7, <4>1 DEF DocOK, Spans
            <4>2. CASE t # o.task
                BY <2>0, <3>1, <3>8, <4>2 DEF DocOK, Spans
            <4> QED BY <4>1, <4>2
        <3>10. proc'[i].pc = "ingest" /\ \A j \in Procs \ {i} : proc'[j] = proc[j]
            <4>1. proc' = [proc EXCEPT ![i] = Rec("ingest", o.todo, 0, None, None, 0, 0)]
                BY <3>1, DoneIs
            <4> QED BY <3>1, <4>1, RecFields
        <3>11. ASSUME NEW j \in Procs, proc'[j].pc = "commit" PROVE TransactionOK(j)'
            <4>1. j # i /\ proc'[j] = proc[j] /\ TransactionOK(j)
                BY <2>0, <3>10, <3>11
            <4>2. proc[j].task # o.task /\ proc[j].task \in Tasks
                BY <2>0, <3>1, <3>2, <3>11, <4>1, IngestAssumption DEF TransactionOK, ProcOK, EventPcs
            <4>3. doc'[proc[j].task] = doc[proc[j].task] /\ since'[proc[j].task] = since[proc[j].task]
                BY <3>8, <4>2
            <4> QED BY <3>1, <3>10, <4>1, <4>3 DEF TransactionOK, Spans
        <3> QED BY <3>9, <3>11 DEF DocumentsOK
    <2>9. ASSUME NEW i \in {"pull", "push"}, ReadLatest(i) \/ SetNX(i) \/ Pipe(i) \/ GetDoc(i) PROVE DocumentsOK'
        <3>1. i \in Procs /\ (mode = "redis" \/ proc[i].pc \in RedisPcs)
            BY <2>9 DEF ReadLatest, SetNX, Pipe, GetDoc, RedisPcs, Procs
        <3> QED BY <2>0, <3>1 DEF ProcOK
    <2>10. ASSUME NEW i \in Procs, Unindex(i) \/ SetDoc(i) \/ AddIndex(i) PROVE DocumentsOK'
        <3>1. proc[i].pc \in RedisPcs
            BY <2>10 DEF Unindex, SetDoc, AddIndex, RedisPcs, WritePcs
        <3> QED BY <2>0, <3>1 DEF ProcOK
    <2>11. ASSUME NEW i \in Procs, Abort(i) PROVE DocumentsOK'
        <3>1. UNCHANGED <<doc, since, service>> /\ proc' = [proc EXCEPT ![i] = Idle] /\ Idle.pc # "commit"
            BY <2>11 DEF Abort, Set, Idle
        <3> QED BY <2>2, <3>1
    <2>12. CASE Rename \/ Create
        <3> DEFINE n == service'.name
        <3>1. /\ proc' = proc /\ doc' = Renamed(n) /\ since' = since
              /\ \A i \in Procs : proc[i].pc # "commit"
            BY <2>12, RenameIs, CreateIs DEF Rename, Create, ServiceLocked, InTransaction
        <3>2. n \in Nat
            <4>1. service.name \in Nat /\ service \in [live : BOOLEAN, name : Nat]
                BY DEF TypeOK
            <4>2. service' = [service EXCEPT !.name = @ + 1] \/ service' = [live |-> TRUE, name |-> service.name + 1]
                BY <2>12 DEF Rename, Create
            <4> QED BY <4>1, <4>2
        <3> HIDE DEF n
        <3>3. ASSUME NEW t \in Tasks PROVE DocOK(t)'
            <4>1. CASE doc[t] = None
                <5>1. doc'[t] = None
                    BY <3>1, <4>1 DEF Renamed
                <5> QED BY <2>0, <3>1, <4>1, <5>1 DEF DocOK
            <4>2. CASE doc[t] # None
                <5>1. doc'[t] = [doc[t] EXCEPT !.name = n] /\ doc[t] \in Rows
                    BY <3>1, <4>2 DEF Renamed
                <5>2. DocOK(t)
                    BY <2>0
                <5>3. doc'[t] # None /\ Spans(doc'[t]) /\ doc'[t].seen = doc[t].seen /\ doc'[t].name = n
                    BY <3>2, <4>2, <5>1, <5>2, Renames, SpansRenamed DEF DocOK
                <5> QED BY <3>1, <4>2, <5>2, <5>3 DEF DocOK, Spans, n
            <4> QED BY <4>1, <4>2
        <3> QED BY <3>1, <3>3 DEF DocumentsOK
    <2>13. CASE Delete
        <3>1. /\ proc' = proc /\ doc' = [t \in Tasks |-> None] /\ since' = [t \in Tasks |-> {}]
              /\ service' = [service EXCEPT !.live = FALSE] /\ service \in [live : BOOLEAN, name : Nat]
            BY <2>13, DeleteIs DEF Delete, TypeOK
        <3>2. ~service'.live
            BY <3>1
        <3>3. \A t \in Tasks : DocOK(t)'
            BY <3>1 DEF DocOK
        <3>4. ASSUME NEW i \in Procs, proc'[i].pc = "commit" PROVE TransactionOK(i)'
            <4>1. TransactionOK(i) /\ proc[i].task \in Tasks
                BY <2>0, <3>1, <3>4, IngestAssumption DEF ProcOK, EventPcs
            <4>2. doc'[proc[i].task] = None
                BY <3>1, <4>1
            <4> QED BY <3>1, <3>2, <4>1, <4>2 DEF TransactionOK, Spans
        <3> QED BY <3>3, <3>4 DEF DocumentsOK
    <2>14. ASSUME NEW u \in Tasks, Prune(u) PROVE DocumentsOK'
        <3>1. /\ proc' = proc /\ doc' = [doc EXCEPT ![u] = None] /\ since' = [since EXCEPT ![u] = {}]
              /\ service' = service
            BY <2>14, PruneIs DEF Prune
        <3>2. \A t \in Tasks : (t = u /\ doc'[t] = None /\ since'[t] = {}) \/ (doc'[t] = doc[t] /\ since'[t] = since[t])
            BY <3>1
        <3>3. ASSUME NEW t \in Tasks PROVE DocOK(t)'
            BY <2>0, <3>1, <3>2 DEF DocOK, Spans
        <3>4. ASSUME NEW i \in Procs, proc'[i].pc = "commit" PROVE TransactionOK(i)'
            <4>1. TransactionOK(i) /\ proc[i].task \in Tasks
                BY <2>0, <3>1, <3>4, IngestAssumption DEF ProcOK, EventPcs
            <4>2. doc'[proc[i].task] = None \/ (doc'[proc[i].task] = doc[proc[i].task] /\ since'[proc[i].task] = since[proc[i].task])
                BY <3>2, <4>1
            <4> QED BY <3>1, <4>1, <4>2 DEF TransactionOK, Spans
        <3> QED BY <3>3, <3>4 DEF DocumentsOK
    <2>15. CASE RegistryDone \/ DeleteDoc \/ \E t \in Tasks : RenameNext(t) \/ DeleteNext(t)
        <3>1. "registry" \in Procs /\ proc["registry"].pc \in RedisPcs
            BY <2>15 DEF RegistryDone, DeleteDoc, RenameNext, DeleteNext, RedisPcs, RegistryPcs, Procs
        <3> QED BY <2>0, <3>1 DEF ProcOK
    <2> QED BY <2>3, <2>4, <2>5, <2>6, <2>7, <2>8, <2>9, <2>10, <2>11, <2>12, <2>13, <2>14, <2>15 DEF Next, Ingest
<1> QED BY <1>1, <1>2

-----------------------------------------------------------------------------
(* The inductive invariant, and what follows from it.                      *)
LEMMA IInvInit ==
    ASSUME Init
    PROVE  IInv
<1>1. mode \in {"postgres", "redis"} /\ "pull" \in Procs
    BY IngestAssumption DEF Init, Procs
<1>2. \A i \in Procs : proc[i] = Idle
    BY DEF Init
<1>3. TypeOK
    <2>1. Idle \in ProcType
        BY IdleIs, RecType DEF Pcs, FeedPcs
    <2>2. sync \in [stored : Nat, newest : Nat, after : Nat, last : BOOLEAN, pages : Nat]
        BY DEF Init, NoSync
    <2>3. service \in [live : BOOLEAN, name : Nat]
        BY DEF Init
    <2>4. emitted \in 0 .. MaxEvents
        BY Bounds DEF Init
    <2>5. proc \in [Procs -> ProcType]
        BY <2>1 DEF Init
    <2> QED BY <2>2, <2>3, <2>4, <2>5 DEF Init, TypeOK
<1>4. ProcsOK
    BY <1>2 DEF ProcsOK, ProcOK, Idle, FeedPcs, WritePcs, RegistryPcs, RedisPcs, EventPcs
<1>5. FeedShape
    BY DEF Init, FeedShape
<1>6. KeysCovered /\ CursorOK
    BY DEF Init, KeysCovered, CursorOK
<1>7. SyncOK
    BY <1>1, <1>2 DEF SyncOK, Idle
<1>8. FindableOK
    BY DEF Init, FindableOK
<1>9. DocumentsOK
    BY <1>2 DEF Init, DocumentsOK, DocOK, Idle
<1> QED BY <1>3, <1>4, <1>5, <1>6, <1>7, <1>8, <1>9 DEF IInv

LEMMA IInvNext ==
    ASSUME IInv, [Next]_vars
    PROVE  IInv'
<1>1. CASE Next
    BY <1>1, TypesKept, KeysKept, CursorKept, SyncKept, FindableKept, DocumentsKept DEF IInv
<1>2. CASE UNCHANGED vars
    <2> USE <1>2 DEF vars
    <2>1. TypeOK' /\ FeedShape'
        BY DEF IInv, TypeOK, FeedShape
    <2>2. ProcsOK'
        BY DEF IInv, ProcsOK, ProcOK
    <2>3. KeysCovered' /\ CursorOK'
        BY DEF IInv, KeysCovered, CursorOK, Covered
    <2>4. SyncOK'
        BY DEF IInv, SyncOK, Reached, PullCovered, Covered
    <2>5. FindableOK'
        BY DEF IInv, FindableOK
    <2>6. DocumentsOK'
        BY DEF IInv, DocumentsOK, DocOK, TransactionOK, Spans
    <2> QED BY <2>1, <2>2, <2>3, <2>4, <2>5, <2>6 DEF IInv
<1> QED BY <1>1, <1>2

LEMMA SpansAreEnds ==
    ASSUME NEW r \in Rows, Spans(r)
    PROVE  /\ r.first = Min({Time[e] : e \in r.seen})
           /\ r.last = Max({Time[e] : e \in r.seen})
<1> DEFINE S == {Time[e] : e \in r.seen}
<1>1. r.seen \subseteq Events
    BY DEF Rows
<1>2. S \subseteq Nat
    BY <1>1, IngestAssumption
<1>3. r.first \in S /\ r.last \in S
    BY DEF Spans
<1>4. \A y \in S : r.first <= y /\ y <= r.last
    BY DEF Spans
<1> HIDE DEF S
<1>5. r.first = Min(S)
    BY <1>2, <1>3, <1>4, MinOf
<1>6. r.last = Max(S)
    BY <1>2, <1>3, <1>4, MaxOf
<1> QED BY <1>5, <1>6 DEF S

LEMMA IInvSound ==
    ASSUME IInv
    PROVE  FeedCovered /\ DocumentSound
<1>1. CursorCovers
    BY DEF IInv, CursorOK, Covered, CursorCovers
<1>2. Findable
    BY DEF IInv, FindableOK, Findable
<1>3. ASSUME mode = "postgres", NEW t \in Tasks, doc[t] # None
      PROVE  /\ since[t] \subseteq doc[t].seen /\ doc[t].first = Min({Time[e] : e \in doc[t].seen})
             /\ doc[t].last = Max({Time[e] : e \in doc[t].seen})
             /\ service.live => doc[t].name = service.name
    <2>1. Spans(doc[t]) /\ since[t] \subseteq doc[t].seen /\ (service.live => doc[t].name = service.name)
        BY <1>3 DEF IInv, DocumentsOK, DocOK
    <2>2. doc[t] \in Rows
        BY <1>3 DEF IInv, TypeOK
    <2> QED BY <2>1, <2>2, SpansAreEnds
<1>4. DocumentComplete /\ DocumentNamed
    BY <1>3 DEF DocumentComplete, DocumentNamed
<1> QED BY <1>1, <1>2, <1>4 DEF FeedCovered, DocumentSound

LEMMA IngestInvariant == Spec => []IInv
BY IInvInit, IInvNext, PTL DEF Spec

(* Whatever the length of the feed, the size and number of the pages and   *)
(* the failures on the way: the pull cursor never passes an event that is  *)
(* still in the feed and neither stored nor accounted for, although the    *)
(* feed grows and evicts between two pages (sync_service); and on Redis a  *)
(* document nobody is writing is in the set of its status.                 *)
THEOREM FeedIsCovered == Spec => []FeedCovered
BY IngestInvariant, IInvSound, PTL

(* For every set of tasks, any interleaving of pulled and pushed events,   *)
(* renames, deletions and retention: on PostgreSQL the document of a task  *)
(* has counted every event stored since it was created, its times are the  *)
(* ends of their timestamps, and it carries the name the registry gave.    *)
THEOREM DocumentsAreSound == Spec => []DocumentSound
BY IngestInvariant, IInvSound, PTL

-----------------------------------------------------------------------------
(* Listings: a set of numbers has a least one.                             *)
LEMMA LeastNumber ==
    ASSUME NEW S, S \subseteq Nat, S # {}
    PROVE  \E n \in S : \A m \in S : n <= m
<1>1. PICK n \in S : \A m \in S : <<m, n>> \notin OpToRel(<, Nat)
  BY NatLessThanWellFounded, WFMin
<1>2. \A m \in S : ~(m < n)
  BY <1>1 DEF OpToRel
<1> QED BY <1>2

-----------------------------------------------------------------------------
(* SearchPages: the inductive invariant.                                   *)

SearchEntries == [id : Documents, at : Nat]
SearchType ==
    /\ searchStore \in {"redis", "postgres", "events"} /\ seenAt \in [Documents -> Nat]
    /\ searchCursor \in SearchEntries \cup {Nothing} /\ searchStep \in {"read", "swept", "ended"}
    /\ shownDocs \in [Documents -> Nat]
    /\ searchStore = "postgres" => searchStep # "swept"
    /\ searchStep = "ended" => searchCursor = Nothing

(* What nothing happened to is there, and nobody is about to delete it.    *)
UntouchedThere ==
    \A d \in untouched : d \in Documents /\ Exists(d) /\ d \notin outdated /\ d \notin purging

(* The search has shown it, or it comes behind the cursor.                 *)
UpToCursor ==
    \A d \in untouched :
        /\ searchCursor # Nothing => shownDocs[d] >= 1 \/ Before(searchCursor, Dated(d))
        /\ searchCursor = Nothing /\ searchStep # "read" => shownDocs[d] >= 1
(* On PostgreSQL it is not shown before the cursor has reached it.         *)
NotYetShown ==
    searchStore = "postgres" => \A d \in untouched :
        /\ shownDocs[d] <= 1
        /\ searchCursor = Nothing /\ searchStep = "read" => shownDocs[d] = 0
        /\ searchCursor # Nothing /\ Before(searchCursor, Dated(d)) => shownDocs[d] = 0

SearchInv == SearchType /\ UntouchedThere /\ UpToCursor /\ NotYetShown

-----------------------------------------------------------------------------
(* The order of the list.                                                  *)
LEMMA SearchOrder ==
    /\ \A x, y \in SearchEntries : ~(Before(x, y) /\ Before(y, x))
    /\ \A x, y \in SearchEntries : x = y \/ Before(x, y) \/ Before(y, x)
    /\ \A x, y, z \in SearchEntries : Before(x, y) /\ Before(y, z) => Before(x, z)
    /\ \A x \in SearchEntries : ~Before(x, x)
<1>1. \A x \in SearchEntries : x.id \in Nat /\ x.at \in Nat /\ x = [id |-> x.id, at |-> x.at]
  <2>1. \A x \in SearchEntries : x.id \in Documents /\ x.at \in Nat /\ x = [id |-> x.id, at |-> x.at]
    BY DEF SearchEntries
  <2> QED BY <2>1, SearchAssumption
<1>2. \A x, y \in SearchEntries : ~(Before(x, y) /\ Before(y, x))
  BY <1>1 DEF Before
<1>3. \A x, y, z \in SearchEntries : Before(x, y) /\ Before(y, z) => Before(x, z)
  BY <1>1 DEF Before
<1>4. ASSUME NEW x \in SearchEntries, NEW y \in SearchEntries PROVE x = y \/ Before(x, y) \/ Before(y, x)
  BY <1>1 DEF Before
<1>5. \A x \in SearchEntries : ~Before(x, x)
  BY <1>1 DEF Before
<1> QED BY <1>2, <1>3, <1>4, <1>5


(* A set of entries has a last one; if it is finite, as many as a page has *)
(* come first.                                                             *)
LEMMA LastEntry ==
    ASSUME NEW S, S \subseteq SearchEntries, S # {}
    PROVE  \E x \in S : \A y \in S : ~Before(x, y)
<1>1. \A x \in S : x.id \in Nat /\ x.at \in Nat
  BY SearchAssumption DEF SearchEntries
<1>2. PICK n \in {x.at : x \in S} : \A m \in {x.at : x \in S} : n <= m
  BY <1>1, LeastNumber
<1> DEFINE T == {x \in S : x.at = n}
<1>3. PICK i \in {x.id : x \in T} : \A j \in {x.id : x \in T} : i <= j
  BY <1>1, <1>2, LeastNumber
<1>4. PICK x \in T : x.id = i
  BY <1>3
<1>5. ASSUME NEW y \in S, Before(x, y) PROVE FALSE
  <2>1. n <= y.at /\ x.at = n /\ x \in S
    BY <1>2, <1>4
  <2>2. y.at = n /\ x.id > y.id
    BY <1>1, <1>5, <2>1 DEF Before
  <2>3. i <= y.id
    BY <1>3, <2>2
  <2> QED BY <1>1, <1>4, <2>1, <2>2, <2>3
<1> QED BY <1>4, <1>5

LEMMA FoundFacts ==
    ASSUME SearchType
    PROVE  /\ Found \subseteq SearchEntries /\ IsFiniteSet(Found) /\ BehindCursor \subseteq Found
           /\ \A x \in Found : x.id \in Documents /\ x = Dated(x.id)
           /\ \A d \in Documents : Dated(d).id = d /\ Dated(d) \in SearchEntries
<1>1. \A d \in Documents : Dated(d).id = d /\ Dated(d) \in SearchEntries
  BY DEF SearchType, SearchEntries, Dated
<1>2. IsFiniteSet({x \in Documents \ outdated : Exists(x)})
  BY SearchAssumption, FS_Subset
<1>3. IsFiniteSet(Found)
  <2> DEFINE S == {x \in Documents \ outdated : Exists(x)}
             f == [d \in S |-> Dated(d)]
  <2>1. Found = {f[d] : d \in S}
    BY DEF Found
  <2>2. f \in Surjection(S, Found)
    BY <2>1 DEF Surjection
  <2> HIDE DEF f
  <2> QED BY <1>2, <2>2, FS_Surjection
<1>4. Found \subseteq SearchEntries /\ \A x \in Found : x.id \in Documents /\ x = Dated(x.id)
  BY <1>1 DEF Found
<1>5. BehindCursor \subseteq Found
  BY DEF BehindCursor
<1> QED BY <1>1, <1>3, <1>4, <1>5

(* A page starts at the front of what it is cut from.                      *)
LEMMA SearchPageFacts ==
    ASSUME SearchType
    PROVE  /\ SearchPage \subseteq BehindCursor
           /\ BehindCursor # {} => SearchPage # {}
           /\ \A x \in SearchPage, y \in BehindCursor : Before(y, x) => y \in SearchPage
<1> DEFINE R == BehindCursor
           ahead(x) == {y \in R : Before(y, x)}
<1>1. R \subseteq SearchEntries /\ IsFiniteSet(R)
  BY FoundFacts, FS_Subset
<1>2. \A x : IsFiniteSet(ahead(x)) /\ Cardinality(ahead(x)) \in Nat
  BY <1>1, FS_Subset, FS_CardinalityType
<1>3. SearchPage = {x \in R : Cardinality(ahead(x)) < SearchLimit}
  BY DEF SearchPage
<1>4. ASSUME NEW x \in R, NEW y \in R, Before(y, x)
      PROVE  Cardinality(ahead(y)) < Cardinality(ahead(x))
  <2>1. ahead(y) \subseteq ahead(x)
    BY <1>1, <1>4, SearchOrder
  <2>2. y \in ahead(x) /\ y \notin ahead(y)
    BY <1>1, <1>4, SearchOrder
  <2> HIDE DEF ahead
  <2> QED BY <1>2, <2>1, <2>2, FS_Subset
<1> HIDE DEF ahead, R
<1>5. ASSUME R # {} PROVE SearchPage # {}
  <2> DEFINE S == {Cardinality(ahead(x)) : x \in R}
  <2>1. S \subseteq Nat /\ S # {}
    BY <1>2, <1>5
  <2>2. PICK n \in S : \A m \in S : n <= m
    BY <2>1, LeastNumber
  <2>3. PICK x \in R : n = Cardinality(ahead(x))
    BY <2>2
  <2>4. \A y \in R : ~Before(y, x)
    <3> SUFFICES ASSUME NEW y \in R, Before(y, x) PROVE FALSE
      OBVIOUS
    <3>1. Cardinality(ahead(y)) < n /\ Cardinality(ahead(y)) \in S
      BY <1>4, <2>3
    <3> QED BY <1>2, <2>1, <2>2, <3>1
  <2>5. ahead(x) = {}
    BY <2>4 DEF ahead
  <2>6. Cardinality(ahead(x)) = 0
    BY <2>5, FS_EmptySet
  <2> QED BY <1>3, <2>3, <2>6, SearchAssumption
<1>6. ASSUME NEW x \in SearchPage, NEW y \in R, Before(y, x) PROVE y \in SearchPage
  <2>1. x \in R /\ Cardinality(ahead(x)) < SearchLimit
    BY <1>3
  <2>2. Cardinality(ahead(y)) < Cardinality(ahead(x))
    BY <1>4, <1>6, <2>1
  <2> QED BY <1>2, <1>3, <2>1, <2>2, SearchAssumption
<1> QED BY <1>3, <1>5, <1>6 DEF R

LEMMA LastOnPageFacts ==
    ASSUME SearchType, SearchPage # {}
    PROVE  LastOnPage \in SearchPage /\ \A y \in SearchPage : ~Before(LastOnPage, y)
<1>1. SearchPage \subseteq SearchEntries
  BY SearchPageFacts, FoundFacts
<1>2. \E x \in SearchPage : \A y \in SearchPage : ~Before(x, y)
  BY <1>1, LastEntry
<1> QED BY <1>2 DEF LastOnPage

-----------------------------------------------------------------------------
LEMMA SearchInitially == SearchInit => SearchInv
<1> SUFFICES ASSUME SearchInit PROVE SearchInv
  OBVIOUS
<1>1. SearchType
  BY SearchAssumption DEF SearchInit, SearchType
<1>2. UntouchedThere
  BY DEF SearchInit, UntouchedThere
<1>3. UpToCursor /\ NotYetShown
  BY <1>2 DEF SearchInit, UpToCursor, NotYetShown, UntouchedThere
<1> QED BY <1>1, <1>2, <1>3 DEF SearchInv

LEMMA SearchRequestKeeps == ASSUME SearchInv, SearchRequest PROVE SearchInv'
<1> DEFINE P == SearchPage
           R == BehindCursor
           onPage(d) == \E x \in P : x.id = d
<1>1. /\ searchStep = "read"
      /\ shownDocs' = [d \in Documents |-> IF onPage(d) THEN shownDocs[d] + 1 ELSE shownDocs[d]]
      /\ searchCursor' = IF P # R THEN LastOnPage ELSE Nothing
      /\ purging' = IF searchStore = "redis" THEN outdated ELSE {}
      /\ searchStep' = IF purging' # {} THEN "swept" ELSE IF searchCursor' = Nothing THEN "ended" ELSE "read"
      /\ UNCHANGED <<searchStore, seenAt, outdated, untouched, searchChanges>>
  BY DEF SearchRequest
<1>2. /\ SearchType
      /\ P \subseteq R /\ (R # {} => P # {}) /\ \A x \in P, y \in R : Before(y, x) => y \in P
      /\ R \subseteq Found /\ Found \subseteq SearchEntries
      /\ \A x \in Found : x.id \in Documents /\ x = Dated(x.id)
      /\ \A d \in Documents : Dated(d).id = d /\ Dated(d) \in SearchEntries
  BY SearchPageFacts, FoundFacts DEF SearchInv
<1>3. P # R => LastOnPage \in P /\ \A y \in P : ~Before(LastOnPage, y)
  BY <1>2, LastOnPageFacts
<1>4. \A d \in Documents : Dated(d)' = Dated(d) /\ Exists(d)' = Exists(d)
  BY <1>1 DEF Dated, Exists
<1>5. \A d \in untouched : /\ d \in Documents /\ Dated(d) \in Found
                           /\ onPage(d) <=> Dated(d) \in P
  <2> SUFFICES ASSUME NEW d \in untouched PROVE d \in Documents /\ Dated(d) \in Found /\ (onPage(d) <=> Dated(d) \in P)
    OBVIOUS
  <2>1. d \in Documents /\ Dated(d) \in Found
    BY DEF SearchInv, UntouchedThere, Found
  <2>2. \A x \in P : x.id = d => x = Dated(d)
    BY <1>2
  <2> QED BY <1>2, <2>1, <2>2
<1>6. \A x \in Found : x \in R \/ (searchCursor # Nothing /\ ~Before(searchCursor, x))
  BY DEF BehindCursor
<1>7. /\ searchCursor # Nothing /\ searchStore = "postgres" => \A x \in R : Before(searchCursor, x)
  BY DEF BehindCursor
<1> HIDE DEF P, R
<1>8. shownDocs \in [Documents -> Nat] /\ \A d \in Documents : shownDocs'[d] = IF onPage(d) THEN shownDocs[d] + 1 ELSE shownDocs[d]
  BY <1>1, <1>2 DEF SearchType
<1> HIDE DEF onPage
<1>9. \A d \in Documents : shownDocs[d] \in Nat /\ shownDocs'[d] \in Nat
  BY <1>8
<1>10. LastOnPage \in SearchEntries \/ P = R
  BY <1>2, <1>3
<1>11. Nothing \notin SearchEntries
  BY SearchAssumption DEF SearchEntries
<1>12. SearchType'
  <2>1. shownDocs' \in [Documents -> Nat]
    BY <1>1, <1>9
  <2>2. searchCursor' \in SearchEntries \cup {Nothing}
    BY <1>1, <1>10
  <2>3. searchStore' = "postgres" => searchStep' # "swept"
    BY <1>1
  <2> QED BY <1>1, <1>2, <2>1, <2>2, <2>3 DEF SearchType
<1>13. UntouchedThere'
  BY <1>1, <1>4 DEF SearchInv, UntouchedThere
<1>14. UpToCursor'
  <2> SUFFICES ASSUME NEW d \in untouched
               PROVE  /\ searchCursor' # Nothing => shownDocs'[d] >= 1 \/ Before(searchCursor', Dated(d))
                      /\ searchCursor' = Nothing /\ searchStep' # "read" => shownDocs'[d] >= 1
    BY <1>1, <1>4, <1>5 DEF UpToCursor
  <2>1. d \in Documents /\ Dated(d) \in Found /\ (onPage(d) <=> Dated(d) \in P) /\ Dated(d) \in SearchEntries
    BY <1>2, <1>5
  <2>2. CASE Dated(d) \in P
    BY <1>8, <1>9, <2>1, <2>2
  <2>3. CASE Dated(d) \notin R
    <3>1. searchCursor # Nothing /\ ~Before(searchCursor, Dated(d))
      BY <1>6, <2>1, <2>3
    <3>2. shownDocs[d] >= 1
      BY <3>1 DEF SearchInv, UpToCursor
    <3> QED BY <1>8, <1>9, <2>1, <3>2
  <2>4. CASE Dated(d) \in R /\ Dated(d) \notin P
    <3>1. P # R /\ searchCursor' = LastOnPage /\ LastOnPage \in P /\ LastOnPage \in SearchEntries
      BY <1>1, <1>2, <1>3, <2>4
    <3>2. ~Before(Dated(d), LastOnPage)
      BY <1>2, <2>4, <3>1
    <3>3. Before(LastOnPage, Dated(d))
      BY <2>1, <2>4, <3>1, <3>2, SearchOrder
    <3> QED BY <1>11, <3>1, <3>3
  <2> QED BY <2>2, <2>3, <2>4
<1>15. NotYetShown'
  <2> SUFFICES ASSUME searchStore = "postgres", NEW d \in untouched
               PROVE  /\ shownDocs'[d] <= 1
                      /\ ~(searchCursor' = Nothing /\ searchStep' = "read")
                      /\ searchCursor' # Nothing /\ Before(searchCursor', Dated(d)) => shownDocs'[d] = 0
    BY <1>1, <1>4, <1>5 DEF NotYetShown
  <2>1. d \in Documents /\ Dated(d) \in Found /\ (onPage(d) <=> Dated(d) \in P) /\ Dated(d) \in SearchEntries
    BY <1>2, <1>5
  <2>2. Dated(d) \in R => shownDocs[d] = 0
    BY <1>1, <1>7 DEF SearchInv, NotYetShown
  <2>3. shownDocs[d] <= 1
    BY DEF SearchInv, NotYetShown
  <2>4. shownDocs'[d] <= 1
    <3>1. CASE Dated(d) \in P
      BY <1>2, <1>8, <1>9, <2>1, <2>2, <3>1
    <3>2. CASE Dated(d) \notin P
      BY <1>8, <2>1, <2>3, <3>2
    <3> QED BY <3>1, <3>2
  <2>5. ASSUME searchCursor' # Nothing, Before(searchCursor', Dated(d)) PROVE shownDocs'[d] = 0
    <3>1. searchCursor' = LastOnPage /\ LastOnPage \in P /\ \A y \in P : ~Before(LastOnPage, y)
      BY <1>1, <1>3, <2>5
    <3>2. Dated(d) \notin P
      BY <2>5, <3>1
    <3>3. Dated(d) \in R
      <4>1. CASE searchCursor = Nothing
        BY <1>6, <2>1, <4>1
      <4>2. CASE searchCursor # Nothing
        <5>1. Before(searchCursor, LastOnPage) /\ LastOnPage \in SearchEntries /\ searchCursor \in SearchEntries
          BY <1>2, <1>7, <3>1, <4>2 DEF SearchType
        <5>2. Before(searchCursor, Dated(d))
          BY <2>1, <2>5, <3>1, <5>1, SearchOrder
        <5> QED BY <1>6, <2>1, <5>2
      <4> QED BY <4>1, <4>2
    <3> QED BY <1>8, <2>1, <2>2, <3>2, <3>3
  <2> QED BY <1>1, <2>4, <2>5
<1> QED BY <1>12, <1>13, <1>14, <1>15 DEF SearchInv

LEMMA DeleteExpiredKeeps == ASSUME SearchInv, DeleteExpired PROVE SearchInv'
<1>1. /\ searchStep = "swept" /\ purging' = {} /\ outdated' = outdated \ purging
      /\ seenAt' = [d \in Documents |-> IF d \in purging THEN 0 ELSE seenAt[d]]
      /\ searchStep' = IF searchCursor = Nothing THEN "ended" ELSE "read"
      /\ UNCHANGED <<searchStore, untouched, searchCursor, shownDocs, searchChanges>>
  BY DEF DeleteExpired
<1>2. SearchType'
  BY <1>1 DEF SearchInv, SearchType
<1>3. \A d \in untouched : seenAt'[d] = seenAt[d]
  BY <1>1 DEF SearchInv, UntouchedThere
<1>4. \A d \in untouched : Dated(d)' = Dated(d) /\ Exists(d)' = Exists(d)
  BY <1>3 DEF Dated, Exists
<1>5. UntouchedThere'
  BY <1>1, <1>4 DEF SearchInv, UntouchedThere
<1>6. UpToCursor' /\ NotYetShown'
  BY <1>1, <1>4 DEF SearchInv, UpToCursor, NotYetShown, SearchType
<1> QED BY <1>2, <1>5, <1>6 DEF SearchInv

(* What happens to one document leaves the search and the others alone.    *)
LEMMA DocumentChangeKeeps ==
    ASSUME SearchInv, NEW d \in Documents, DocumentChanged(d), seenAt' \in [Documents -> Nat],
           \A e \in Documents : e # d => seenAt'[e] = seenAt[e],
           outdated' \subseteq outdated \cup {d}
    PROVE  SearchInv'
<1>1. /\ untouched' = untouched \ {d}
      /\ UNCHANGED <<searchStore, purging, searchCursor, searchStep, shownDocs>>
  BY DEF DocumentChanged
<1>2. SearchType'
  BY <1>1 DEF SearchInv, SearchType
<1>3. \A e \in untouched' : e \in untouched /\ e # d /\ e \in Documents
  BY <1>1 DEF SearchInv, UntouchedThere
<1>4. \A e \in untouched' : Dated(e)' = Dated(e) /\ Exists(e)' = Exists(e)
  BY <1>3 DEF Dated, Exists
<1>5. UntouchedThere'
  BY <1>1, <1>3, <1>4 DEF SearchInv, UntouchedThere
<1>6. UpToCursor' /\ NotYetShown'
  BY <1>1, <1>3, <1>4 DEF SearchInv, UpToCursor, NotYetShown
<1> QED BY <1>2, <1>5, <1>6 DEF SearchInv

LEMMA SearchKept == SearchInv /\ [SearchNext]_searchVars => SearchInv'
<1> SUFFICES ASSUME SearchInv, [SearchNext]_searchVars PROVE SearchInv'
  OBVIOUS
<1>1. CASE SearchRequest
  BY <1>1, SearchRequestKeeps
<1>2. CASE DeleteExpired
  BY <1>2, DeleteExpiredKeeps
<1>3. ASSUME NEW d \in Documents, NEW t \in 1..MaxSeenAt, TaskSeen(d, t) PROVE SearchInv'
  <2>1. DocumentChanged(d) /\ seenAt' = [seenAt EXCEPT ![d] = t] /\ outdated' = outdated \ {d}
    BY <1>3 DEF TaskSeen
  <2>2. seenAt' \in [Documents -> Nat] /\ \A e \in Documents : e # d => seenAt'[e] = seenAt[e]
    BY <2>1, SearchAssumption DEF SearchInv, SearchType
  <2> QED BY <2>1, <2>2, DocumentChangeKeeps
<1>4. ASSUME NEW d \in Documents, DocumentExpires(d) PROVE SearchInv'
  BY <1>4, DocumentChangeKeeps DEF DocumentExpires, SearchInv, SearchType
<1>5. ASSUME NEW d \in Documents, DocumentPruned(d) PROVE SearchInv'
  <2>1. DocumentChanged(d) /\ seenAt' = [seenAt EXCEPT ![d] = 0] /\ outdated' = outdated \ {d}
    BY <1>5 DEF DocumentPruned
  <2>2. seenAt' \in [Documents -> Nat] /\ \A e \in Documents : e # d => seenAt'[e] = seenAt[e]
    BY <2>1 DEF SearchInv, SearchType
  <2> QED BY <2>1, <2>2, DocumentChangeKeeps
<1>6. CASE UNCHANGED searchVars
  BY <1>6 DEF searchVars, SearchInv, SearchType, UntouchedThere, UpToCursor, NotYetShown, Dated, Exists
<1> QED BY <1>1, <1>2, <1>3, <1>4, <1>5, <1>6 DEF SearchNext

(* For any documents, page size and number of changes between the pages, a *)
(* document nothing happened to is shown by the end of a search, and on    *)
(* PostgreSQL once.                                                        *)
THEOREM SearchIsComplete == SearchInit /\ [][SearchNext]_searchVars => []SearchComplete
<1>1. SearchInv => SearchComplete
  <2> SUFFICES ASSUME SearchInv, NEW d \in untouched
               PROVE  /\ searchStep = "ended" => shownDocs[d] >= 1
                      /\ searchStore = "postgres" => shownDocs[d] <= 1
    BY DEF SearchComplete
  <2> QED BY DEF SearchInv, SearchType, UpToCursor, NotYetShown
<1>2. SearchInit => SearchInv
  BY SearchInitially
<1>3. SearchInv /\ [SearchNext]_searchVars => SearchInv'
  BY SearchKept
<1> QED BY <1>1, <1>2, <1>3, PTL

-----------------------------------------------------------------------------
(* FailedTaskPages: how many items of a list are above one.                *)

LEMMA IdsFinite == \A S \in SUBSET FailureIds : IsFiniteSet(S) /\ S \subseteq Nat
<1>1. IsFiniteSet(FailureIds) /\ FailureIds \subseteq Nat
  BY PagesAssumption, FS_Interval DEF FailureIds
<1> QED BY <1>1, FS_Subset

LEMMA FirstAndLast ==
    ASSUME NEW S \in SUBSET FailureIds, S # {}
    PROVE  /\ Max(S) \in S /\ \A x \in S : x <= Max(S)
           /\ Min(S) \in S /\ \A x \in S : Min(S) <= x
<1>1. S \subseteq Nat /\ MaxFailedAt \in Nat /\ \A x \in S : x <= MaxFailedAt
  BY IdsFinite, PagesAssumption DEF FailureIds
<1>2. \E x \in S : \A y \in S : x <= y
  BY <1>1, LeastNumber
<1>3. \E x \in S : \A y \in S : x >= y
  <2> DEFINE T == {MaxFailedAt - x : x \in S}
  <2>1. \A x \in S : MaxFailedAt - x \in Nat
    BY <1>1
  <2>2a. T \subseteq Nat /\ T # {}
    <3> HIDE DEF T
    <3>1. \A m \in T : \E x \in S : m = MaxFailedAt - x
      BY DEF T
    <3>2. PICK x \in S : TRUE
      OBVIOUS
    <3>3. MaxFailedAt - x \in T
      BY DEF T
    <3> QED BY <2>1, <3>1, <3>3
  <2>2. PICK n \in T : \A m \in T : n <= m
    BY <2>2a, LeastNumber
  <2>3. PICK x \in S : n = MaxFailedAt - x
    BY <2>2
  <2>4. ASSUME NEW y \in S PROVE x >= y
    <3>1. n <= MaxFailedAt - y
      BY <2>2
    <3> QED BY <1>1, <2>3, <3>1
  <2> QED BY <2>3, <2>4
<1>4. Min(S) \in S /\ \A x \in S : Min(S) <= x
  BY <1>2 DEF Min
<1>5. Max(S) \in S /\ \A x \in S : Max(S) >= x
  BY <1>3 DEF Max
<1> QED BY <1>1, <1>4, <1>5

LEMMA AboveFacts ==
    ASSUME NEW S \in SUBSET FailureIds
    PROVE  /\ \A f : Above(f, S) \in Nat
           /\ \A f \in S, g \in S : f < g => Above(g, S) < Above(f, S)
           /\ \A f \in S, g \in S : Above(g, S) < Above(f, S) => f < g
<1>1. \A f : IsFiniteSet({g \in S : g > f})
  BY IdsFinite, FS_Subset
<1>2. \A f : Above(f, S) \in Nat
  BY <1>1, FS_CardinalityType DEF Above
<1>3. ASSUME NEW f \in S, NEW g \in S, f < g PROVE Above(g, S) < Above(f, S)
  <2> DEFINE A == {h \in S : h > g}
             B == {h \in S : h > f}
  <2>0. S \subseteq Nat /\ f \in Nat /\ g \in Nat
    BY IdsFinite
  <2>1a. \A h \in Nat : h > g => h > f
    BY <1>3, <2>0
  <2>1b. A \subseteq B
    BY <2>0, <2>1a
  <2>1c. g \in B /\ g \notin A
    BY <1>3, <2>0
  <2>1. A \subseteq B /\ g \in B /\ g \notin A
    BY <2>1b, <2>1c
  <2>2. IsFiniteSet(B) /\ Cardinality(A) \in Nat /\ Cardinality(B) \in Nat
    BY <1>1, FS_CardinalityType
  <2>3. Above(g, S) = Cardinality(A) /\ Above(f, S) = Cardinality(B)
    BY DEF Above
  <2> HIDE DEF A, B
  <2> QED BY <2>1, <2>2, <2>3, FS_Subset
<1>4. ASSUME NEW f \in S, NEW g \in S, Above(g, S) < Above(f, S) PROVE f < g
  <2>1. f \in Nat /\ g \in Nat
    BY IdsFinite
  <2>2. g < f => FALSE
    BY <1>2, <1>3, <1>4
  <2>3. g # f
    BY <1>2, <1>4
  <2> QED BY <2>1, <2>2, <2>3
<1> QED BY <1>2, <1>3, <1>4

(* The first n of a list, and their places in it.                          *)
LEMMA FirstFacts ==
    ASSUME NEW S \in SUBSET FailureIds, NEW n \in Nat
    PROVE  LET A == {f \in S : Above(f, S) < n}
           IN  /\ \A f \in A, g \in S : f < g => g \in A
               /\ \A f \in A : Above(f, A) = Above(f, S)
               /\ S # {} /\ n > 0 => A # {}
<1> DEFINE A == {f \in S : Above(f, S) < n}
<1>1. ASSUME NEW f \in A, NEW g \in S, f < g PROVE g \in A
  <2>1. Above(g, S) < Above(f, S) /\ Above(f, S) \in Nat /\ Above(g, S) \in Nat
    BY <1>1, AboveFacts
  <2> QED BY <2>1
<1>2. ASSUME NEW f \in A PROVE Above(f, A) = Above(f, S)
  <2>1. {g \in A : g > f} = {g \in S : g > f}
    BY <1>1, IdsFinite
  <2> QED BY <2>1 DEF Above
<1>3. ASSUME S # {}, n > 0 PROVE A # {}
  <2>1. Max(S) \in S /\ \A x \in S : x <= Max(S)
    BY <1>3, FirstAndLast
  <2>2. {g \in S : g > Max(S)} = {}
    BY <2>1, IdsFinite
  <2>3. Above(Max(S), S) = 0
    BY <2>2, FS_EmptySet DEF Above
  <2> QED BY <1>3, <2>1, <2>3
<1> QED BY <1>1, <1>2, <1>3

(* The place of an item, from those above it.                              *)
LEMMA PlaceBound ==
    ASSUME NEW S \in SUBSET FailureIds, NEW n \in Nat, NEW h \in S, \A g \in S : g > h => Above(g, S) < n
    PROVE  Above(h, S) <= n
<1> DEFINE T == {g \in S : g > h}
<1>1. CASE T = {}
  BY <1>1, FS_EmptySet DEF Above
<1>2. CASE T # {}
  <2> DEFINE m == Min(T)
             U == {g \in S : g > m}
  <2>1. m \in T /\ \A x \in T : m <= x
    BY <1>2, FirstAndLast
  <2>2. Above(m, S) < n /\ m \in S /\ m > h
    BY <2>1
  <2>3. T = U \cup {m} /\ m \notin U
    BY <2>1, <2>2, IdsFinite
  <2>4. IsFiniteSet(U)
    BY IdsFinite, FS_Subset
  <2>5. Cardinality(T) = Cardinality(U) + 1 /\ Cardinality(U) \in Nat
    BY <2>3, <2>4, FS_AddElement, FS_CardinalityType
  <2>6. Above(h, S) = Cardinality(T) /\ Above(m, S) = Cardinality(U)
    BY DEF Above
  <2> QED BY <2>2, <2>5, <2>6
<1> QED BY <1>1, <1>2

LEMMA NextPlace ==
    ASSUME NEW S \in SUBSET FailureIds, NEW h \in S, NEW k \in S, k < h, \A g \in S : ~(k < g /\ g < h)
    PROVE  Above(k, S) = Above(h, S) + 1
<1> DEFINE T == {g \in S : g > h}
<1>1. {g \in S : g > k} = T \cup {h} /\ h \notin T /\ IsFiniteSet(T)
  BY IdsFinite, FS_Subset
<1>2. Cardinality(T \cup {h}) = Cardinality(T) + 1
  BY <1>1, FS_AddElement
<1> QED BY <1>1, <1>2 DEF Above

LEMMA PlaceGrows ==
    ASSUME NEW S \in SUBSET FailureIds, NEW T \in SUBSET FailureIds, S \subseteq T, NEW f
    PROVE  Above(f, S) <= Above(f, T)
<1>1. {g \in S : g > f} \subseteq {g \in T : g > f} /\ IsFiniteSet({g \in T : g > f})
  BY IdsFinite, FS_Subset
<1> QED BY <1>1, FS_Subset DEF Above

-----------------------------------------------------------------------------
(* FailedTaskPages: one service's list, by its failures at the start F and *)
(* now L, its position (cursor c, skip k, done d), its page pg, the cursor *)
(* nx that follows it, and the counts sh.                                  *)
Behind(L, c) == {f \in L : c \in L => f < c}

(* No failure is passed over: what is above the cursor, or among the items *)
(* to skip, was shown, and so was what is above the page; the page holds   *)
(* what is left down to the cursor that follows.                           *)
AllShown(F, sh) == \A f \in F : sh[f] >= 1
NonePassed(F, L, c, k, sh) ==
    /\ F \subseteq L /\ (c = 0 \/ c \in L)
    /\ \A f \in F : \/ c # 0 /\ f >= c
                    \/ f \in Behind(L, c) /\ Above(f, Behind(L, c)) < k
                    => sh[f] >= 1
PageInPlace(F, L, c, k, pg, nx, sh) ==
    pg # {} =>
        /\ pg \subseteq Behind(L, c) /\ Above(Max(pg), Behind(L, c)) >= k
        /\ \A f \in F \cap Behind(L, c) : f > Max(pg) => sh[f] >= 1
        /\ \A f \in F \cap Behind(L, c) : nx <= f /\ f <= Max(pg) => f \in pg
        /\ nx # 0 => nx \in Behind(L, c) /\ \A f \in pg : nx <= f

(* While the lists do not change: what was shown is above the place where  *)
(* the listing stands, and the page begins at that place.                  *)
NoneTwice(L, c, k, sh) ==
    /\ k <= UpstreamLimit
    /\ \A f \in FailureIds : /\ sh[f] <= 1
                             /\ sh[f] = 1 => \/ c # 0 /\ f >= c
                                             \/ f \in Behind(L, c) /\ Above(f, Behind(L, c)) < k
PageAtPlace(L, c, k, pg) ==
    pg # {} => /\ Above(Max(pg), Behind(L, c)) = k
               /\ \A f \in pg : Above(f, Behind(L, c)) < UpstreamLimit

LEMMA BehindFacts ==
    ASSUME NEW L \in SUBSET FailureIds, NEW c \in Nat
    PROVE  /\ Behind(L, c) \in SUBSET FailureIds /\ Behind(L, c) \subseteq L
           /\ \A f \in L : f \in Behind(L, c) \/ f >= c
           /\ c \in L => \A f \in Behind(L, c) : f < c
           /\ \A f \in L : f \notin Behind(L, c) => c \in L
           /\ L \subseteq Nat /\ 0 \notin L
<1>1. L \subseteq Nat
  BY IdsFinite
<1>2. 0 \notin L
  BY PagesAssumption DEF FailureIds
<1>3. Behind(L, c) \in SUBSET FailureIds /\ Behind(L, c) \subseteq L
  BY DEF Behind
<1>4. ASSUME NEW f \in L PROVE /\ f \in Behind(L, c) \/ f >= c
                               /\ f \notin Behind(L, c) => c \in L
  <2>1. f \in Nat
    BY <1>1
  <2> QED BY <2>1 DEF Behind
<1>5. c \in L => \A f \in Behind(L, c) : f < c
  BY DEF Behind
<1> QED BY <1>1, <1>2, <1>3, <1>4, <1>5

LEMMA NoneBeforeStart ==
    ASSUME NEW L \in SUBSET FailureIds, NEW c \in Nat, NEW f PROVE ~(Above(f, Behind(L, c)) < 0)
<1>1. Behind(L, c) \in SUBSET FailureIds
  BY BehindFacts
<1>2. Above(f, Behind(L, c)) \in Nat
  BY <1>1, AboveFacts
<1> QED BY <1>2

(* The answer of a service, and what is left of it behind the skip.        *)
Answer(R) == {f \in R : Above(f, R) < UpstreamLimit}
Left(R, k) == {f \in Answer(R) : Above(f, Answer(R)) >= k}
CursorAfter(R) == IF Answer(R) # R THEN Min(Answer(R)) ELSE 0
LEMMA AnswerFacts ==
    ASSUME NEW R \in SUBSET FailureIds, NEW k \in Nat, NEW A, NEW I, NEW nx,
           A = Answer(R), I = Left(R, k), nx = CursorAfter(R)
    PROVE  /\ A \subseteq R /\ I \subseteq A /\ nx \in Nat
           /\ \A f \in A : (f \in I <=> Above(f, R) >= k) /\ Above(f, R) < UpstreamLimit
           /\ \A f \in A, g \in R : f < g => g \in A
           /\ nx # 0 => nx \in A /\ \A f \in A : nx <= f
           /\ nx = 0 => A = R
           /\ \A f \in R : nx <= f => f \in A
<1>0. /\ A = {f \in R : Above(f, R) < UpstreamLimit} /\ I = {f \in A : Above(f, A) >= k}
      /\ nx = IF A # R THEN Min(A) ELSE 0
  BY DEF Answer, Left, CursorAfter
<1>1. UpstreamLimit \in Nat /\ UpstreamLimit > 0
  BY PagesAssumption
<1>2. /\ \A f \in A, g \in R : f < g => g \in A
      /\ \A f \in A : Above(f, A) = Above(f, R)
      /\ R # {} => A # {}
  BY <1>0, <1>1, FirstFacts
<1>3. A \subseteq R /\ A \in SUBSET FailureIds /\ R \subseteq Nat
  BY <1>0, IdsFinite
<1>4. CASE A = R
  BY <1>0, <1>2, <1>3, <1>4
<1>5. CASE A # R
  <2>1. A # {}
    BY <1>2, <1>3, <1>5
  <2>2. nx \in A /\ \A f \in A : nx <= f
    BY <1>0, <1>3, <1>5, <2>1, FirstAndLast
  <2>3. nx \in Nat /\ nx # 0
    BY <1>3, <2>2, PagesAssumption DEF FailureIds
  <2>4. \A f \in R : nx <= f => f \in A
    BY <1>2, <1>3, <2>2
  <2> QED BY <1>0, <1>2, <1>3, <1>5, <2>2, <2>3, <2>4
<1> QED BY <1>4, <1>5

LEMMA FetchKeeps ==
    ASSUME NEW F \in SUBSET FailureIds, NEW L \in SUBSET FailureIds, NEW c \in Nat, NEW k \in Nat,
           NEW sh \in [FailureIds -> Nat], NonePassed(F, L, c, k, sh),
           NEW R, R = Behind(L, c), NEW A, NEW I, NEW nx,
           A = Answer(R), I = Left(R, k), nx = CursorAfter(R)
    PROVE  /\ I # {} => PageInPlace(F, L, c, k, I, nx, sh)
           /\ I = {} /\ Continues(nx, c) => NonePassed(F, L, nx, 0, sh)
           /\ I = {} /\ ~Continues(nx, c) => AllShown(F, sh)
<1>1. R \in SUBSET FailureIds /\ R \subseteq L /\ R \subseteq Nat /\ L \subseteq Nat /\ F \subseteq Nat
  BY BehindFacts, IdsFinite
<1>2. /\ A \subseteq R /\ I \subseteq A /\ nx \in Nat
      /\ \A f \in A : (f \in I <=> Above(f, R) >= k) /\ Above(f, R) < UpstreamLimit
      /\ \A f \in A, g \in R : f < g => g \in A
      /\ nx # 0 => nx \in A /\ \A f \in A : nx <= f
      /\ nx = 0 => A = R
      /\ \A f \in R : nx <= f => f \in A
  BY <1>1, AnswerFacts
<1>3. /\ \A f : Above(f, R) \in Nat
      /\ \A f \in R, g \in R : f < g => Above(g, R) < Above(f, R)
  BY <1>1, AboveFacts
<1>4. /\ F \subseteq L /\ (c = 0 \/ c \in L)
      /\ \A f \in F : c # 0 /\ f >= c => sh[f] >= 1
      /\ \A f \in F \cap R : Above(f, R) < k => sh[f] >= 1
  BY DEF NonePassed
<1>5. ASSUME I # {} PROVE PageInPlace(F, L, c, k, I, nx, sh)
  <2>1. Max(I) \in I /\ \A x \in I : x <= Max(I)
    BY <1>1, <1>2, <1>5, FirstAndLast
  <2>2. Max(I) \in A /\ Max(I) \in R /\ Max(I) \in Nat
    BY <1>1, <1>2, <2>1
  <2>3. ASSUME NEW f \in F \cap R, f > Max(I) PROVE sh[f] >= 1
    <3>1. f \in Nat
      BY <1>1
    <3>2. f \in A /\ f \notin I
      BY <1>2, <2>1, <2>2, <2>3, <3>1
    <3>3. Above(f, R) < k
      BY <1>2, <1>3, <3>2
    <3> QED BY <1>4, <3>3
  <2>4. ASSUME NEW f \in F \cap R, nx <= f, f <= Max(I) PROVE f \in I
    <3>1. f \in A /\ f \in Nat
      BY <1>1, <1>2, <2>4
    <3>2. Above(Max(I), R) >= k
      BY <1>2, <2>1, <2>2
    <3>3. f = Max(I) \/ Above(Max(I), R) < Above(f, R)
      BY <1>3, <2>2, <2>4, <3>1
    <3>4. Above(f, R) >= k
      BY <1>3, <3>2, <3>3
    <3> QED BY <1>2, <3>1, <3>4
  <2>5. Above(Max(I), R) >= k
    BY <1>2, <2>1, <2>2
  <2>6. I \subseteq R /\ (nx # 0 => nx \in R /\ \A f \in I : nx <= f)
    BY <1>2
  <2> QED BY <2>3, <2>4, <2>5, <2>6 DEF PageInPlace
<1>6. ASSUME I = {}, NEW f \in F \cap A PROVE sh[f] >= 1
  <2>1. Above(f, R) < k
    BY <1>2, <1>3, <1>6
  <2> QED BY <1>2, <1>4, <2>1
<1>7. ASSUME NEW f \in F, f \notin R PROVE c # 0 /\ f >= c /\ sh[f] >= 1
  <2>1. f \in L /\ f >= c /\ c \in L /\ 0 \notin L
    <3>1. f \in L /\ f \notin Behind(L, c)
      BY <1>4, <1>7
    <3> QED BY <3>1, BehindFacts
  <2> QED BY <1>4, <2>1
<1>8. nx # 0 => nx # c /\ (c # 0 => nx < c)
  <2>1. c \in L => \A f \in R : f < c
    BY BehindFacts
  <2> QED BY <1>1, <1>2, <1>4, <2>1
<1>9. ASSUME I = {}, Continues(nx, c) PROVE NonePassed(F, L, nx, 0, sh)
  <2>1. nx # 0 /\ nx \in L
    BY <1>1, <1>2, <1>9 DEF Continues
  <2>2. ASSUME NEW f \in F, f >= nx PROVE sh[f] >= 1
    <3>1. CASE f \in R
      <4>1. f \in A
        BY <1>1, <1>2, <2>2, <3>1
      <4> QED BY <1>6, <1>9, <4>1
    <3>2. CASE f \notin R
      BY <1>7, <3>2
    <3> QED BY <3>1, <3>2
  <2>3. Behind(L, nx) \in SUBSET FailureIds
    BY <1>2, BehindFacts
  <2>4. \A f : ~(Above(f, Behind(L, nx)) < 0)
    BY <2>3, AboveFacts
  <2> QED BY <1>4, <2>1, <2>2, <2>4 DEF NonePassed
<1>10. ASSUME I = {}, ~Continues(nx, c) PROVE AllShown(F, sh)
  <2>1. nx = 0
    BY <1>8, <1>10 DEF Continues
  <2>2. A = R
    BY <1>2, <2>1
  <2>3. \A f \in F : sh[f] >= 1
    BY <1>6, <1>7, <1>10, <2>2
  <2> QED BY <2>3 DEF AllShown
<1> QED BY <1>5, <1>9, <1>10

LEMMA FetchOnce ==
    ASSUME NEW L \in SUBSET FailureIds, NEW c \in Nat, NEW k \in Nat, c = 0 \/ c \in L,
           NEW sh \in [FailureIds -> Nat], NoneTwice(L, c, k, sh),
           NEW R, R = Behind(L, c), NEW A, NEW I, NEW nx,
           A = Answer(R), I = Left(R, k), nx = CursorAfter(R)
    PROVE  /\ I # {} => PageAtPlace(L, c, k, I)
           /\ I = {} /\ Continues(nx, c) => NoneTwice(L, nx, 0, sh)
<1>1. R \in SUBSET FailureIds /\ R \subseteq L /\ R \subseteq Nat /\ L \subseteq Nat
  BY BehindFacts, IdsFinite
<1>2. /\ A \subseteq R /\ I \subseteq A /\ nx \in Nat
      /\ \A f \in A : (f \in I <=> Above(f, R) >= k) /\ Above(f, R) < UpstreamLimit
      /\ \A f \in A, g \in R : f < g => g \in A
      /\ nx # 0 => nx \in A /\ \A f \in A : nx <= f
  BY <1>1, AnswerFacts
<1>3. \A f : Above(f, R) \in Nat
  BY <1>1, AboveFacts
<1>4. UpstreamLimit \in Nat /\ FailureIds \subseteq Nat
  BY PagesAssumption DEF FailureIds
<1>5. ASSUME I # {} PROVE PageAtPlace(L, c, k, I)
  <2>1. Max(I) \in I /\ \A x \in I : x <= Max(I)
    BY <1>1, <1>2, <1>5, FirstAndLast
  <2>2. Max(I) \in A /\ Max(I) \in R /\ Max(I) \in Nat
    BY <1>1, <1>2, <2>1
  <2>3. ASSUME NEW g \in R, g > Max(I) PROVE Above(g, R) < k
    <3>1. g \in Nat
      BY <1>1
    <3>2. g \in A /\ g \notin I
      BY <1>2, <2>1, <2>2, <2>3, <3>1
    <3> QED BY <1>2, <1>3, <3>2
  <2>4. Above(Max(I), R) <= k
    BY <1>1, <2>2, <2>3, PlaceBound
  <2>5. Above(Max(I), R) = k
    BY <1>2, <1>3, <2>1, <2>2, <2>4
  <2> QED BY <1>2, <2>5 DEF PageAtPlace
<1>6. ASSUME I = {}, Continues(nx, c) PROVE NoneTwice(L, nx, 0, sh)
  <2>1. nx # 0 /\ nx \in A /\ nx \in R /\ \A f \in A : nx <= f
    BY <1>2, <1>6 DEF Continues
  <2>2. c \in L => nx < c
    BY <2>1, BehindFacts
  <2>3. ASSUME NEW f \in FailureIds, sh[f] = 1 PROVE f >= nx
    <3>1. CASE c # 0 /\ f >= c
      BY <1>2, <1>4, <2>2, <3>1
    <3>2. CASE f \in R /\ Above(f, R) < k
      <4>1. Above(f, R) < UpstreamLimit
        BY <1>3, <1>4, <3>2 DEF NoneTwice
      <4>2. f \in A
        BY <3>2, <4>1 DEF Answer
      <4> QED BY <2>1, <4>2
    <3> QED BY <2>3, <3>1, <3>2 DEF NoneTwice
  <2> QED BY <1>4, <2>1, <2>3 DEF NoneTwice
<1> QED BY <1>5, <1>6

(* The first item of the page is taken.                                    *)
Counted(sh, h) == [sh EXCEPT ![h] = @ + 1]
LEMMA TakeKeeps ==
    ASSUME NEW F \in SUBSET FailureIds, NEW L \in SUBSET FailureIds, NEW c \in Nat, NEW k \in Nat,
           NEW pg \in SUBSET FailureIds, NEW nx \in Nat, NEW sh \in [FailureIds -> Nat], pg # {},
           NonePassed(F, L, c, k, sh), PageInPlace(F, L, c, k, pg, nx, sh),
           NEW h, h = Max(pg), NEW sh2, sh2 = Counted(sh, h)
    PROVE  /\ NonePassed(F, L, c, k + 1, sh2) /\ (AllShown(F, sh) => AllShown(F, sh2))
           /\ pg # {h} => PageInPlace(F, L, c, k + 1, pg \ {h}, nx, sh2)
           /\ pg = {h} /\ Continues(nx, c) => NonePassed(F, L, nx, 0, sh2)
           /\ pg = {h} /\ ~Continues(nx, c) => AllShown(F, sh2)
<1> DEFINE R == Behind(L, c)
<1>1. R \in SUBSET FailureIds /\ R \subseteq L /\ R \subseteq Nat /\ L \subseteq Nat /\ F \subseteq Nat /\ pg \subseteq Nat
  BY BehindFacts, IdsFinite
<1>2. h \in pg /\ \A x \in pg : x <= h
  BY FirstAndLast
<1>3. /\ \A f : Above(f, R) \in Nat
      /\ \A f \in R, g \in R : f < g => Above(g, R) < Above(f, R)
      /\ \A f \in R, g \in R : Above(g, R) < Above(f, R) => f < g
  BY <1>1, AboveFacts
<1>4. /\ F \subseteq L /\ (c = 0 \/ c \in L)
      /\ \A f \in F : c # 0 /\ f >= c => sh[f] >= 1
      /\ \A f \in F \cap R : Above(f, R) < k => sh[f] >= 1
  BY DEF NonePassed
<1>5. /\ pg \subseteq R /\ Above(h, R) >= k
      /\ \A f \in F \cap R : f > h => sh[f] >= 1
      /\ \A f \in F \cap R : nx <= f /\ f <= h => f \in pg
      /\ nx # 0 => nx \in R /\ \A f \in pg : nx <= f
  BY DEF PageInPlace
<1>6. sh2[h] >= 1 /\ \A f \in FailureIds : sh[f] >= 1 => sh2[f] >= 1
  <2>1. h \in FailureIds
    BY <1>2
  <2>2. \A f \in FailureIds : sh2[f] = IF f = h THEN sh[f] + 1 ELSE sh[f]
    <3>1. \A f \in FailureIds : sh2[f] = IF f = h THEN sh[h] + 1 ELSE sh[f]
      BY <2>1 DEF Counted
    <3> QED BY <3>1
  <2>3. \A f \in FailureIds : sh[f] \in Nat
    OBVIOUS
  <2> QED BY <2>1, <2>2, <2>3
<1> HIDE DEF R
<1>7. ASSUME NEW f \in F, f \notin R PROVE c # 0 /\ f >= c /\ sh2[f] >= 1
  <2>1. f \in L /\ f >= c /\ c \in L /\ 0 \notin L
    <3>1. f \in L /\ f \notin Behind(L, c)
      BY <1>4, <1>7 DEF R
    <3> QED BY <3>1, BehindFacts
  <2> QED BY <1>4, <1>6, <2>1
<1>8. ASSUME NEW f \in F \cap R, f >= h PROVE sh2[f] >= 1
  <2>1. f \in Nat /\ h \in Nat
    BY <1>1, <1>2
  <2> QED BY <1>5, <1>6, <1>8, <2>1
<1>9. ASSUME NEW f \in F, (c # 0 /\ f >= c) \/ (f \in R /\ Above(f, R) < k + 1) PROVE sh2[f] >= 1
  <2>1. CASE c # 0 /\ f >= c
    BY <1>4, <1>6, <2>1
  <2>2. CASE f \in R /\ Above(f, R) < k + 1
    <3>1. ~(f < h)
      BY <1>1, <1>2, <1>3, <1>5, <2>2
    <3> QED BY <1>1, <1>2, <1>8, <2>2, <3>1
  <2> QED BY <1>9, <2>1, <2>2
<1>10. NonePassed(F, L, c, k + 1, sh2)
  BY <1>4, <1>9 DEF NonePassed, R
<1>11. ASSUME pg # {h} PROVE PageInPlace(F, L, c, k + 1, pg \ {h}, nx, sh2)
  <2> DEFINE q == pg \ {h}
  <2>1. q # {} /\ q \in SUBSET FailureIds
    BY <1>2, <1>11
  <2>2. Max(q) \in q /\ \A x \in q : x <= Max(q)
    BY <2>1, FirstAndLast
  <2>3. Max(q) \in R /\ Max(q) < h /\ h \in R /\ Max(q) \in Nat /\ h \in Nat
    <3>1. Max(q) \in pg /\ Max(q) # h
      BY <2>2
    <3> HIDE DEF q
    <3>2. Max(q) \in Nat /\ h \in Nat /\ Max(q) <= h
      BY <1>1, <1>2, <3>1
    <3> QED BY <1>2, <1>5, <3>1, <3>2
  <2>4. Above(Max(q), R) >= k + 1
    BY <1>3, <1>5, <2>3
  <2>5. ASSUME NEW f \in F \cap R, f > Max(q) PROVE sh2[f] >= 1
    <3>1. f \in Nat /\ nx <= Max(q)
      BY <1>1, <1>5, <2>2, <2>3
    <3>2. ~(f < h)
      <4>1. SUFFICES ASSUME f < h PROVE FALSE
        OBVIOUS
      <4>2. f \in q
        BY <1>5, <2>3, <2>5, <3>1, <4>1
      <4> QED BY <2>2, <2>3, <2>5, <3>1, <4>2
    <3> QED BY <1>8, <2>3, <3>1, <3>2
  <2>6. ASSUME NEW f \in F \cap R, nx <= f, f <= Max(q) PROVE f \in q
    <3>1. f \in Nat /\ f < h
      BY <1>1, <2>3, <2>6
    <3> QED BY <1>5, <2>3, <2>6, <3>1
  <2>7. q \subseteq R /\ (nx # 0 => nx \in R /\ \A f \in q : nx <= f)
    BY <1>5
  <2> HIDE DEF q
  <2>8. PageInPlace(F, L, c, k + 1, q, nx, sh2)
    BY <2>4, <2>5, <2>6, <2>7 DEF PageInPlace, R
  <2> QED BY <2>8 DEF q
<1>12. nx # 0 => nx # c
  <2>1. c \in L => \A f \in R : f < c
    BY BehindFacts DEF R
  <2> QED BY <1>1, <1>4, <1>5, <2>1
<1>13. ASSUME pg = {h}, NEW f \in F, nx <= f PROVE sh2[f] >= 1
  <2>1. CASE f \in R
    <3>1. f \in Nat /\ h \in Nat
      BY <1>1, <1>2
    <3>2. f <= h => f = h
      BY <1>5, <1>13, <2>1
    <3> QED BY <1>8, <2>1, <3>1, <3>2
  <2>2. CASE f \notin R
    BY <1>7, <2>2
  <2> QED BY <2>1, <2>2
<1>14. ASSUME pg = {h}, Continues(nx, c) PROVE NonePassed(F, L, nx, 0, sh2)
  <2>1. nx # 0 /\ nx \in L
    BY <1>1, <1>5, <1>14 DEF Continues
  <2>2. Behind(L, nx) \in SUBSET FailureIds
    BY BehindFacts
  <2>3. \A f : ~(Above(f, Behind(L, nx)) < 0)
    BY <2>2, AboveFacts
  <2> QED BY <1>4, <1>13, <1>14, <2>1, <2>3 DEF NonePassed
<1>15. ASSUME pg = {h}, ~Continues(nx, c) PROVE AllShown(F, sh2)
  <2>1. nx = 0
    BY <1>12, <1>15 DEF Continues
  <2>2. \A f \in F : sh2[f] >= 1
    BY <1>1, <1>13, <1>15, <2>1
  <2> QED BY <2>2 DEF AllShown
<1>16. AllShown(F, sh) => AllShown(F, sh2)
  BY <1>6 DEF AllShown
<1> QED BY <1>10, <1>11, <1>14, <1>15, <1>16

LEMMA TakeOnce ==
    ASSUME NEW L \in SUBSET FailureIds, NEW c \in Nat, NEW k \in Nat, c = 0 \/ c \in L,
           NEW pg \in SUBSET FailureIds, NEW nx \in Nat, NEW sh \in [FailureIds -> Nat], pg # {},
           PageInPlace(L, L, c, k, pg, nx, sh), NoneTwice(L, c, k, sh), PageAtPlace(L, c, k, pg),
           NEW h, h = Max(pg), NEW sh2, sh2 = Counted(sh, h)
    PROVE  /\ NoneTwice(L, c, k + 1, sh2)
           /\ pg # {h} => PageAtPlace(L, c, k + 1, pg \ {h})
           /\ Continues(nx, c) => NoneTwice(L, nx, 0, sh2)
<1> DEFINE R == Behind(L, c)
<1>1. R \in SUBSET FailureIds /\ R \subseteq L /\ R \subseteq Nat /\ L \subseteq Nat /\ pg \subseteq Nat /\ FailureIds \subseteq Nat
  BY BehindFacts, IdsFinite
<1>2. h \in pg /\ \A x \in pg : x <= h
  BY FirstAndLast
<1>3. /\ \A f : Above(f, R) \in Nat
      /\ \A f \in R, g \in R : f < g => Above(g, R) < Above(f, R)
      /\ \A f \in R, g \in R : Above(g, R) < Above(f, R) => f < g
  BY <1>1, AboveFacts
<1>4. /\ pg \subseteq R /\ Above(h, R) = k
      /\ \A f \in R : nx <= f /\ f <= h => f \in pg
      /\ nx # 0 => nx \in R /\ \A f \in pg : nx <= f
      /\ \A f \in pg : Above(f, R) < UpstreamLimit
  BY <1>1 DEF PageInPlace, PageAtPlace
<1>5. /\ k <= UpstreamLimit
      /\ \A f \in FailureIds : sh[f] <= 1 /\ (sh[f] = 1 => (c # 0 /\ f >= c) \/ (f \in R /\ Above(f, R) < k))
  BY DEF NoneTwice
<1>6. c \in L => \A f \in R : f < c
  BY BehindFacts
<1>7. UpstreamLimit \in Nat
  BY PagesAssumption
<1> HIDE DEF R
<1>8. h \in R /\ h \in FailureIds /\ h \in Nat
  BY <1>1, <1>2, <1>4
<1>9. sh[h] = 0
  <2>1. sh[h] # 1
    BY <1>3, <1>4, <1>5, <1>6, <1>8
  <2>2. sh[h] \in Nat
    BY <1>8
  <2> QED BY <1>5, <1>8, <2>1, <2>2
<1>10. \A f \in FailureIds : sh2[f] = IF f = h THEN 1 ELSE sh[f]
  BY <1>8, <1>9 DEF Counted
<1>11. NoneTwice(L, c, k + 1, sh2)
  <2>1. k + 1 <= UpstreamLimit
    BY <1>2, <1>4, <1>7
  <2>2. ASSUME NEW f \in FailureIds PROVE /\ sh2[f] <= 1
                                          /\ sh2[f] = 1 => (c # 0 /\ f >= c) \/ (f \in R /\ Above(f, R) < k + 1)
    <3>1. CASE f = h
      BY <1>4, <1>8, <1>10, <3>1
    <3>2. CASE f # h
      BY <1>3, <1>5, <1>10, <3>2
    <3> QED BY <3>1, <3>2
  <2> QED BY <2>1, <2>2 DEF NoneTwice, R
<1>12. ASSUME pg # {h} PROVE PageAtPlace(L, c, k + 1, pg \ {h})
  <2> DEFINE q == pg \ {h}
  <2>1. q # {} /\ q \in SUBSET FailureIds
    BY <1>2, <1>12
  <2>2. Max(q) \in q /\ \A x \in q : x <= Max(q)
    BY <2>1, FirstAndLast
  <2>3. Max(q) \in R /\ Max(q) < h /\ Max(q) \in Nat
    <3>1. Max(q) \in pg /\ Max(q) # h
      BY <2>2
    <3> HIDE DEF q
    <3>2. Max(q) \in Nat /\ Max(q) <= h
      BY <1>1, <1>2, <3>1
    <3> QED BY <1>4, <1>8, <3>1, <3>2
  <2>4. ASSUME NEW g \in R, Max(q) < g, g < h PROVE FALSE
    <3>1. g \in Nat /\ nx <= Max(q)
      BY <1>1, <1>4, <2>2, <2>3
    <3>2. g \in q
      BY <1>4, <1>8, <2>3, <2>4, <3>1
    <3> QED BY <2>2, <2>3, <2>4, <3>1, <3>2
  <2>5. Above(Max(q), R) = k + 1
    BY <1>1, <1>4, <1>8, <2>3, <2>4, NextPlace
  <2> HIDE DEF q
  <2>6. \A f \in q : Above(f, R) < UpstreamLimit
    BY <1>4 DEF q
  <2>7. PageAtPlace(L, c, k + 1, q)
    BY <2>5, <2>6 DEF PageAtPlace, R
  <2> QED BY <2>7 DEF q
<1>13. ASSUME Continues(nx, c) PROVE NoneTwice(L, nx, 0, sh2)
  <2>1. nx # 0 /\ nx \in R /\ nx <= h /\ nx \in Nat
    BY <1>1, <1>2, <1>4, <1>13 DEF Continues
  <2>2. c \in L => nx < c
    BY <1>6, <2>1
  <2>3. ASSUME NEW f \in FailureIds, sh2[f] = 1 PROVE f >= nx
    <3>1. CASE f = h
      BY <2>1, <3>1
    <3>2. CASE f # h /\ c # 0 /\ f >= c
      BY <1>1, <2>1, <2>2, <3>2
    <3>3. CASE f # h /\ f \in R /\ Above(f, R) < k
      <4>1. h < f
        BY <1>3, <1>4, <1>8, <3>3
      <4> QED BY <1>1, <1>8, <2>1, <4>1
    <3> QED BY <1>5, <1>10, <2>3, <3>1, <3>2, <3>3
  <2>4. \A f \in FailureIds : sh2[f] <= 1
    BY <1>5, <1>10
  <2> QED BY <1>7, <2>1, <2>3, <2>4 DEF NoneTwice
<1> QED BY <1>11, <1>12, <1>13

(* A failure that comes may move an item down but hides none.              *)
LEMMA ComingKeeps ==
    ASSUME NEW F \in SUBSET FailureIds, NEW L \in SUBSET FailureIds, NEW c \in Nat, NEW k \in Nat,
           NEW pg \in SUBSET FailureIds, NEW nx \in Nat, NEW sh \in [FailureIds -> Nat], NEW g \in FailureIds \ L,
           NonePassed(F, L, c, k, sh), PageInPlace(F, L, c, k, pg, nx, sh)
    PROVE  NonePassed(F, L \cup {g}, c, k, sh) /\ PageInPlace(F, L \cup {g}, c, k, pg, nx, sh)
<1> DEFINE M == L \cup {g}
           R == Behind(L, c)
           Q == Behind(M, c)
<1>1. F \subseteq L /\ (c = 0 \/ c \in L)
  BY DEF NonePassed
<1>2. M \in SUBSET FailureIds /\ R \in SUBSET FailureIds /\ Q \in SUBSET FailureIds
  BY DEF Behind
<1>3. 0 \notin M
  BY PagesAssumption DEF FailureIds
<1>4. R \subseteq Q /\ F \cap Q = F \cap R
  BY <1>1, <1>3 DEF Behind
<1>5. \A f : Above(f, R) \in Nat /\ Above(f, Q) \in Nat /\ Above(f, R) <= Above(f, Q)
  BY <1>2, <1>4, AboveFacts, PlaceGrows
<1> HIDE DEF M, R, Q
<1>6. F \subseteq M /\ (c = 0 \/ c \in M)
  BY <1>1 DEF M
<1>7. /\ \A f \in F : c # 0 /\ f >= c => sh[f] >= 1
      /\ \A f \in F \cap R : Above(f, R) < k => sh[f] >= 1
  BY DEF NonePassed, R
<1>8. \A f \in F \cap Q : Above(f, Q) < k => sh[f] >= 1
  BY <1>4, <1>5, <1>7
<1>9. NonePassed(F, M, c, k, sh)
  BY <1>6, <1>7, <1>8 DEF NonePassed, Q
<1>10. ASSUME pg # {}
       PROVE  /\ pg \subseteq Q /\ Above(Max(pg), Q) >= k
              /\ \A f \in F \cap Q : f > Max(pg) => sh[f] >= 1
              /\ \A f \in F \cap Q : nx <= f /\ f <= Max(pg) => f \in pg
              /\ nx # 0 => nx \in Q /\ \A f \in pg : nx <= f
  <2>1. /\ pg \subseteq R /\ Above(Max(pg), R) >= k
        /\ \A f \in F \cap R : f > Max(pg) => sh[f] >= 1
        /\ \A f \in F \cap R : nx <= f /\ f <= Max(pg) => f \in pg
        /\ nx # 0 => nx \in R /\ \A f \in pg : nx <= f
    BY <1>10 DEF PageInPlace, R
  <2> QED BY <1>4, <1>5, <2>1
<1>11. PageInPlace(F, M, c, k, pg, nx, sh)
  BY <1>10 DEF PageInPlace, Q
<1> QED BY <1>9, <1>11 DEF M

-----------------------------------------------------------------------------
PagesType ==
    /\ failures \in [Upstreams -> SUBSET FailureIds] /\ firstFailures \in [Upstreams -> SUBSET FailureIds]
    /\ positions \in [Upstreams -> [cursor: Nat, skip: Nat, done: BOOLEAN]]
    /\ pages \in [Upstreams -> SUBSET FailureIds] /\ following \in [Upstreams -> Nat]
    /\ fetching \in SUBSET Upstreams /\ listing \in {"page", "merge", "between", "ended"}
    /\ shown \in [Upstreams -> [FailureIds -> Nat]] /\ listChanges \in Nat
PagesAtRest ==
    /\ listing \in {"between", "ended"} => fetching = {} /\ \A s \in Upstreams : pages[s] = {}
    /\ listing = "ended" => \A s \in Upstreams : positions[s].done \/ s \in unavailable
    /\ listChanges = 0 => failures = firstFailures /\ shrunk = {}
Lossless(s) ==
    /\ NonePassed(firstFailures[s], failures[s], positions[s].cursor, positions[s].skip, shown[s])
    /\ positions[s].done => AllShown(firstFailures[s], shown[s])
    /\ PageInPlace(firstFailures[s], failures[s], positions[s].cursor, positions[s].skip, pages[s], following[s], shown[s])
Repeatless(s) ==
    /\ NoneTwice(failures[s], positions[s].cursor, positions[s].skip, shown[s])
    /\ PageAtPlace(failures[s], positions[s].cursor, positions[s].skip, pages[s])
PagesInv ==
    /\ PagesType /\ PagesAtRest
    /\ \A s \in Upstreams : s \notin shrunk => Lossless(s)
    /\ listChanges = 0 => \A s \in Upstreams : Repeatless(s)

LEMMA PagesStart == PagesInit => PagesInv
<1> SUFFICES ASSUME PagesInit PROVE PagesInv
  OBVIOUS
<1> USE DEF PagesInit, StartPosition
<1>1. PagesType
  BY DEF PagesType
<1>2. PagesAtRest
  BY DEF PagesAtRest
<1>3. ASSUME NEW s \in Upstreams PROVE Lossless(s) /\ Repeatless(s)
  <2>1. failures[s] \in SUBSET FailureIds
    OBVIOUS
  <2>2. \A f : ~(Above(f, Behind(failures[s], 0)) < 0)
    BY <2>1, NoneBeforeStart
  <2>3. Lossless(s)
    BY <2>2 DEF Lossless, NonePassed, PageInPlace
  <2>4. Repeatless(s)
    BY <2>2, PagesAssumption DEF Repeatless, NoneTwice, PageAtPlace
  <2> QED BY <2>3, <2>4
<1> QED BY <1>1, <1>2, <1>3 DEF PagesInv

(* A step of one service's list leaves those of the others as they are.    *)
LEMMA OtherLists ==
    ASSUME NEW s \in Upstreams, UNCHANGED <<firstFailures[s], failures[s], positions[s], pages[s], shown[s]>>,
           following'[s] = following[s] \/ pages[s] = {}
    PROVE  (Lossless(s) => Lossless(s)') /\ (Repeatless(s) => Repeatless(s)')
BY DEF Lossless, Repeatless, PageInPlace

LEMMA Moves ==
    \A c, k, d, n : /\ [StartPosition EXCEPT !.cursor = n] = [cursor |-> n, skip |-> 0, done |-> FALSE]
                    /\ [[cursor |-> c, skip |-> k, done |-> d] EXCEPT !.done = TRUE] = [cursor |-> c, skip |-> k, done |-> TRUE]
                    /\ [[cursor |-> c, skip |-> k, done |-> d] EXCEPT !.skip = @ + 1] = [cursor |-> c, skip |-> k + 1, done |-> d]
<1> SUFFICES ASSUME NEW c, NEW k, NEW d, NEW n
             PROVE  /\ [StartPosition EXCEPT !.cursor = n] = [cursor |-> n, skip |-> 0, done |-> FALSE]
                    /\ [[cursor |-> c, skip |-> k, done |-> d] EXCEPT !.done = TRUE] = [cursor |-> c, skip |-> k, done |-> TRUE]
                    /\ [[cursor |-> c, skip |-> k, done |-> d] EXCEPT !.skip = @ + 1] = [cursor |-> c, skip |-> k + 1, done |-> d]
  BY Zenon
<1>0. \A b : /\ [[cursor |-> c, skip |-> k, done |-> d] EXCEPT !.done = b] = [cursor |-> c, skip |-> k, done |-> b]
             /\ [[cursor |-> 0, skip |-> 0, done |-> b] EXCEPT !.cursor = n] = [cursor |-> n, skip |-> 0, done |-> b]
  OBVIOUS
<1>1. [StartPosition EXCEPT !.cursor = n] = [cursor |-> n, skip |-> 0, done |-> FALSE]
  BY <1>0, Zenon DEF StartPosition
<1>2. [[cursor |-> c, skip |-> k, done |-> d] EXCEPT !.done = TRUE] = [cursor |-> c, skip |-> k, done |-> TRUE]
  BY <1>0, Zenon
<1>3. [[cursor |-> c, skip |-> k, done |-> d] EXCEPT !.skip = @ + 1] = [cursor |-> c, skip |-> k + 1, done |-> d]
  OBVIOUS
<1> QED BY <1>1, <1>2, <1>3

LEMMA FetchPageKeeps == ASSUME PagesInv, NEW s \in Upstreams, FetchPage(s) PROVE PagesInv'
<1> DEFINE c == positions[s].cursor
           k == positions[s].skip
           R == Behind(failures[s], c)
<1> USE DEF PagesInv
<1>1. PagesType /\ PagesAtRest
  OBVIOUS
<1>2. /\ failures[s] \in SUBSET FailureIds /\ firstFailures[s] \in SUBSET FailureIds /\ c \in Nat /\ k \in Nat
      /\ positions[s] = [cursor |-> c, skip |-> k, done |-> positions[s].done] /\ positions[s].done \in BOOLEAN
      /\ shown[s] \in [FailureIds -> Nat]
  BY <1>1 DEF PagesType
<1> HIDE DEF c, k
<1>3. R \in SUBSET FailureIds
  BY <1>2, BehindFacts
<1> HIDE DEF R
<1>4. Left(R, k) \in SUBSET FailureIds /\ CursorAfter(R) \in Nat
  <2>1. Answer(R) \subseteq R /\ Left(R, k) \subseteq Answer(R)
    BY DEF Answer, Left
  <2> QED BY <1>2, <1>3, <2>1, AnswerFacts
<1>5. s \in fetching /\ listing \in {"page", "merge"}
  BY <1>1 DEF FetchPage, PagesAtRest, PagesType
<1>6. CASE positions[s].done
  <2>1. UNCHANGED <<positions, pages, following, failures, firstFailures, unavailable, listing, pageSize, shown, shrunk, listChanges>> /\ fetching' = fetching \ {s}
    BY <1>6 DEF FetchPage
  <2>2. PagesType' /\ PagesAtRest'
    BY <1>1, <1>5, <2>1 DEF PagesType, PagesAtRest
  <2>3. \A u \in Upstreams : (Lossless(u) => Lossless(u)') /\ (Repeatless(u) => Repeatless(u)')
    BY <2>1, OtherLists
  <2> QED BY <2>1, <2>2, <2>3
<1>7. CASE ~positions[s].done
  <2>1. /\ UpstreamPage(s, c).items = Answer(R) /\ UpstreamPage(s, c).next = CursorAfter(R)
        /\ {f \in UpstreamPage(s, c).items : Above(f, UpstreamPage(s, c).items) >= k} = Left(R, k)
    <3>1. Rest(s, c) = R
      BY DEF Rest, Behind, R
    <3> QED BY <3>1 DEF UpstreamPage, Answer, Left, CursorAfter
  <2>2. /\ pages' = [pages EXCEPT ![s] = Left(R, k)]
        /\ following' = [following EXCEPT ![s] = CursorAfter(R)]
        /\ positions' = [positions EXCEPT ![s] =
                IF Left(R, k) # {} THEN positions[s]
                ELSE IF Continues(CursorAfter(R), c) THEN [StartPosition EXCEPT !.cursor = CursorAfter(R)]
                ELSE [positions[s] EXCEPT !.done = TRUE]]
        /\ fetching' = fetching \ {s}
        /\ UNCHANGED <<failures, firstFailures, unavailable, listing, pageSize, shown, shrunk, listChanges>>
    BY <1>7, <2>1 DEF FetchPage, c, k
  <2> DEFINE p2 == IF Left(R, k) # {} THEN positions[s]
                   ELSE IF Continues(CursorAfter(R), c) THEN [cursor |-> CursorAfter(R), skip |-> 0, done |-> FALSE]
                   ELSE [cursor |-> c, skip |-> k, done |-> TRUE]
  <2>3. positions' = [positions EXCEPT ![s] = p2]
    <3>1. [StartPosition EXCEPT !.cursor = CursorAfter(R)] = [cursor |-> CursorAfter(R), skip |-> 0, done |-> FALSE]
      BY Moves
    <3>2. [positions[s] EXCEPT !.done = TRUE] = [cursor |-> c, skip |-> k, done |-> TRUE]
      BY <1>2, Moves
    <3> QED BY <2>2, <3>1, <3>2
  <2>4. p2 \in [cursor: Nat, skip: Nat, done: BOOLEAN]
    BY <1>2, <1>4
  <2> HIDE DEF p2
  <2>5. PagesType'
    <3>1. /\ pages' \in [Upstreams -> SUBSET FailureIds] /\ following' \in [Upstreams -> Nat]
          /\ positions' \in [Upstreams -> [cursor: Nat, skip: Nat, done: BOOLEAN]]
      <4>1. pages' \in [Upstreams -> SUBSET FailureIds]
        BY <1>1, <1>4, <2>2 DEF PagesType
      <4>2. following' \in [Upstreams -> Nat]
        BY <1>1, <1>4, <2>2 DEF PagesType
      <4>3. positions' \in [Upstreams -> [cursor: Nat, skip: Nat, done: BOOLEAN]]
        BY <1>1, <2>3, <2>4 DEF PagesType
      <4> QED BY <4>1, <4>2, <4>3
    <3> QED BY <1>1, <2>2, <3>1 DEF PagesType
  <2>6. /\ pages'[s] = Left(R, k) /\ following'[s] = CursorAfter(R) /\ positions'[s] = p2
        /\ \A u \in Upstreams \ {s} : pages'[u] = pages[u] /\ following'[u] = following[u] /\ positions'[u] = positions[u]
    BY <1>1, <2>2, <2>3 DEF PagesType
  <2>7. PagesAtRest'
    BY <1>1, <1>5, <2>2 DEF PagesAtRest
  <2>8. \A u \in Upstreams \ {s} : (Lossless(u) => Lossless(u)') /\ (Repeatless(u) => Repeatless(u)')
    BY <2>2, <2>6, OtherLists
  <2>9. ASSUME s \notin shrunk PROVE Lossless(s)'
    <3>1. NonePassed(firstFailures[s], failures[s], c, k, shown[s])
      BY <2>9 DEF Lossless, c, k
    <3>2. /\ Left(R, k) # {} => PageInPlace(firstFailures[s], failures[s], c, k, Left(R, k), CursorAfter(R), shown[s])
          /\ Left(R, k) = {} /\ Continues(CursorAfter(R), c) => NonePassed(firstFailures[s], failures[s], CursorAfter(R), 0, shown[s])
          /\ Left(R, k) = {} /\ ~Continues(CursorAfter(R), c) => AllShown(firstFailures[s], shown[s])
      BY <1>2, <3>1, FetchKeeps DEF R
    <3>3. /\ NonePassed(firstFailures[s], failures[s], p2.cursor, p2.skip, shown[s])
          /\ p2.done => AllShown(firstFailures[s], shown[s])
          /\ PageInPlace(firstFailures[s], failures[s], p2.cursor, p2.skip, Left(R, k), CursorAfter(R), shown[s])
      <4>1. CASE Left(R, k) # {}
        <5>1. p2.cursor = c /\ p2.skip = k /\ ~p2.done
          BY <1>2, <1>7, <4>1 DEF p2, c, k
        <5> QED BY <3>1, <3>2, <4>1, <5>1
      <4>2. CASE Left(R, k) = {} /\ Continues(CursorAfter(R), c)
        BY <3>2, <4>2 DEF p2, PageInPlace
      <4>3. CASE Left(R, k) = {} /\ ~Continues(CursorAfter(R), c)
        BY <3>1, <3>2, <4>3 DEF p2, PageInPlace
      <4> QED BY <4>1, <4>2, <4>3
    <3> QED BY <2>2, <2>6, <3>3 DEF Lossless
  <2>10. ASSUME listChanges = 0 PROVE Repeatless(s)'
    <3>1. s \notin shrunk /\ NoneTwice(failures[s], c, k, shown[s])
      BY <1>1, <2>10 DEF PagesAtRest, Repeatless, c, k
    <3>2. c = 0 \/ c \in failures[s]
      BY <3>1 DEF Lossless, NonePassed, c
    <3>3. /\ Left(R, k) # {} => PageAtPlace(failures[s], c, k, Left(R, k))
          /\ Left(R, k) = {} /\ Continues(CursorAfter(R), c) => NoneTwice(failures[s], CursorAfter(R), 0, shown[s])
      BY <1>2, <3>1, <3>2, FetchOnce DEF R
    <3>4. NoneTwice(failures[s], p2.cursor, p2.skip, shown[s]) /\ PageAtPlace(failures[s], p2.cursor, p2.skip, Left(R, k))
      <4>1. CASE Left(R, k) # {}
        BY <3>1, <3>3, <4>1 DEF p2, c, k
      <4>2. CASE Left(R, k) = {} /\ Continues(CursorAfter(R), c)
        BY <3>3, <4>2 DEF p2, PageAtPlace
      <4>3. CASE Left(R, k) = {} /\ ~Continues(CursorAfter(R), c)
        BY <3>1, <4>3 DEF p2, PageAtPlace
      <4> QED BY <4>1, <4>2, <4>3
    <3> QED BY <2>2, <2>6, <3>4 DEF Repeatless
  <2> QED BY <2>2, <2>5, <2>7, <2>8, <2>9, <2>10
<1> QED BY <1>6, <1>7

LEMMA TakeItemKeeps == ASSUME PagesInv, NEW s \in Upstreams, TakeItem(s) PROVE PagesInv'
<1> DEFINE c == positions[s].cursor
           k == positions[s].skip
           d == positions[s].done
           pg == pages[s]
           nx == following[s]
           h == Max(pages[s])
           sh2 == [shown[s] EXCEPT ![Max(pages[s])] = @ + 1]
           p2 == IF pages[s] # {Max(pages[s])} THEN [cursor |-> c, skip |-> k + 1, done |-> d]
                 ELSE IF Continues(following[s], c) THEN [cursor |-> nx, skip |-> 0, done |-> FALSE]
                 ELSE [cursor |-> c, skip |-> k + 1, done |-> TRUE]
<1> USE DEF PagesInv
<1>1. PagesType /\ PagesAtRest /\ pg # {} /\ listing = "merge"
  BY DEF TakeItem
<1>2. /\ failures[s] \in SUBSET FailureIds /\ firstFailures[s] \in SUBSET FailureIds /\ c \in Nat /\ k \in Nat /\ d \in BOOLEAN
      /\ positions[s] = [cursor |-> c, skip |-> k, done |-> d] /\ pg \in SUBSET FailureIds /\ nx \in Nat
      /\ shown[s] \in [FailureIds -> Nat]
  BY <1>1 DEF PagesType
<1>3. MovedOn(s) = p2
  <2>1. [positions[s] EXCEPT !.skip = @ + 1] = [cursor |-> c, skip |-> k + 1, done |-> d]
    <3> HIDE DEF c, k, d
    <3> QED BY <1>2, Moves
  <2>2. [[positions[s] EXCEPT !.skip = @ + 1] EXCEPT !.done = TRUE] = [cursor |-> c, skip |-> k + 1, done |-> TRUE]
    <3> HIDE DEF c, k, d
    <3>1. [[cursor |-> c, skip |-> k + 1, done |-> d] EXCEPT !.done = TRUE] = [cursor |-> c, skip |-> k + 1, done |-> TRUE]
      <4>1. \A m : [[cursor |-> c, skip |-> m, done |-> d] EXCEPT !.done = TRUE] = [cursor |-> c, skip |-> m, done |-> TRUE]
        BY Moves, Zenon
      <4> QED BY <4>1, Zenon
    <3> QED BY <2>1, <3>1, Zenon
  <2>3. [positions[s] EXCEPT !.skip = @ + 1].cursor = c
    <3> HIDE DEF c, k, d
    <3> QED BY <2>1
  <2>4. [StartPosition EXCEPT !.cursor = following[s]] = [cursor |-> nx, skip |-> 0, done |-> FALSE]
    BY Moves
  <2> HIDE DEF c, k, d, nx
  <2> QED BY <2>1, <2>2, <2>3, <2>4 DEF MovedOn, First
<1>4. /\ shown' = [shown EXCEPT ![s] = sh2] /\ pages' = [pages EXCEPT ![s] = pg \ {h}] /\ positions' = [positions EXCEPT ![s] = p2]
      /\ fetching' \in {{}, {s}}
      /\ UNCHANGED <<failures, firstFailures, following, unavailable, listing, shrunk, listChanges>>
  <2>1. shown' = [shown EXCEPT ![s] = sh2]
    BY DEF TakeItem, First
  <2>2. pages' = [pages EXCEPT ![s] = pg \ {h}] /\ fetching' \in {{}, {s}}
    BY DEF TakeItem, First
  <2>3. positions' = [positions EXCEPT ![s] = p2]
    <3> HIDE DEF p2
    <3> QED BY <1>3 DEF TakeItem
  <2>4. UNCHANGED <<failures, firstFailures, following, unavailable, listing, shrunk, listChanges>>
    BY DEF TakeItem
  <2> QED BY <2>1, <2>2, <2>3, <2>4
<1>5. h \in FailureIds
  BY <1>1, <1>2, FirstAndLast
<1>6. sh2 \in [FailureIds -> Nat] /\ sh2 = Counted(shown[s], h)
  BY <1>2, <1>5 DEF Counted
<1>7. p2 \in [cursor: Nat, skip: Nat, done: BOOLEAN]
  BY <1>2
<1>8. p2 = IF pg # {h} THEN [cursor |-> c, skip |-> k + 1, done |-> d]
           ELSE IF Continues(nx, c) THEN [cursor |-> nx, skip |-> 0, done |-> FALSE]
           ELSE [cursor |-> c, skip |-> k + 1, done |-> TRUE]
  OBVIOUS
<1> HIDE DEF p2, sh2
<1>9. PagesType'
  <2>1. shown' \in [Upstreams -> [FailureIds -> Nat]]
    BY <1>1, <1>4, <1>6 DEF PagesType
  <2>2. pages' \in [Upstreams -> SUBSET FailureIds]
    BY <1>1, <1>2, <1>4 DEF PagesType
  <2>3. positions' \in [Upstreams -> [cursor: Nat, skip: Nat, done: BOOLEAN]]
    BY <1>1, <1>4, <1>7 DEF PagesType
  <2>4. fetching' \in SUBSET Upstreams
    BY <1>4
  <2> QED BY <1>1, <1>4, <2>1, <2>2, <2>3, <2>4 DEF PagesType
<1>10. PagesAtRest'
  BY <1>1, <1>4 DEF PagesAtRest
<1>11. /\ pages'[s] = pg \ {h} /\ positions'[s] = p2 /\ shown'[s] = sh2 /\ following'[s] = nx
       /\ \A u \in Upstreams \ {s} : pages'[u] = pages[u] /\ shown'[u] = shown[u] /\ positions'[u] = positions[u]
  BY <1>1, <1>4 DEF PagesType
<1>12. \A u \in Upstreams \ {s} : (Lossless(u) => Lossless(u)') /\ (Repeatless(u) => Repeatless(u)')
  BY <1>4, <1>11, OtherLists
<1>13. ASSUME s \notin shrunk PROVE Lossless(s)'
  <2>1. /\ NonePassed(firstFailures[s], failures[s], c, k, shown[s]) /\ PageInPlace(firstFailures[s], failures[s], c, k, pg, nx, shown[s])
        /\ d => AllShown(firstFailures[s], shown[s])
    BY <1>13 DEF Lossless
  <2> HIDE DEF c, k, d, pg, nx
  <2>2. h = Max(pg)
    BY DEF pg
  <2> HIDE DEF h
  <2>3. /\ NonePassed(firstFailures[s], failures[s], c, k + 1, sh2)
        /\ AllShown(firstFailures[s], shown[s]) => AllShown(firstFailures[s], sh2)
        /\ pg # {h} => PageInPlace(firstFailures[s], failures[s], c, k + 1, pg \ {h}, nx, sh2)
        /\ pg = {h} /\ Continues(nx, c) => NonePassed(firstFailures[s], failures[s], nx, 0, sh2)
        /\ pg = {h} /\ ~Continues(nx, c) => AllShown(firstFailures[s], sh2)
    <3> DEFINE F == firstFailures[s]
               L == failures[s]
               sh == shown[s]
    <3>1. /\ F \in SUBSET FailureIds /\ L \in SUBSET FailureIds /\ sh \in [FailureIds -> Nat] /\ sh2 = Counted(sh, h)
          /\ NonePassed(F, L, c, k, sh) /\ PageInPlace(F, L, c, k, pg, nx, sh)
          /\ c \in Nat /\ k \in Nat /\ pg \in SUBSET FailureIds /\ nx \in Nat /\ pg # {}
      BY <1>1, <1>2, <1>6, <2>1
    <3> HIDE DEF PagesInv, F, L, sh
    <3>2. /\ NonePassed(F, L, c, k + 1, sh2) /\ (AllShown(F, sh) => AllShown(F, sh2))
          /\ pg # {h} => PageInPlace(F, L, c, k + 1, pg \ {h}, nx, sh2)
          /\ pg = {h} /\ Continues(nx, c) => NonePassed(F, L, nx, 0, sh2)
          /\ pg = {h} /\ ~Continues(nx, c) => AllShown(F, sh2)
      <4>1. NonePassed(F, L, c, k + 1, sh2)
        BY <2>2, <3>1, TakeKeeps
      <4>2. AllShown(F, sh) => AllShown(F, sh2)
        BY <2>2, <3>1, TakeKeeps
      <4>3. pg # {h} => PageInPlace(F, L, c, k + 1, pg \ {h}, nx, sh2)
        BY <2>2, <3>1, TakeKeeps
      <4>4. pg = {h} /\ Continues(nx, c) => NonePassed(F, L, nx, 0, sh2)
        BY <2>2, <3>1, TakeKeeps
      <4>5. pg = {h} /\ ~Continues(nx, c) => AllShown(F, sh2)
        <5>1. SUFFICES ASSUME pg = {h}, ~Continues(nx, c) PROVE AllShown(F, sh2)
          OBVIOUS
        <5> QED BY <2>2, <3>1, <5>1, TakeKeeps
      <4> QED BY <4>1, <4>2, <4>3, <4>4, <4>5
    <3> QED BY <3>2 DEF F, L, sh
  <2>4. /\ NonePassed(firstFailures[s], failures[s], p2.cursor, p2.skip, sh2)
        /\ p2.done => AllShown(firstFailures[s], sh2)
        /\ PageInPlace(firstFailures[s], failures[s], p2.cursor, p2.skip, pg \ {h}, nx, sh2)
    <3>1. CASE pg # {h}
      <4>1. p2.cursor = c /\ p2.skip = k + 1 /\ p2.done = d
        BY <1>8, <3>1
      <4> QED BY <2>1, <2>3, <3>1, <4>1
    <3>2. CASE pg = {h} /\ Continues(nx, c)
      <4>1. p2.cursor = nx /\ p2.skip = 0 /\ ~p2.done /\ pg \ {h} = {}
        BY <1>8, <3>2
      <4> QED BY <2>3, <3>2, <4>1 DEF PageInPlace
    <3>3. CASE pg = {h} /\ ~Continues(nx, c)
      <4>1. p2.cursor = c /\ p2.skip = k + 1 /\ pg \ {h} = {}
        BY <1>8, <3>3
      <4> QED BY <2>3, <3>3, <4>1 DEF PageInPlace
    <3> QED BY <3>1, <3>2, <3>3
  <2> QED BY <1>4, <1>11, <2>4 DEF Lossless
<1>14. ASSUME listChanges = 0 PROVE Repeatless(s)'
  <2>1. /\ s \notin shrunk /\ failures[s] = firstFailures[s]
        /\ NoneTwice(failures[s], c, k, shown[s]) /\ PageAtPlace(failures[s], c, k, pg)
    BY <1>1, <1>14 DEF PagesAtRest, Repeatless
  <2>2. (c = 0 \/ c \in failures[s]) /\ PageInPlace(failures[s], failures[s], c, k, pg, nx, shown[s])
    BY <2>1 DEF Lossless, NonePassed
  <2> HIDE DEF c, k, d, pg, nx
  <2>3. h = Max(pg)
    BY DEF pg
  <2> HIDE DEF h
  <2>4. /\ NoneTwice(failures[s], c, k + 1, sh2)
        /\ pg # {h} => PageAtPlace(failures[s], c, k + 1, pg \ {h})
        /\ Continues(nx, c) => NoneTwice(failures[s], nx, 0, sh2)
    BY <1>1, <1>2, <1>6, <2>1, <2>2, <2>3, TakeOnce
  <2>5. NoneTwice(failures[s], p2.cursor, p2.skip, sh2) /\ PageAtPlace(failures[s], p2.cursor, p2.skip, pg \ {h})
    <3>1. CASE pg # {h}
      <4>1. p2.cursor = c /\ p2.skip = k + 1
        BY <1>8, <3>1
      <4> QED BY <2>4, <3>1, <4>1
    <3>2. CASE pg = {h} /\ Continues(nx, c)
      <4>1. p2.cursor = nx /\ p2.skip = 0 /\ pg \ {h} = {}
        BY <1>8, <3>2
      <4> QED BY <2>4, <3>2, <4>1 DEF PageAtPlace
    <3>3. CASE pg = {h} /\ ~Continues(nx, c)
      <4>1. p2.cursor = c /\ p2.skip = k + 1 /\ pg \ {h} = {}
        BY <1>8, <3>3
      <4> QED BY <2>4, <3>3, <4>1 DEF PageAtPlace
    <3> QED BY <3>1, <3>2, <3>3
  <2> QED BY <1>4, <1>11, <2>5 DEF Repeatless
<1> QED BY <1>4, <1>9, <1>10, <1>12, <1>13, <1>14

LEMMA ListsChange ==
    ASSUME PagesInv, NEW s \in Upstreams, NEW f \in FailureIds, FailureGoes(s, f) \/ FailureComes(s, f) PROVE PagesInv'
<1> USE DEF PagesInv
<1>1. PagesType /\ PagesAtRest
  OBVIOUS
<1>2. /\ listing # "ended" /\ listChanges' = listChanges + 1 /\ listChanges' # 0 /\ listChanges' \in Nat
      /\ UNCHANGED <<firstFailures, positions, pages, following, unavailable, fetching, listing, pageSize, shown>>
  BY <1>1 DEF FailureGoes, FailureComes, PagesType
<1>3. CASE FailureGoes(s, f)
  <2>1. failures' = [failures EXCEPT ![s] = @ \ {f}] /\ shrunk' = shrunk \cup {s}
    BY <1>3 DEF FailureGoes
  <2>2. failures' \in [Upstreams -> SUBSET FailureIds] /\ \A u \in Upstreams \ {s} : failures'[u] = failures[u]
    BY <1>1, <2>1 DEF PagesType
  <2>3. PagesType' /\ PagesAtRest'
    BY <1>1, <1>2, <2>2 DEF PagesType, PagesAtRest
  <2>4. \A u \in Upstreams \ {s} : Lossless(u) => Lossless(u)'
    BY <1>2, <2>2, OtherLists
  <2> QED BY <1>2, <2>1, <2>3, <2>4
<1>4. CASE FailureComes(s, f)
  <2>1. failures' = [failures EXCEPT ![s] = @ \cup {f}] /\ shrunk' = shrunk /\ f \in FailureIds \ failures[s]
    BY <1>4 DEF FailureComes
  <2>2. /\ failures' \in [Upstreams -> SUBSET FailureIds] /\ \A u \in Upstreams \ {s} : failures'[u] = failures[u]
        /\ failures'[s] = failures[s] \cup {f}
    BY <1>1, <2>1 DEF PagesType
  <2>3. PagesType' /\ PagesAtRest'
    BY <1>1, <1>2, <2>2 DEF PagesType, PagesAtRest
  <2>4. \A u \in Upstreams \ {s} : Lossless(u) => Lossless(u)'
    BY <1>2, <2>2, OtherLists
  <2>5. /\ failures[s] \in SUBSET FailureIds /\ firstFailures[s] \in SUBSET FailureIds
        /\ positions[s].cursor \in Nat /\ positions[s].skip \in Nat /\ positions[s].done \in BOOLEAN
        /\ pages[s] \in SUBSET FailureIds /\ following[s] \in Nat /\ shown[s] \in [FailureIds -> Nat]
    BY <1>1 DEF PagesType
  <2>6. ASSUME Lossless(s) PROVE Lossless(s)'
    <3>1. /\ NonePassed(firstFailures[s], failures[s] \cup {f}, positions[s].cursor, positions[s].skip, shown[s])
          /\ PageInPlace(firstFailures[s], failures[s] \cup {f}, positions[s].cursor, positions[s].skip, pages[s], following[s], shown[s])
      BY <2>1, <2>5, <2>6, ComingKeeps DEF Lossless
    <3> QED BY <1>2, <2>2, <2>6, <3>1 DEF Lossless
  <2> QED BY <1>2, <2>1, <2>3, <2>4, <2>6
<1> QED BY <1>3, <1>4

LEMMA ListingMoves ==
    ASSUME PagesInv, (\E s \in Upstreams : FetchFails(s)) \/ Fetched \/ EndPage \/ NextPage \/ UNCHANGED pageVars
    PROVE  PagesInv'
<1> USE DEF PagesInv
<1>1. PagesType /\ PagesAtRest
  OBVIOUS
<1>2. UNCHANGED <<failures, firstFailures, positions, shown, shrunk, listChanges>>
  BY DEF FetchFails, Fetched, EndPage, NextPage, pageVars
<1>3. CASE EndPage
  <2>1. /\ pages' = [s \in Upstreams |-> {}] /\ following' = following /\ unavailable' = unavailable /\ fetching' = fetching /\ fetching = {}
        /\ listing' = IF HasMore THEN "between" ELSE "ended"
    BY <1>3 DEF EndPage
  <2>2. PagesType'
    BY <1>1, <1>2, <2>1 DEF PagesType
  <2>3. PagesAtRest'
    BY <1>1, <1>2, <2>1 DEF PagesAtRest, HasMore
  <2>4. \A s \in Upstreams : (Lossless(s) => Lossless(s)') /\ (Repeatless(s) => Repeatless(s)')
    BY <1>2, <2>1 DEF Lossless, Repeatless, PageInPlace, PageAtPlace
  <2> QED BY <1>2, <2>2, <2>3, <2>4
<1>4. CASE ~EndPage
  <2>1. pages' = pages /\ (following' = following \/ (listing = "between" /\ following' = [s \in Upstreams |-> 0]))
    BY <1>4 DEF FetchFails, Fetched, NextPage, pageVars
  <2>2. PagesType'
    BY <1>1, <1>2, <2>1 DEF PagesType, FetchFails, Fetched, EndPage, NextPage, pageVars
  <2>3. PagesAtRest'
    BY <1>1, <1>2, <1>4, <2>1 DEF PagesAtRest, FetchFails, Fetched, NextPage, pageVars
  <2>4. \A s \in Upstreams : following'[s] = following[s] \/ pages[s] = {}
    BY <1>1, <2>1 DEF PagesAtRest
  <2>5. \A s \in Upstreams : (Lossless(s) => Lossless(s)') /\ (Repeatless(s) => Repeatless(s)')
    BY <1>2, <2>1, <2>4, OtherLists
  <2> QED BY <1>2, <2>2, <2>3, <2>5
<1> QED BY <1>3, <1>4

(* Every run of the listing of failed tasks: a service's failures that     *)
(* stay are all shown by the end of the paging unless the service is named *)
(* in the errors, and each once when the lists do not change.              *)
THEOREM PagesAreComplete == PagesInit /\ [][PagesNext]_pageVars => []PagesComplete
<1>1. PagesInv /\ [PagesNext]_pageVars => PagesInv'
  BY FetchPageKeeps, TakeItemKeeps, ListsChange, ListingMoves DEF PagesNext
<1>2. PagesInv => PagesComplete
  <2> SUFFICES ASSUME PagesInv, NEW s \in Upstreams
               PROVE  /\ listChanges = 0 => \A f \in FailureIds : shown[s][f] <= 1
                      /\ listing = "ended" /\ s \notin unavailable /\ s \notin shrunk =>
                            \A f \in firstFailures[s] : shown[s][f] >= 1
    BY DEF PagesComplete
  <2>1. listChanges = 0 => \A f \in FailureIds : shown[s][f] <= 1
    BY DEF PagesInv, Repeatless, NoneTwice
  <2>2. ASSUME listing = "ended", s \notin unavailable, s \notin shrunk PROVE \A f \in firstFailures[s] : shown[s][f] >= 1
    BY <2>2 DEF PagesInv, PagesAtRest, Lossless, AllShown
  <2> QED BY <2>1, <2>2
<1> QED BY <1>1, <1>2, PagesStart, PTL

-----------------------------------------------------------------------------
(* TaskJoins: the inductive invariant.                                     *)

Kinds == {"correlation_id", "parent_task_id", "workflow_lineage"}
(* A list of candidates, none twice.                                       *)
CandidateList(list) ==
    /\ list \in Seq(Kinds \X OtherTasks)
    /\ \A i, j \in 1..Len(list) : i # j => list[i] # list[j]
InList(c, list) == \E i \in 1..Len(list) : list[i] = c
PartOutcomes == {o \in [Parts -> UNION {Outcomes(p) : p \in Parts}] : \A p \in Parts : o[p] \in Outcomes(p)}
References == [corr : MaybeTask, parent : MaybeOther, child : MaybeTask, lineage : MaybeOther]

JoinsType ==
    /\ holds \in [AllServices -> SUBSET OtherTasks] /\ holds[Home] = {}
    /\ ref \in References /\ joinMode \in {"none", "correlation", "lineage", "all"}
    /\ CandidateList(todo) /\ matches \subseteq AllServices
    /\ joinStep \in {"reads", "scan", "resolve", "done"}
    /\ joinStep # "reads" => parts \in PartOutcomes /\ shownErrors = BundleErrors
    /\ parts = <<>> \/ parts \in PartOutcomes
    /\ joinStep = "reads" => joins = {} /\ warnings = {} /\ todo = <<>>
    /\ joinStep \in {"scan", "resolve"} => todo # <<>>
    /\ joinStep = "done" => todo = <<>>

(* The scan at hand found who knows the candidate and answers.             *)
ScanFits ==
    joinStep = "resolve" =>
        /\ \A s \in matches : todo[1][2] \in holds[s]
        /\ \A s \in AllServices : todo[1][2] \in holds[s] => s \in matches \/ <<s, todo[1]>> \in failedScans

(* What is joined or warned about is no longer to be done, and once.       *)
JoinsFit ==
    /\ \A j \in joins : /\ j[1] \in Holders(j[2][2]) /\ j[2] \in Kinds \X OtherTasks /\ ~InList(j[2], todo)
                        /\ ~\E k \in joins : k # j /\ k[2] = j[2]
                        /\ ~\E w \in warnings : w[2] = j[2]
    /\ \A w \in warnings : ~InList(w[2], todo)

(* A candidate is joined or warned about, unless no other service knows    *)
(* it, or one that does did not answer.                                    *)
Handled(c) ==
    \/ Holders(c[2]) = {} \/ \E s \in Holders(c[2]) : <<s, c>> \in failedScans
    \/ \E x \in joins \cup warnings : x[2] = c
AllHandled ==
    joinStep # "reads" => \A c : InList(c, JoinCandidates(PrimaryRef)) => InList(c, todo) \/ Handled(c)

JoinsInv == JoinsType /\ ScanFits /\ JoinsFit /\ AllHandled

-----------------------------------------------------------------------------
(* Lists of candidates.                                                    *)
LEMMA EmptyList == CandidateList(<<>>) /\ \A c : ~InList(c, <<>>)
BY DEF CandidateList, InList

LEMMA AddFacts ==
    ASSUME NEW list, CandidateList(list), NEW kind \in Kinds, NEW value \in MaybeTask
    PROVE  /\ CandidateList(AddCandidate(list, kind, value))
           /\ \A c : InList(c, list) => InList(c, AddCandidate(list, kind, value))
           /\ value \notin {Nothing, OwnTask} => InList(<<kind, value>>, AddCandidate(list, kind, value))
<1> DEFINE c == <<kind, value>>
           next == Append(list, c)
<1>1. list \in Seq(Kinds \X OtherTasks) /\ Len(list) \in Nat /\ DOMAIN list = 1..Len(list)
  BY DEF CandidateList
<1>2. CASE value \in {Nothing, OwnTask}
  BY <1>2 DEF AddCandidate
<1>3. CASE value \notin {Nothing, OwnTask} /\ InList(c, list)
  <2>1. AddCandidate(list, kind, value) = list
    BY <1>1, <1>3 DEF AddCandidate, InList
  <2> QED BY <1>3, <2>1
<1>4. CASE value \notin {Nothing, OwnTask} /\ ~InList(c, list)
  <2>1. AddCandidate(list, kind, value) = next
    BY <1>1, <1>4 DEF AddCandidate, InList
  <2>2. c \in Kinds \X OtherTasks
    BY <1>4 DEF MaybeTask, MaybeOther
  <2> HIDE DEF c
  <2>3. /\ next \in Seq(Kinds \X OtherTasks) /\ Len(next) = Len(list) + 1
        /\ \A i \in 1..Len(list) : next[i] = list[i]
        /\ next[Len(list) + 1] = c
    BY <1>1, <2>2
  <2> HIDE DEF next
  <2>4. \A i \in 1..Len(list) : list[i] # c
    BY <1>4 DEF InList
  <2>5. \A i, j \in 1..Len(next) : i # j => next[i] # next[j]
    <3>1. ASSUME NEW i \in 1..Len(next), NEW j \in 1..Len(next), i < j PROVE next[i] # next[j]
      <4>1. i \in 1..Len(list)
        BY <1>1, <2>3, <3>1
      <4>2. CASE j = Len(list) + 1
        BY <2>3, <2>4, <4>1, <4>2
      <4>3. CASE j \in 1..Len(list)
        BY <2>3, <3>1, <4>1, <4>3 DEF CandidateList
      <4> QED BY <1>1, <2>3, <4>2, <4>3
    <3>2. \A i, j \in 1..Len(next) : i # j => i < j \/ j < i
      BY <1>1, <2>3
    <3> QED BY <3>1, <3>2
  <2>6. CandidateList(next)
    BY <2>3, <2>5 DEF CandidateList
  <2>7. \A d : InList(d, list) => InList(d, next)
    BY <1>1, <2>3 DEF InList
  <2>8. InList(c, next)
    BY <1>1, <2>3 DEF InList
  <2> QED BY <2>1, <2>6, <2>7, <2>8 DEF c
<1> QED BY <1>2, <1>3, <1>4

LEMMA TailFacts ==
    ASSUME NEW list, CandidateList(list), list # <<>>
    PROVE  /\ CandidateList(Tail(list)) /\ ~InList(list[1], Tail(list))
           /\ list[1] \in Kinds \X OtherTasks /\ InList(list[1], list)
           /\ \A c : InList(c, list) => c = list[1] \/ InList(c, Tail(list))
           /\ \A c : InList(c, Tail(list)) => InList(c, list)
<1>1. /\ list \in Seq(Kinds \X OtherTasks) /\ Len(list) \in Nat /\ Len(list) > 0
      /\ Tail(list) \in Seq(Kinds \X OtherTasks) /\ Len(Tail(list)) = Len(list) - 1
      /\ \A i \in 1..Len(list) - 1 : Tail(list)[i] = list[i + 1]
  BY DEF CandidateList
<1>2. \A i, j \in 1..Len(Tail(list)) : i # j => Tail(list)[i] # Tail(list)[j]
  BY <1>1 DEF CandidateList
<1>3. list[1] \in Kinds \X OtherTasks
  BY <1>1
<1>4. ~InList(list[1], Tail(list))
  BY <1>1 DEF CandidateList, InList
<1>5. ASSUME NEW c, InList(c, list), c # list[1] PROVE InList(c, Tail(list))
  <2>1. PICK i \in 1..Len(list) : list[i] = c
    BY <1>5 DEF InList
  <2>2. i - 1 \in 1..Len(list) - 1 /\ Tail(list)[i - 1] = list[i]
    BY <1>1, <1>5, <2>1
  <2> QED BY <1>1, <2>1, <2>2 DEF InList
<1>6. ASSUME NEW c, InList(c, Tail(list)) PROVE InList(c, list)
  <2>1. PICK i \in 1..Len(list) - 1 : Tail(list)[i] = c
    BY <1>1, <1>6 DEF InList
  <2>2. i + 1 \in 1..Len(list) /\ list[i + 1] = c
    BY <1>1, <2>1
  <2> QED BY <2>2 DEF InList
<1>7. InList(list[1], list)
  BY <1>1 DEF InList
<1> QED BY <1>1, <1>2, <1>3, <1>4, <1>5, <1>6, <1>7 DEF CandidateList

LEMMA PrimaryRefType ==
    ASSUME ref \in References
    PROVE  PrimaryRef \in References
BY DEF PrimaryRef, References, MaybeTask, MaybeOther

(* What _collect_join_candidates lists.                                    *)
LEMMA CandidateFacts ==
    ASSUME NEW r \in References
    PROVE  /\ CandidateList(JoinCandidates(r))
           /\ joinMode = "all" =>
                \A v \in {r.corr, r.parent, r.child, r.lineage} \ {Nothing, OwnTask} :
                    \E kind \in Kinds : InList(<<kind, v>>, JoinCandidates(r))
<1> DEFINE mine == IF joinMode \in {"correlation", "all"} THEN AddCandidate(<<>>, "correlation_id", r.corr) ELSE <<>>
           parents == AddCandidate(mine, "parent_task_id", r.parent)
           related == AddCandidate(parents, "parent_task_id", r.child)
           all == AddCandidate(related, "workflow_lineage", r.lineage)
<1>1. /\ r.corr \in MaybeTask /\ r.parent \in MaybeTask /\ r.child \in MaybeTask /\ r.lineage \in MaybeTask
      /\ "correlation_id" \in Kinds /\ "parent_task_id" \in Kinds /\ "workflow_lineage" \in Kinds
  BY DEF References, MaybeTask, Kinds
<1>2. JoinCandidates(r) = IF joinMode \in {"lineage", "all"} THEN all ELSE mine
  BY DEF JoinCandidates
<1>3. /\ CandidateList(mine)
      /\ joinMode = "all" /\ r.corr \notin {Nothing, OwnTask} => InList(<<"correlation_id", r.corr>>, mine)
  BY <1>1, AddFacts, EmptyList
<1> HIDE DEF mine
<1>4. /\ CandidateList(parents) /\ \A c : InList(c, mine) => InList(c, parents)
      /\ r.parent \notin {Nothing, OwnTask} => InList(<<"parent_task_id", r.parent>>, parents)
  BY <1>1, <1>3, AddFacts
<1> HIDE DEF parents
<1>5. /\ CandidateList(related) /\ \A c : InList(c, parents) => InList(c, related)
      /\ r.child \notin {Nothing, OwnTask} => InList(<<"parent_task_id", r.child>>, related)
  BY <1>1, <1>4, AddFacts
<1> HIDE DEF related
<1>6. /\ CandidateList(all) /\ \A c : InList(c, related) => InList(c, all)
      /\ r.lineage \notin {Nothing, OwnTask} => InList(<<"workflow_lineage", r.lineage>>, all)
  BY <1>1, <1>5, AddFacts
<1> HIDE DEF all
<1>7. ASSUME joinMode = "all", NEW v \in {r.corr, r.parent, r.child, r.lineage} \ {Nothing, OwnTask}
      PROVE  \E kind \in Kinds : InList(<<kind, v>>, all)
  BY <1>1, <1>3, <1>4, <1>5, <1>6, <1>7
<1> QED BY <1>2, <1>3, <1>6, <1>7

-----------------------------------------------------------------------------
LEMMA JoinsInitially == JoinsInit => JoinsInv
<1> SUFFICES ASSUME JoinsInit PROVE JoinsInv
  OBVIOUS
<1>1. CandidateList(todo)
  BY EmptyList DEF JoinsInit
<1>2. JoinsType
  BY <1>1 DEF JoinsInit, JoinsType, References
<1> QED BY <1>2 DEF JoinsInit, JoinsInv, ScanFits, JoinsFit, AllHandled

LEMMA ReadPartsKeeps == ASSUME JoinsInv, ReadParts PROVE JoinsInv'
<1>1. joinStep = "reads" /\ parts' \in PartOutcomes
  BY DEF ReadParts, PartOutcomes
<1>2. UNCHANGED <<holds, ref, bare, joinMode, shownErrors, todo, matches, failedScans, joins, warnings, joinStep>>
  BY DEF ReadParts
<1>3. JoinsType'
  BY <1>1, <1>2 DEF JoinsInv, JoinsType, CandidateList
<1>4. ScanFits' /\ AllHandled'
  BY <1>1, <1>2 DEF ScanFits, AllHandled
<1>5. JoinsFit'
  BY <1>1, <1>2 DEF JoinsInv, JoinsType, JoinsFit
<1> QED BY <1>3, <1>4, <1>5 DEF JoinsInv

LEMMA AssembleKeeps == ASSUME JoinsInv, Assemble PROVE JoinsInv'
<1>1. /\ joinStep = "reads" /\ parts # <<>> /\ todo' = JoinCandidates(PrimaryRef) /\ shownErrors' = BundleErrors
      /\ joinStep' = IF todo' = <<>> THEN "done" ELSE "scan"
      /\ UNCHANGED <<holds, ref, bare, joinMode, parts, matches, failedScans, joins, warnings>>
  BY DEF Assemble
<1>2. CandidateList(todo')
  BY <1>1, PrimaryRefType, CandidateFacts DEF JoinsInv, JoinsType
<1>3. BundleErrors' = BundleErrors /\ PrimaryRef' = PrimaryRef
  BY <1>1 DEF BundleErrors, FromHistory, PrimaryRef
<1>4. JoinsType'
  BY <1>1, <1>2, <1>3 DEF JoinsInv, JoinsType
<1>5. JoinCandidates(PrimaryRef)' = JoinCandidates(PrimaryRef)
  BY <1>1, <1>3 DEF JoinCandidates
<1>6. AllHandled'
  BY <1>1, <1>5 DEF AllHandled
<1>7. ScanFits' /\ JoinsFit'
  BY <1>1 DEF JoinsInv, JoinsType, JoinsFit, ScanFits
<1> QED BY <1>4, <1>6, <1>7 DEF JoinsInv

(* What the page shows of the home service is not read again.              *)
LEMMA CandidatesStay ==
    ASSUME UNCHANGED <<holds, ref, bare, joinMode, parts>>
    PROVE  /\ JoinCandidates(PrimaryRef)' = JoinCandidates(PrimaryRef) /\ BundleErrors' = BundleErrors
           /\ \A v : Holders(v)' = Holders(v)
<1>1. PrimaryRef' = PrimaryRef /\ BundleErrors' = BundleErrors
  BY DEF PrimaryRef, BundleErrors, FromHistory
<1>2. JoinCandidates(PrimaryRef)' = JoinCandidates(PrimaryRef)
  BY <1>1 DEF JoinCandidates
<1> QED BY <1>1, <1>2 DEF Holders

LEMMA ScanServicesKeeps ==
    ASSUME JoinsInv, NEW answering \in SUBSET AllServices, ScanServices(answering) PROVE JoinsInv'
<1> DEFINE knows == {s \in AllServices : todo[1][2] \in holds[s]}
<1>1. /\ joinStep = "scan" /\ joinStep' = "resolve" /\ matches' = knows \cap answering
      /\ failedScans' = failedScans \cup {<<s, todo[1]>> : s \in knows \ answering}
      /\ UNCHANGED <<holds, ref, bare, joinMode, parts, shownErrors, todo, joins, warnings>>
  BY DEF ScanServices
<1>2. /\ JoinCandidates(PrimaryRef)' = JoinCandidates(PrimaryRef) /\ BundleErrors' = BundleErrors
      /\ \A v : Holders(v)' = Holders(v)
  BY <1>1, CandidatesStay
<1>3. JoinsType'
  BY <1>1, <1>2 DEF JoinsInv, JoinsType
<1>4. ScanFits'
  <2>1. \A s \in matches' : todo[1][2] \in holds[s]
    BY <1>1
  <2>2. \A s \in AllServices : todo[1][2] \in holds[s] => s \in matches' \/ <<s, todo[1]>> \in failedScans'
    BY <1>1
  <2> QED BY <1>1, <2>1, <2>2 DEF ScanFits, AllServices
<1>5. JoinsFit'
  BY <1>1, <1>2 DEF JoinsInv, JoinsFit
<1>6. AllHandled'
  <2> SUFFICES ASSUME NEW c, InList(c, JoinCandidates(PrimaryRef)) PROVE InList(c, todo) \/ Handled(c)'
    BY <1>1, <1>2 DEF AllHandled
  <2>1. InList(c, todo) \/ Handled(c)
    BY <1>1 DEF JoinsInv, AllHandled
  <2>2. Handled(c) => Handled(c)'
    BY <1>1, <1>2 DEF Handled
  <2> QED BY <2>1, <2>2
<1> QED BY <1>3, <1>4, <1>5, <1>6 DEF JoinsInv

(* What _resolve_join_candidate makes of the services that answered.       *)
LEMMA ResolvedFacts ==
    ASSUME JoinsInv, NEW c
    PROVE  /\ \A j \in Resolved(c).joins : j[2] = c /\ j[1] \in matches \ {Home}
           /\ \A w \in Resolved(c).warnings : w[2] = c
           /\ \A j, k \in Resolved(c).joins : j = k
           /\ Resolved(c).joins = {} \/ Resolved(c).warnings = {}
           /\ matches \ {Home} # {} => \E x \in Resolved(c).joins \cup Resolved(c).warnings : x[2] = c
<1> DEFINE cross == matches \ {Home}
<1>1. IsFiniteSet(cross) /\ Cardinality(cross) \in Nat
  <2>1. cross \subseteq Peers
    BY DEF JoinsInv, JoinsType, AllServices
  <2> QED BY <2>1, JoinsAssumption, FS_Subset, FS_CardinalityType
<1>2. /\ Resolved(c).joins = IF Cardinality(cross) = 1 THEN {<<s, c>> : s \in cross} ELSE {}
      /\ Resolved(c).warnings = IF Cardinality(cross) > 1 THEN {<<"ambiguous_join_candidate", c>>} ELSE {}
  BY DEF Resolved
<1>3. cross # {} => Cardinality(cross) # 0
  BY <1>1, FS_EmptySet
<1>4. Cardinality(cross) = 1 => \E s : cross = {s}
  BY <1>1, FS_Singleton
<1> HIDE DEF cross
<1>5. \A j \in Resolved(c).joins : j[2] = c /\ j[1] \in cross
  BY <1>2
<1>6. \A w \in Resolved(c).warnings : w[2] = c
  BY <1>2
<1>7. \A j, k \in Resolved(c).joins : j = k
  <2>1. CASE Cardinality(cross) = 1
    <3>1. PICK s : cross = {s}
      BY <1>4, <2>1
    <3>2. Resolved(c).joins = {<<s, c>>}
      BY <1>2, <2>1, <3>1
    <3> QED BY <3>2
  <2>2. CASE Cardinality(cross) # 1
    BY <1>2, <2>2
  <2> QED BY <2>1, <2>2
<1>8. Resolved(c).joins = {} \/ Resolved(c).warnings = {}
  BY <1>1, <1>2
<1>9. ASSUME cross # {} PROVE \E x \in Resolved(c).joins \cup Resolved(c).warnings : x[2] = c
  <2>1. CASE Cardinality(cross) = 1
    <3>1. PICK s \in cross : TRUE
      BY <1>9
    <3>2. <<s, c>> \in Resolved(c).joins /\ <<s, c>>[2] = c
      BY <1>2, <2>1, <3>1
    <3> QED BY <3>2
  <2>2. CASE Cardinality(cross) > 1
    <3>1. <<"ambiguous_join_candidate", c>> \in Resolved(c).warnings
      BY <1>2, <2>2
    <3>2. <<"ambiguous_join_candidate", c>>[2] = c
      OBVIOUS
    <3> QED BY <3>1, <3>2
  <2> QED BY <1>1, <1>3, <1>9, <2>1, <2>2
<1> QED BY <1>5, <1>6, <1>7, <1>8, <1>9 DEF cross

LEMMA ResolveCandidateKeeps == ASSUME JoinsInv, ResolveCandidate PROVE JoinsInv'
<1> DEFINE c == todo[1]
           J == Resolved(c).joins
           W == Resolved(c).warnings
<1>1. /\ joinStep = "resolve" /\ joins' = joins \cup J /\ warnings' = warnings \cup W
      /\ todo' = Tail(todo) /\ matches' = {} /\ joinStep' = IF todo' = <<>> THEN "done" ELSE "scan"
      /\ UNCHANGED <<holds, ref, bare, joinMode, parts, shownErrors, failedScans>>
  BY DEF ResolveCandidate
<1>2. /\ JoinCandidates(PrimaryRef)' = JoinCandidates(PrimaryRef) /\ BundleErrors' = BundleErrors
      /\ \A v : Holders(v)' = Holders(v)
  BY <1>1, CandidatesStay
<1>3. /\ CandidateList(todo') /\ ~InList(c, todo') /\ c \in Kinds \X OtherTasks /\ InList(c, todo)
      /\ \A d : InList(d, todo) => d = c \/ InList(d, todo')
      /\ \A d : InList(d, todo') => InList(d, todo)
  BY <1>1, TailFacts DEF JoinsInv, JoinsType
<1>4. JoinsType'
  BY <1>1, <1>2, <1>3 DEF JoinsInv, JoinsType
<1>5. ScanFits'
  BY <1>1 DEF ScanFits
<1>6. /\ \A j \in J : j[2] = c /\ j[1] \in matches \ {Home}
      /\ \A w \in W : w[2] = c
      /\ \A j, k \in J : j = k
      /\ J = {} \/ W = {}
      /\ matches \ {Home} # {} => \E x \in J \cup W : x[2] = c
  BY ResolvedFacts
<1>7. /\ \A s \in matches : c[2] \in holds[s]
      /\ \A s \in AllServices : c[2] \in holds[s] => s \in matches \/ <<s, c>> \in failedScans
  BY <1>1 DEF JoinsInv, ScanFits
<1> HIDE DEF c, J, W
<1>8. \A s \in matches \ {Home} : s \in Holders(c[2])
  BY <1>7 DEF Holders, JoinsInv, JoinsType, AllServices
<1>9. JoinsFit'
  <2>1. ASSUME NEW j \in joins'
        PROVE  /\ j[1] \in Holders(j[2][2]) /\ j[2] \in Kinds \X OtherTasks /\ ~InList(j[2], todo')
               /\ ~\E k \in joins' : k # j /\ k[2] = j[2]
               /\ ~\E w \in warnings' : w[2] = j[2]
    <3>1. CASE j \in joins
      <4>1. /\ j[1] \in Holders(j[2][2]) /\ j[2] \in Kinds \X OtherTasks /\ ~InList(j[2], todo)
            /\ ~\E k \in joins : k # j /\ k[2] = j[2]
            /\ ~\E w \in warnings : w[2] = j[2]
        BY <3>1 DEF JoinsInv, JoinsFit
      <4>2. j[2] # c
        BY <1>3, <4>1
      <4> QED BY <1>1, <1>3, <1>6, <4>1, <4>2
    <3>2. CASE j \in J
      <4>1. j[2] = c /\ j[1] \in Holders(c[2])
        BY <1>6, <1>8, <3>2
      <4>2. \A k \in joins : k[2] # c
        BY <1>3 DEF JoinsInv, JoinsFit
      <4>3. \A w \in warnings : w[2] # c
        BY <1>3 DEF JoinsInv, JoinsFit
      <4>4. W = {}
        BY <1>6, <3>2
      <4> QED BY <1>1, <1>3, <1>6, <3>2, <4>1, <4>2, <4>3, <4>4
    <3> QED BY <1>1, <3>1, <3>2
  <2>2. \A w \in warnings' : ~InList(w[2], todo')
    BY <1>1, <1>3, <1>6 DEF JoinsInv, JoinsFit
  <2> QED BY <1>2, <2>1, <2>2 DEF JoinsFit
<1>10. AllHandled'
  <2> SUFFICES ASSUME NEW d, InList(d, JoinCandidates(PrimaryRef)) PROVE InList(d, todo') \/ Handled(d)'
    BY <1>1, <1>2 DEF AllHandled
  <2>1. InList(d, todo) \/ Handled(d)
    BY <1>1 DEF JoinsInv, AllHandled
  <2>2. Handled(d) => Handled(d)'
    BY <1>1, <1>2 DEF Handled
  <2>3. CASE d = c
    <3>1. CASE matches \ {Home} # {}
      BY <1>1, <1>6, <2>3, <3>1 DEF Handled
    <3>2. CASE matches \ {Home} = {}
      <4>1. ASSUME NEW s \in Holders(c[2]) PROVE <<s, c>> \in failedScans
        <5>1. s \in AllServices /\ c[2] \in holds[s] /\ s # Home
          BY JoinsAssumption DEF Holders, AllServices
        <5> QED BY <1>7, <3>2, <5>1
      <4>2. Holders(d[2])' = {} \/ \E s \in Holders(d[2])' : <<s, d>> \in failedScans'
        BY <1>1, <1>2, <2>3, <4>1
      <4> QED BY <4>2 DEF Handled
    <3> QED BY <3>1, <3>2
  <2> QED BY <1>3, <2>1, <2>2, <2>3
<1> QED BY <1>4, <1>5, <1>9, <1>10 DEF JoinsInv

LEMMA JoinsKept == JoinsInv /\ [JoinsNext]_joinVars => JoinsInv'
<1> SUFFICES ASSUME JoinsInv, [JoinsNext]_joinVars PROVE JoinsInv'
  OBVIOUS
<1>1. CASE UNCHANGED joinVars
  <2>1. /\ JoinCandidates(PrimaryRef)' = JoinCandidates(PrimaryRef) /\ BundleErrors' = BundleErrors
        /\ \A v : Holders(v)' = Holders(v)
    BY <1>1, CandidatesStay DEF joinVars
  <2>2. JoinsType' /\ ScanFits' /\ JoinsFit'
    BY <1>1, <2>1 DEF joinVars, JoinsInv, JoinsType, ScanFits, JoinsFit
  <2>3. AllHandled'
    BY <1>1, <2>1 DEF joinVars, JoinsInv, AllHandled, Handled
  <2> QED BY <2>2, <2>3 DEF JoinsInv
<1> QED BY <1>1, ReadPartsKeeps, AssembleKeeps, ScanServicesKeeps, ResolveCandidateKeeps DEF JoinsNext

(* For any services, related tasks, failing reads and services that do not *)
(* answer: a join leads to a task of another service, once per relation    *)
(* and never where the relation is warned about, and a page without errors *)
(* shows every relation that all services holding it answered for.         *)
THEOREM JoinsAreSound == JoinsInit /\ [][JoinsNext]_joinVars => []JoinsSound
<1>1. JoinsInv => JoinsSound
  <2> SUFFICES ASSUME JoinsInv PROVE JoinsSound
    OBVIOUS
  <2>1. \A j \in joins : /\ j[1] \in Holders(j[2][2]) /\ j[2][2] # OwnTask
                         /\ ~\E k \in joins : k # j /\ k[2] = j[2]
                         /\ ~\E w \in warnings : w[2] = j[2]
    BY JoinsAssumption DEF JoinsInv, JoinsFit
  <2>2. ASSUME joinStep = "done", joinMode = "all", shownErrors = {}, parts["history"] = "ok",
               NEW v \in {ref.parent, ref.child, ref.lineage, ref.corr} \ {Nothing, OwnTask},
               TaskReached(v) = Holders(v), Holders(v) # {}
        PROVE  \E x \in joins \cup warnings : x[2][2] = v
    <3>1. parts \in PartOutcomes /\ BundleErrors = {} /\ todo = <<>> /\ ref \in References
      BY <2>2 DEF JoinsInv, JoinsType
    <3>2. parts["graph"] = "ok"
      BY <3>1 DEF PartOutcomes, BundleErrors, Outcomes, Parts
    <3>3. v \in {PrimaryRef.parent, PrimaryRef.child, PrimaryRef.lineage, PrimaryRef.corr}
      BY <2>2, <3>2 DEF PrimaryRef
    <3>4. PICK kind \in Kinds : InList(<<kind, v>>, JoinCandidates(PrimaryRef))
      BY <2>2, <3>1, <3>3, PrimaryRefType, CandidateFacts
    <3>5. ~InList(<<kind, v>>, todo)
      BY <3>1, EmptyList
    <3>6. Handled(<<kind, v>>)
      BY <2>2, <3>4, <3>5 DEF JoinsInv, AllHandled
    <3>7. \A s \in Holders(v) : <<s, <<kind, v>>>> \notin failedScans
      BY <2>2 DEF TaskReached
    <3>8. \E x \in joins \cup warnings : x[2] = <<kind, v>>
      BY <2>2, <3>6, <3>7 DEF Handled
    <3> QED BY <3>8
  <2> QED BY <2>1, <2>2 DEF JoinsSound
<1>2. JoinsInit => JoinsInv
  BY JoinsInitially
<1>3. JoinsInv /\ [JoinsNext]_joinVars => JoinsInv'
  BY JoinsKept
<1> QED BY <1>1, <1>2, <1>3, PTL

-----------------------------------------------------------------------------
(* Incidents: the inductive invariant.                                     *)

IncidentPages ==
    [pc : {"read", "split"}, i : IncidentIds, revision : Nat, j : IncidentIds, target : Nat, observed : SUBSET FailedTasks]
IncidentsType ==
    /\ incident \in [IncidentIds -> IncidentRows \cup {Nothing}]
    /\ override \in [FailedTasks -> SplitIds \cup {Nothing}]
    /\ failed \subseteq FailedTasks /\ discovered \subseteq FailedTasks
    /\ page \in [Operators -> IncidentPages \cup {NoPage}]

(* An incident there is, of a scope.                                       *)
OfScope(rows, i, scope) == i \in IncidentIds /\ rows[i] # Nothing /\ rows[i].scope = scope
(* The incident it was merged into, within its scope.                      *)
LinkTo(rows, i) == IF rows[i] = Nothing THEN Nothing ELSE rows[i].merged
LinksWithin(rows) ==
    \A i \in IncidentIds : LinkTo(rows, i) # Nothing => OfScope(rows, LinkTo(rows, i), rows[i].scope)
(* No cycle: whatever set of incidents is left by no link has one that is  *)
(* not merged.                                                             *)
Acyclic(rows) ==
    \A set \in SUBSET IncidentIds :
        set # {} /\ (\A i \in set : LinkTo(rows, i) \in set \cup {Nothing}) => \E i \in set : LinkTo(rows, i) = Nothing

(* Where the failures are: a row for the group of each one discovered, of  *)
(* its scope, and one for what a split assigned.                           *)
RowsPlaced ==
    /\ \A g \in Groups : incident[g] # Nothing => incident[g].scope = ScopeOf[g]
    /\ \A f \in discovered : incident[GroupOf[f]] # Nothing
    /\ \A f \in FailedTasks : override[f] # Nothing => OfScope(incident, override[f], FailureScope(f))
PagesPlaced ==
    \A o \in Operators : page[o].pc = "split" =>
        \A f \in page[o].observed : OfScope(incident, page[o].i, FailureScope(f))

IncidentsInv == IncidentsType /\ LinksWithin(incident) /\ Acyclic(incident) /\ RowsPlaced /\ PagesPlaced

LEMMA IncidentsInitially == IncidentsInit => IncidentsInv
<1> SUFFICES ASSUME IncidentsInit PROVE IncidentsInv
  OBVIOUS
<1>1. IncidentsType
  BY DEF IncidentsInit, IncidentsType
<1>2. \A i \in IncidentIds : LinkTo(incident, i) = Nothing
  BY DEF IncidentsInit, LinkTo
<1>3. LinksWithin(incident) /\ Acyclic(incident)
  BY <1>2 DEF LinksWithin, Acyclic
<1>4. RowsPlaced /\ PagesPlaced
  BY IncidentsAssumption DEF IncidentsInit, RowsPlaced, PagesPlaced, NoPage, IncidentIds
<1> QED BY <1>1, <1>3, <1>4 DEF IncidentsInv

(* What a correction does to the rows: they stay, in their scope, and at   *)
(* most one that was not merged is merged into another that is not.        *)
RowsKept(rows, next) == \A i \in IncidentIds : \A scope : OfScope(rows, i, scope) => OfScope(next, i, scope)
LinksKept(rows, next) == \A i \in IncidentIds : LinkTo(next, i) = LinkTo(rows, i)
LinkAdded(rows, next, a, b) ==
    /\ a \in IncidentIds /\ b \in IncidentIds /\ a # b
    /\ OfScope(rows, a, rows[a].scope) /\ OfScope(rows, b, rows[a].scope)
    /\ LinkTo(rows, a) = Nothing /\ LinkTo(rows, b) = Nothing
    /\ \A i \in IncidentIds : LinkTo(next, i) = IF i = a THEN b ELSE LinkTo(rows, i)

LEMMA LinksStay ==
    ASSUME NEW rows, NEW next, LinksWithin(rows), Acyclic(rows), RowsKept(rows, next), LinksKept(rows, next)
    PROVE  LinksWithin(next) /\ Acyclic(next)
<1>1. Acyclic(next)
  BY DEF Acyclic, LinksKept
<1>2. ASSUME NEW i \in IncidentIds, LinkTo(next, i) # Nothing
      PROVE  OfScope(next, LinkTo(next, i), next[i].scope)
  <2>1. LinkTo(rows, i) = LinkTo(next, i) /\ rows[i] # Nothing
    BY <1>2 DEF LinksKept, LinkTo
  <2>2. OfScope(rows, i, rows[i].scope) /\ OfScope(rows, LinkTo(rows, i), rows[i].scope)
    BY <1>2, <2>1 DEF LinksWithin, OfScope
  <2>3. OfScope(next, i, rows[i].scope) /\ OfScope(next, LinkTo(rows, i), rows[i].scope)
    BY <2>2 DEF RowsKept, OfScope
  <2> QED BY <2>1, <2>3 DEF OfScope
<1> QED BY <1>1, <1>2 DEF LinksWithin

LEMMA LinksGrow ==
    ASSUME NEW rows, NEW next, LinksWithin(rows), Acyclic(rows), RowsKept(rows, next), NEW a, NEW b,
           LinkAdded(rows, next, a, b), Nothing \notin IncidentIds
    PROVE  LinksWithin(next) /\ Acyclic(next)
<1>1. ASSUME NEW set \in SUBSET IncidentIds, set # {},
             \A i \in set : LinkTo(next, i) \in set \cup {Nothing}
      PROVE  \E i \in set : LinkTo(next, i) = Nothing
  <2>1. \A i \in set : LinkTo(rows, i) \in set \cup {Nothing}
    BY <1>1 DEF LinkAdded
  <2>2. PICK r \in set : LinkTo(rows, r) = Nothing
    BY <1>1, <2>1 DEF Acyclic
  <2>3. CASE r # a
    BY <2>2, <2>3 DEF LinkAdded
  <2>4. CASE r = a
    BY <1>1, <2>4 DEF LinkAdded
  <2> QED BY <2>3, <2>4
<1>2. ASSUME NEW i \in IncidentIds, LinkTo(next, i) # Nothing
      PROVE  OfScope(next, LinkTo(next, i), next[i].scope)
  <2>1. OfScope(rows, i, rows[i].scope) /\ OfScope(rows, LinkTo(next, i), rows[i].scope)
    <3>1. CASE i = a
      BY <3>1 DEF LinkAdded
    <3>2. CASE i # a
      <4>1. LinkTo(rows, i) = LinkTo(next, i)
        BY <3>2 DEF LinkAdded
      <4> QED BY <1>2, <4>1 DEF LinksWithin, LinkTo, OfScope
    <3> QED BY <3>1, <3>2
  <2>2. OfScope(next, i, rows[i].scope) /\ OfScope(next, LinkTo(next, i), rows[i].scope)
    BY <2>1 DEF RowsKept, OfScope
  <2> QED BY <2>2 DEF OfScope
<1> QED BY <1>1, <1>2 DEF LinksWithin, Acyclic

(* What stays true of the failures when the rows stay.                     *)
LEMMA PlacesStay ==
    ASSUME IncidentsInv, RowsKept(incident, incident'), UNCHANGED override, discovered' = discovered,
           \A g \in Groups : incident[g] = Nothing => incident'[g] = Nothing
    PROVE  RowsPlaced'
<1>1. \A i \in IncidentIds : incident[i] # Nothing => incident'[i] # Nothing /\ incident'[i].scope = incident[i].scope
  BY DEF RowsKept, OfScope
<1>2. \A f \in discovered : GroupOf[f] \in Groups
  BY IncidentsAssumption DEF IncidentsInv, IncidentsType
<1>3. \A g \in Groups : g \in IncidentIds
  BY DEF IncidentIds
<1>4. \A g \in Groups : incident'[g] # Nothing => incident'[g].scope = ScopeOf[g]
  BY <1>1, <1>3 DEF IncidentsInv, RowsPlaced
<1>5. \A f \in discovered' : incident'[GroupOf[f]] # Nothing
  BY <1>1, <1>2, <1>3 DEF IncidentsInv, RowsPlaced
<1>6. \A f \in FailedTasks : override'[f] # Nothing => OfScope(incident', override'[f], FailureScope(f))
  <2> SUFFICES ASSUME NEW f \in FailedTasks, override[f] # Nothing PROVE OfScope(incident', override[f], FailureScope(f))
    OBVIOUS
  <2>1. OfScope(incident, override[f], FailureScope(f))
    BY DEF IncidentsInv, RowsPlaced
  <2> QED BY <2>1 DEF RowsKept, OfScope
<1> QED BY <1>4, <1>5, <1>6 DEF RowsPlaced, FailureScope

LEMMA PagesStay ==
    ASSUME IncidentsInv, RowsKept(incident, incident'), NEW o \in Operators,
           page' = page \/ page' = [page EXCEPT ![o] = NoPage]
    PROVE  PagesPlaced' /\ page' \in [Operators -> IncidentPages \cup {NoPage}]
<1>1. page \in [Operators -> IncidentPages \cup {NoPage}]
  BY DEF IncidentsInv, IncidentsType
<1>2. ASSUME NEW q \in Operators, page'[q].pc = "split", NEW f \in page'[q].observed
      PROVE  OfScope(incident', page'[q].i, FailureScope(f)')
  <2>1. page'[q] = page[q]
    BY <1>1, <1>2 DEF NoPage
  <2>2. OfScope(incident, page[q].i, FailureScope(f))
    BY <1>2, <2>1 DEF IncidentsInv, PagesPlaced
  <2> QED BY <2>1, <2>2 DEF RowsKept, OfScope, FailureScope
<1> QED BY <1>1, <1>2 DEF PagesPlaced

LEMMA IncidentFacts ==
    ASSUME IncidentsInv, NEW o \in Operators, page[o].pc \in {"read", "split"}
    PROVE  page[o] \in IncidentPages
BY DEF IncidentsInv, IncidentsType, NoPage

LEMMA LockedFacts ==
    ASSUME IncidentsInv, NEW i \in IncidentIds, NEW revision, Locked(i, revision)
    PROVE  /\ incident[i] \in IncidentRows /\ incident[i] # Nothing /\ incident[i].merged = Nothing
           /\ LinkTo(incident, i) = Nothing
<1>1. incident[i] \in IncidentRows \cup {Nothing}
  BY DEF IncidentsInv, IncidentsType
<1> QED BY <1>1 DEF Locked, LinkTo

(* The rows that the corrections write.                                    *)
LEMMA RowEdits ==
    ASSUME NEW x \in IncidentRows, NEW status \in {"open", "acknowledged", "resolved"}, NEW b \in IncidentIds
    PROVE  /\ [x EXCEPT !.status = status, !.revision = @ + 1] \in IncidentRows
           /\ [x EXCEPT !.status = status, !.revision = @ + 1].scope = x.scope
           /\ [x EXCEPT !.status = status, !.revision = @ + 1].merged = x.merged
           /\ [x EXCEPT !.merged = b, !.revision = @ + 1] \in IncidentRows
           /\ [x EXCEPT !.merged = b, !.revision = @ + 1].scope = x.scope
           /\ [x EXCEPT !.merged = b, !.revision = @ + 1].merged = b
           /\ [x EXCEPT !.revision = @ + 1] \in IncidentRows
           /\ [x EXCEPT !.revision = @ + 1].scope = x.scope
           /\ [x EXCEPT !.revision = @ + 1].merged = x.merged
<1>1. x.revision + 1 \in Nat
  BY DEF IncidentRows
<1> DEFINE n == x.revision + 1
<1>2. /\ [x EXCEPT !.status = status, !.revision = @ + 1] = [x EXCEPT !.status = status, !.revision = n]
      /\ [x EXCEPT !.merged = b, !.revision = @ + 1] = [x EXCEPT !.merged = b, !.revision = n]
      /\ [x EXCEPT !.revision = @ + 1] = [x EXCEPT !.revision = n]
  BY DEF IncidentRows
<1> HIDE DEF n
<1>3. n \in Nat
  BY <1>1 DEF n
<1>4. /\ [x EXCEPT !.status = status, !.revision = n] \in IncidentRows
      /\ [x EXCEPT !.status = status, !.revision = n].scope = x.scope
      /\ [x EXCEPT !.status = status, !.revision = n].merged = x.merged
  BY <1>3 DEF IncidentRows
<1>5. /\ [x EXCEPT !.merged = b, !.revision = n] \in IncidentRows
      /\ [x EXCEPT !.merged = b, !.revision = n].scope = x.scope
      /\ [x EXCEPT !.merged = b, !.revision = n].merged = b
  BY <1>3 DEF IncidentRows
<1>6. /\ [x EXCEPT !.revision = n] \in IncidentRows
      /\ [x EXCEPT !.revision = n].scope = x.scope
      /\ [x EXCEPT !.revision = n].merged = x.merged
  BY <1>3 DEF IncidentRows
<1> QED BY <1>2, <1>4, <1>5, <1>6

(* One row changed, its scope kept and its link as said.                   *)
LEMMA RowChanged ==
    ASSUME IncidentsInv, NEW i \in IncidentIds, incident[i] # Nothing, NEW row \in IncidentRows,
           row.scope = incident[i].scope
    PROVE  LET next == [incident EXCEPT ![i] = row]
           IN  /\ next \in [IncidentIds -> IncidentRows \cup {Nothing}]
               /\ RowsKept(incident, next)
               /\ \A j \in IncidentIds : LinkTo(next, j) = IF j = i THEN row.merged ELSE LinkTo(incident, j)
               /\ \A j \in IncidentIds : incident[j] = Nothing => next[j] = Nothing
<1> DEFINE next == [incident EXCEPT ![i] = row]
<1>1. incident \in [IncidentIds -> IncidentRows \cup {Nothing}]
  BY DEF IncidentsInv, IncidentsType
<1>2. next \in [IncidentIds -> IncidentRows \cup {Nothing}]
  BY <1>1
<1>3. \A j \in IncidentIds : next[j] = IF j = i THEN row ELSE incident[j]
  BY <1>1
<1> HIDE DEF next
<1>4. row # Nothing
  BY IncidentRowAssumption
<1>5. RowsKept(incident, next)
  BY <1>3, <1>4 DEF RowsKept, OfScope
<1>6. \A j \in IncidentIds : LinkTo(next, j) = IF j = i THEN row.merged ELSE LinkTo(incident, j)
  BY <1>3, <1>4 DEF LinkTo
<1> QED BY <1>2, <1>3, <1>5, <1>6 DEF next

(* _IncidentStore.snapshot adds the rows of groups, of their scope.        *)
LEMMA DiscoveringFacts ==
    ASSUME IncidentsInv, NEW evidence \in SUBSET FailedTasks, Discovering(evidence), UNCHANGED override
    PROVE  /\ incident' \in [IncidentIds -> IncidentRows \cup {Nothing}]
           /\ RowsKept(incident, incident') /\ LinksKept(incident, incident') /\ RowsPlaced'
           /\ discovered' \subseteq FailedTasks
<1> DEFINE groups == {GroupOf[f] : f \in evidence}
<1>1. /\ incident \in [IncidentIds -> IncidentRows \cup {Nothing}] /\ discovered \subseteq FailedTasks
      /\ groups \subseteq Groups /\ Groups \subseteq IncidentIds
      /\ \A f \in FailedTasks : GroupOf[f] \in Groups
  BY IncidentsAssumption DEF IncidentsInv, IncidentsType, IncidentIds
<1>2. \A i \in IncidentIds : incident'[i] = IF incident[i] = Nothing /\ i \in groups THEN NewIncident(ScopeOf[i]) ELSE incident[i]
  BY DEF Discovering
<1>3. discovered' = discovered \cup evidence
  BY DEF Discovering
<1>4. \A g \in Groups : /\ NewIncident(ScopeOf[g]) \in IncidentRows /\ NewIncident(ScopeOf[g]) # Nothing
                        /\ NewIncident(ScopeOf[g]).merged = Nothing /\ NewIncident(ScopeOf[g]).scope = ScopeOf[g]
  <2> SUFFICES ASSUME NEW g \in Groups
               PROVE  /\ NewIncident(ScopeOf[g]) \in IncidentRows /\ NewIncident(ScopeOf[g]) # Nothing
                      /\ NewIncident(ScopeOf[g]).merged = Nothing /\ NewIncident(ScopeOf[g]).scope = ScopeOf[g]
    OBVIOUS
  <2>1. ScopeOf[g] \in Scopes
    BY IncidentsAssumption
  <2>2. NewIncident(ScopeOf[g]) \in IncidentRows
    BY <2>1 DEF NewIncident, IncidentRows
  <2> QED BY <2>2, IncidentRowAssumption DEF NewIncident
<1>5. incident' = [i \in IncidentIds |-> incident'[i]]
  BY DEF Discovering
<1> HIDE DEF groups
<1>6. incident' \in [IncidentIds -> IncidentRows \cup {Nothing}]
  <2>1. \A i \in IncidentIds : incident'[i] \in IncidentRows \cup {Nothing}
    BY <1>1, <1>2, <1>4
  <2> QED BY <1>5, <2>1
<1>7. RowsKept(incident, incident')
  BY <1>2 DEF RowsKept, OfScope
<1>8. LinksKept(incident, incident')
  BY <1>1, <1>2, <1>4 DEF LinksKept, LinkTo
<1>9. \A g \in Groups : incident'[g] # Nothing => incident'[g].scope = ScopeOf[g]
  BY <1>1, <1>2, <1>4 DEF IncidentsInv, RowsPlaced
<1>10. \A f \in discovered' : incident'[GroupOf[f]] # Nothing
  <2> SUFFICES ASSUME NEW f \in discovered' PROVE incident'[GroupOf[f]] # Nothing
    OBVIOUS
  <2>1. GroupOf[f] \in Groups /\ GroupOf[f] \in IncidentIds
    BY <1>1, <1>3
  <2>2. CASE f \in discovered
    BY <1>2, <1>4, <2>1, <2>2 DEF IncidentsInv, RowsPlaced
  <2>3. CASE f \in evidence
    BY <1>2, <1>4, <2>1, <2>3 DEF groups
  <2> QED BY <1>3, <2>2, <2>3
<1>11. \A f \in FailedTasks : override'[f] # Nothing => OfScope(incident', override'[f], FailureScope(f))
  <2> SUFFICES ASSUME NEW f \in FailedTasks, override[f] # Nothing PROVE OfScope(incident', override[f], FailureScope(f))
    OBVIOUS
  <2>1. OfScope(incident, override[f], FailureScope(f))
    BY DEF IncidentsInv, RowsPlaced
  <2> QED BY <1>7, <2>1 DEF RowsKept, OfScope
<1>12. RowsPlaced'
  BY <1>9, <1>10, <1>11 DEF RowsPlaced, FailureScope
<1> QED BY <1>1, <1>3, <1>6, <1>7, <1>8, <1>12

LEMMA ListIncidentsKeeps ==
    ASSUME IncidentsInv, NEW evidence \in SUBSET FailedTasks, ListIncidents(evidence) PROVE IncidentsInv'
<1>1. /\ incident' \in [IncidentIds -> IncidentRows \cup {Nothing}]
      /\ RowsKept(incident, incident') /\ LinksKept(incident, incident') /\ RowsPlaced'
      /\ discovered' \subseteq FailedTasks
  BY DiscoveringFacts DEF ListIncidents
<1>2. LinksWithin(incident)' /\ Acyclic(incident)'
  BY <1>1, LinksStay DEF IncidentsInv
<1>3. PagesPlaced'
  <2> SUFFICES ASSUME NEW q \in Operators, page[q].pc = "split", NEW f \in page[q].observed
               PROVE  OfScope(incident', page[q].i, FailureScope(f))
    BY DEF ListIncidents, PagesPlaced, FailureScope
  <2>1. OfScope(incident, page[q].i, FailureScope(f))
    BY DEF IncidentsInv, PagesPlaced
  <2> QED BY <1>1, <2>1 DEF RowsKept, OfScope
<1> QED BY <1>1, <1>2, <1>3 DEF IncidentsInv, IncidentsType, ListIncidents

LEMMA ScanForSplitKeeps ==
    ASSUME IncidentsInv, NEW o \in Operators, NEW evidence \in SUBSET FailedTasks, ScanForSplit(o, evidence)
    PROVE  IncidentsInv'
<1>1. /\ incident' \in [IncidentIds -> IncidentRows \cup {Nothing}]
      /\ RowsKept(incident, incident') /\ LinksKept(incident, incident') /\ RowsPlaced'
      /\ discovered' \subseteq FailedTasks
  BY DiscoveringFacts DEF ScanForSplit
<1>2. LinksWithin(incident)' /\ Acyclic(incident)'
  BY <1>1, LinksStay DEF IncidentsInv
<1>3. page[o] \in IncidentPages /\ page \in [Operators -> IncidentPages \cup {NoPage}]
  BY IncidentFacts DEF ScanForSplit, IncidentsInv, IncidentsType
<1> DEFINE next == [page[o] EXCEPT !.pc = "split", !.observed = evidence]
<1>4. page' = [page EXCEPT ![o] = next]
  BY <1>3 DEF ScanForSplit, IncidentPages
<1>5. next \in IncidentPages /\ next.pc = "split" /\ next.observed = evidence /\ next.i = page[o].i
  BY <1>3 DEF IncidentPages
<1> HIDE DEF next
<1>6. page' \in [Operators -> IncidentPages \cup {NoPage}]
  BY <1>3, <1>4, <1>5
<1>7. PagesPlaced'
  <2> SUFFICES ASSUME NEW q \in Operators, page'[q].pc = "split", NEW f \in page'[q].observed
               PROVE  OfScope(incident', page'[q].i, FailureScope(f))
    BY DEF PagesPlaced, FailureScope
  <2>1. OfScope(incident, page'[q].i, FailureScope(f))
    <3>1. CASE q = o
      <4>1. page'[q] = next
        BY <1>3, <1>4, <3>1
      <4>2. page[o].i \in IncidentIds /\ incident[page[o].i] # Nothing /\ FailureScope(f) = incident[page[o].i].scope
        BY <1>3, <1>5, <4>1 DEF ScanForSplit, IncidentPages
      <4> QED BY <1>5, <4>1, <4>2 DEF OfScope
    <3>2. CASE q # o
      <4>1. page'[q] = page[q]
        BY <1>3, <1>4, <3>2
      <4> QED BY <4>1 DEF IncidentsInv, PagesPlaced
    <3> QED BY <3>1, <3>2
  <2> QED BY <1>1, <2>1 DEF RowsKept, OfScope
<1> QED BY <1>1, <1>2, <1>6, <1>7 DEF IncidentsInv, IncidentsType, ScanForSplit

LEMMA OpenPageKeeps ==
    ASSUME IncidentsInv, NEW o \in Operators, NEW i \in IncidentIds, NEW j \in IncidentIds, OpenPage(o, i, j)
    PROVE  IncidentsInv'
<1> DEFINE next == [pc |-> "read", i |-> i, revision |-> incident[i].revision,
                    j |-> j, target |-> incident[j].revision, observed |-> {}]
<1>1. page' = [page EXCEPT ![o] = next] /\ UNCHANGED <<incident, override, failed, discovered>>
  BY DEF OpenPage
<1>2. incident[i] \in IncidentRows /\ incident[j] \in IncidentRows
  BY DEF OpenPage, IncidentsInv, IncidentsType
<1>3. next \in IncidentPages /\ next.pc = "read"
  BY <1>2 DEF IncidentPages, IncidentRows
<1> HIDE DEF next
<1>4. page \in [Operators -> IncidentPages \cup {NoPage}]
  BY DEF IncidentsInv, IncidentsType
<1>5. page' \in [Operators -> IncidentPages \cup {NoPage}]
  BY <1>1, <1>3, <1>4
<1>6. PagesPlaced'
  <2> SUFFICES ASSUME NEW q \in Operators, page'[q].pc = "split", NEW f \in page'[q].observed
               PROVE  OfScope(incident', page'[q].i, FailureScope(f))
    BY DEF PagesPlaced, FailureScope
  <2>1. page'[q] = page[q]
    BY <1>1, <1>3, <1>4
  <2> QED BY <1>1, <2>1 DEF IncidentsInv, PagesPlaced
<1>7. IncidentsType'
  BY <1>1, <1>5 DEF IncidentsInv, IncidentsType
<1>8. LinksWithin(incident)' /\ Acyclic(incident)' /\ RowsPlaced'
  BY <1>1 DEF IncidentsInv, RowsPlaced, FailureScope
<1> QED BY <1>6, <1>7, <1>8 DEF IncidentsInv

LEMMA RowChangeKeeps ==
    ASSUME IncidentsInv, NEW o \in Operators, NEW status \in {"acknowledged", "resolved"}, Change(o, status)
    PROVE  IncidentsInv'
<1> DEFINE i == page[o].i
           row == [incident[i] EXCEPT !.status = status, !.revision = @ + 1]
<1>1. page[o] \in IncidentPages /\ i \in IncidentIds
  BY IncidentFacts DEF Change, IncidentPages
<1>2. /\ UNCHANGED <<override, failed, discovered>> /\ page' = [page EXCEPT ![o] = NoPage]
  BY DEF Change, Close
<1>3. /\ incident' \in [IncidentIds -> IncidentRows \cup {Nothing}]
      /\ RowsKept(incident, incident') /\ LinksKept(incident, incident')
      /\ \A j \in IncidentIds : incident[j] = Nothing => incident'[j] = Nothing
  <2>1. CASE Locked(i, page[o].revision)
    <3>1. /\ incident[i] \in IncidentRows /\ incident[i] # Nothing /\ incident[i].merged = Nothing
          /\ LinkTo(incident, i) = Nothing
      BY <1>1, <2>1, LockedFacts
    <3>2. row \in IncidentRows /\ row.scope = incident[i].scope /\ row.merged = Nothing
      BY <1>1, <3>1, RowEdits
    <3>3. incident' = [incident EXCEPT ![i] = row]
      BY <2>1, <3>1 DEF Change, IncidentRows
    <3> HIDE DEF row, i
    <3>4. /\ incident' \in [IncidentIds -> IncidentRows \cup {Nothing}] /\ RowsKept(incident, incident')
          /\ \A j \in IncidentIds : LinkTo(incident', j) = IF j = i THEN row.merged ELSE LinkTo(incident, j)
          /\ \A j \in IncidentIds : incident[j] = Nothing => incident'[j] = Nothing
      <4> DEFINE next == [incident EXCEPT ![i] = row]
      <4>1. /\ next \in [IncidentIds -> IncidentRows \cup {Nothing}] /\ RowsKept(incident, next)
            /\ \A j \in IncidentIds : LinkTo(next, j) = IF j = i THEN row.merged ELSE LinkTo(incident, j)
            /\ \A j \in IncidentIds : incident[j] = Nothing => next[j] = Nothing
        BY Zenon, <1>1, <3>1, <3>2, RowChanged
      <4>2. incident' = next
        BY <3>3
      <4> HIDE DEF next
      <4> QED BY Zenon, <4>1, <4>2
    <3> QED BY <3>1, <3>2, <3>4 DEF LinksKept
  <2>2. CASE ~Locked(i, page[o].revision)
    <3>1. incident' = incident
      BY <2>2 DEF Change
    <3> QED BY <3>1 DEF IncidentsInv, IncidentsType, RowsKept, LinksKept
  <2> QED BY <2>1, <2>2
<1> HIDE DEF i, row
<1>4. LinksWithin(incident)' /\ Acyclic(incident)'
  BY <1>3, LinksStay DEF IncidentsInv
<1>5. RowsPlaced'
  BY <1>2, <1>3, PlacesStay DEF IncidentIds
<1>6. PagesPlaced' /\ page' \in [Operators -> IncidentPages \cup {NoPage}]
  BY <1>2, <1>3, PagesStay
<1> QED BY <1>2, <1>3, <1>4, <1>5, <1>6 DEF IncidentsInv, IncidentsType

LEMMA MergeKeeps == ASSUME IncidentsInv, NEW o \in Operators, Merge(o) PROVE IncidentsInv'
<1> DEFINE a == page[o].i
           b == page[o].j
           merging == /\ a # b /\ Locked(a, page[o].revision) /\ Locked(b, page[o].target)
                      /\ incident[a].scope = incident[b].scope
           from == [incident[a] EXCEPT !.merged = b, !.revision = @ + 1]
           into == [incident[b] EXCEPT !.revision = @ + 1]
           once == [incident EXCEPT ![a] = from]
<1>1. page[o] \in IncidentPages /\ a \in IncidentIds /\ b \in IncidentIds
  BY IncidentFacts DEF Merge, IncidentPages
<1>2. UNCHANGED <<override, failed, discovered>> /\ page' = [page EXCEPT ![o] = NoPage]
  BY DEF Merge, Close
<1>3. /\ incident' \in [IncidentIds -> IncidentRows \cup {Nothing}]
      /\ RowsKept(incident, incident') /\ LinksWithin(incident') /\ Acyclic(incident')
      /\ \A j \in IncidentIds : incident[j] = Nothing => incident'[j] = Nothing
  <2>1. CASE merging
    <3>1. /\ incident[a] \in IncidentRows /\ incident[a] # Nothing /\ LinkTo(incident, a) = Nothing
          /\ incident[b] \in IncidentRows /\ incident[b] # Nothing /\ LinkTo(incident, b) = Nothing
          /\ incident[b].merged = Nothing
          /\ a # b /\ incident[a].scope = incident[b].scope
      BY <1>1, <2>1, LockedFacts
    <3>2. /\ from \in IncidentRows /\ from.scope = incident[a].scope /\ from.merged = b
          /\ into \in IncidentRows /\ into.scope = incident[b].scope /\ into.merged = Nothing
      <4>1. from \in IncidentRows /\ from.scope = incident[a].scope /\ from.merged = b
        <5> DEFINE x == incident[a]
                   y == b
        <5>1. x \in IncidentRows /\ y \in IncidentIds /\ from = [x EXCEPT !.merged = y, !.revision = @ + 1]
          BY <1>1, <3>1
        <5> HIDE DEF x, y, from, a, b
        <5>2. from \in IncidentRows /\ from.scope = x.scope /\ from.merged = y
          BY <5>1, RowEdits
        <5> QED BY <5>2 DEF x, y
      <4>2. into \in IncidentRows /\ into.scope = incident[b].scope /\ into.merged = Nothing
        BY <1>1, <3>1 DEF IncidentRows
      <4> QED BY <4>1, <4>2
    <3>3. incident \in [IncidentIds -> IncidentRows \cup {Nothing}]
      BY DEF IncidentsInv, IncidentsType
    <3>4. incident' = [incident EXCEPT ![a] = from, ![b] = into]
      BY <1>1, <2>1, <3>1, <3>3 DEF Merge, IncidentRows
    <3>5. \A j \in IncidentIds : incident'[j] = IF j = a THEN from ELSE IF j = b THEN into ELSE incident[j]
      BY <1>1, <3>1, <3>3, <3>4
    <3>6. incident' \in [IncidentIds -> IncidentRows \cup {Nothing}]
      BY <1>1, <3>2, <3>3, <3>4
    <3>7. from # Nothing /\ into # Nothing
      BY <3>2, IncidentRowAssumption
    <3> HIDE DEF from, into, a, b
    <3>8. RowsKept(incident, incident')
      BY <3>1, <3>2, <3>5, <3>7 DEF RowsKept, OfScope
    <3>9. LinkAdded(incident, incident', a, b)
      BY <1>1, <3>1, <3>2, <3>5, <3>7 DEF LinkAdded, OfScope, LinkTo
    <3>10. LinksWithin(incident') /\ Acyclic(incident')
      BY <3>8, <3>9, LinksGrow, IncidentsAssumption DEF IncidentsInv
    <3> QED BY <3>1, <3>5, <3>6, <3>8, <3>10
  <2>2. CASE ~merging
    <3>1. incident' = incident
      BY <2>2 DEF Merge
    <3> QED BY <3>1 DEF IncidentsInv, IncidentsType, RowsKept
  <2> QED BY <2>1, <2>2
<1> HIDE DEF a, b, merging, from, into, once
<1>4. RowsPlaced'
  BY <1>2, <1>3, PlacesStay DEF IncidentIds
<1>5. PagesPlaced' /\ page' \in [Operators -> IncidentPages \cup {NoPage}]
  BY <1>2, <1>3, PagesStay
<1> QED BY <1>2, <1>3, <1>4, <1>5 DEF IncidentsInv, IncidentsType

LEMMA SplitKeeps ==
    ASSUME IncidentsInv, NEW o \in Operators, NEW selected \in SUBSET FailedTasks, NEW new \in SplitIds,
           Split(o, selected, new)
    PROVE  IncidentsInv'
<1> DEFINE i == page[o].i
           members == {f \in page[o].observed : IncidentOf(f) = i}
           splitting == Locked(i, page[o].revision) /\ selected # {} /\ selected \subseteq members /\ selected # members
           fresh == NewIncident(incident[i].scope)
           row == [incident[i] EXCEPT !.revision = @ + 1]
<1>1. page[o] \in IncidentPages /\ i \in IncidentIds /\ new \in IncidentIds /\ new \notin Groups
  BY IncidentFacts, IncidentsAssumption DEF Split, IncidentPages, IncidentIds
<1>2. /\ failed' = failed /\ discovered' = discovered /\ page' = [page EXCEPT ![o] = NoPage]
      /\ incident[new] = Nothing /\ page[o].pc = "split"
  BY DEF Split, Close
<1>3. CASE splitting
  <2>1. incident[i] \in IncidentRows /\ incident[i] # Nothing /\ LinkTo(incident, i) = Nothing /\ incident[i].merged = Nothing
    BY <1>1, <1>3, LockedFacts
  <2>2. new # i
    BY <1>2, <2>1
  <2>3. /\ row \in IncidentRows /\ row.scope = incident[i].scope /\ row.merged = Nothing
        /\ fresh \in IncidentRows /\ fresh.scope = incident[i].scope /\ fresh.merged = Nothing
    BY <2>1 DEF IncidentRows, NewIncident
  <2>4. incident \in [IncidentIds -> IncidentRows \cup {Nothing}]
    BY DEF IncidentsInv, IncidentsType
  <2>5. incident' = [incident EXCEPT ![new] = fresh, ![i] = row]
    BY <1>1, <1>3, <2>1, <2>2, <2>4 DEF Split, IncidentRows
  <2>6. \A j \in IncidentIds : incident'[j] = IF j = new THEN fresh ELSE IF j = i THEN row ELSE incident[j]
    BY <1>1, <2>2, <2>4, <2>5
  <2>7. incident' \in [IncidentIds -> IncidentRows \cup {Nothing}]
    BY <1>1, <2>3, <2>4, <2>5
  <2>8. fresh # Nothing /\ row # Nothing
    BY <2>3, IncidentRowAssumption
  <2>9. override' = [f \in FailedTasks |-> IF f \in selected THEN new ELSE override[f]]
    BY <1>3 DEF Split
  <2>10. \A f \in selected : OfScope(incident, i, FailureScope(f))
    BY <1>2, <1>3 DEF IncidentsInv, PagesPlaced
  <2>11. page[o].observed \subseteq FailedTasks
    BY <1>1 DEF IncidentPages
  <2> HIDE DEF fresh, row, i, members
  <2>12. RowsKept(incident, incident') /\ LinksKept(incident, incident')
    BY <1>1, <1>2, <2>1, <2>3, <2>6, <2>8 DEF RowsKept, LinksKept, OfScope, LinkTo
  <2>13. LinksWithin(incident)' /\ Acyclic(incident)'
    BY <2>12, LinksStay DEF IncidentsInv
  <2>14. override' \in [FailedTasks -> SplitIds \cup {Nothing}]
    BY <2>9 DEF IncidentsInv, IncidentsType
  <2>15. \A f \in FailedTasks : override'[f] # Nothing => OfScope(incident', override'[f], FailureScope(f))
    <3> SUFFICES ASSUME NEW f \in FailedTasks, override'[f] # Nothing PROVE OfScope(incident', override'[f], FailureScope(f))
      OBVIOUS
    <3>1. CASE f \in selected
      <4>1. override'[f] = new /\ incident'[new] = fresh
        BY <1>1, <2>6, <2>9, <3>1
      <4>2. FailureScope(f) = incident[i].scope
        BY <2>10, <3>1 DEF OfScope
      <4> QED BY <1>1, <2>3, <2>8, <4>1, <4>2 DEF OfScope
    <3>2. CASE f \notin selected
      <4>1. override'[f] = override[f]
        BY <2>9, <3>2
      <4>2. OfScope(incident, override[f], FailureScope(f))
        BY <4>1 DEF IncidentsInv, RowsPlaced
      <4> QED BY <2>12, <4>1, <4>2 DEF RowsKept, OfScope
    <3> QED BY <3>1, <3>2
  <2>16. \A g \in Groups : incident'[g] # Nothing => incident'[g].scope = ScopeOf[g]
    <3> SUFFICES ASSUME NEW g \in Groups, incident'[g] # Nothing PROVE incident'[g].scope = ScopeOf[g]
      OBVIOUS
    <3>1. g \in IncidentIds /\ g # new
      BY <1>1 DEF IncidentIds
    <3> QED BY <2>1, <2>3, <2>6, <3>1 DEF IncidentsInv, RowsPlaced
  <2>17. \A f \in discovered' : incident'[GroupOf[f]] # Nothing
    <3> SUFFICES ASSUME NEW f \in discovered PROVE incident'[GroupOf[f]] # Nothing
      BY <1>2
    <3>1. GroupOf[f] \in IncidentIds
      BY IncidentsAssumption DEF IncidentsInv, IncidentsType, IncidentIds
    <3>2. incident[GroupOf[f]] # Nothing
      BY DEF IncidentsInv, RowsPlaced
    <3> QED BY <2>6, <2>8, <3>1, <3>2
  <2>18. RowsPlaced'
    BY <2>15, <2>16, <2>17 DEF RowsPlaced, FailureScope
  <2>19. PagesPlaced' /\ page' \in [Operators -> IncidentPages \cup {NoPage}]
    BY <1>2, <2>12, PagesStay
  <2>20. failed' \subseteq FailedTasks /\ discovered' \subseteq FailedTasks
    BY <1>2 DEF IncidentsInv, IncidentsType
  <2> QED BY <2>7, <2>13, <2>14, <2>18, <2>19, <2>20 DEF IncidentsInv, IncidentsType
<1>4. CASE ~splitting
  <2>1. UNCHANGED <<incident, override>>
    BY <1>4 DEF Split
  <2>2. RowsKept(incident, incident')
    BY <2>1 DEF RowsKept
  <2>3. PagesPlaced' /\ page' \in [Operators -> IncidentPages \cup {NoPage}]
    BY <1>2, <2>2, PagesStay
  <2>4. RowsPlaced' /\ LinksWithin(incident)' /\ Acyclic(incident)'
    BY <1>2, <2>1 DEF IncidentsInv, RowsPlaced, FailureScope
  <2> QED BY <1>2, <2>1, <2>3, <2>4 DEF IncidentsInv, IncidentsType
<1> QED BY <1>3, <1>4

LEMMA IncidentsKept == IncidentsInv /\ [IncidentsNext]_incidentVars => IncidentsInv'
<1> SUFFICES ASSUME IncidentsInv, [IncidentsNext]_incidentVars PROVE IncidentsInv'
  OBVIOUS
<1>1. ASSUME NEW f \in FailedTasks, TaskFailed(f) PROVE IncidentsInv'
  BY <1>1 DEF TaskFailed, IncidentsInv, IncidentsType, RowsPlaced, PagesPlaced, FailureScope
<1>2. ASSUME NEW evidence \in SUBSET FailedTasks, ListIncidents(evidence) PROVE IncidentsInv'
  BY <1>2, ListIncidentsKeeps
<1>3. ASSUME NEW evidence \in SUBSET FailedTasks, NEW o \in Operators, ScanForSplit(o, evidence) PROVE IncidentsInv'
  BY <1>3, ScanForSplitKeeps
<1>4. ASSUME NEW o \in Operators, NEW i \in IncidentIds, NEW j \in IncidentIds, OpenPage(o, i, j) PROVE IncidentsInv'
  BY <1>4, OpenPageKeeps
<1>5. ASSUME NEW o \in Operators, NEW status \in {"acknowledged", "resolved"}, Change(o, status) PROVE IncidentsInv'
  BY <1>5, RowChangeKeeps
<1>6. ASSUME NEW o \in Operators, Merge(o) PROVE IncidentsInv'
  BY <1>6, MergeKeeps
<1>7. ASSUME NEW o \in Operators, NEW selected \in SUBSET FailedTasks, NEW new \in SplitIds, Split(o, selected, new)
      PROVE  IncidentsInv'
  BY <1>7, SplitKeeps
<1>8. CASE UNCHANGED incidentVars
  BY <1>8 DEF incidentVars, IncidentsInv, IncidentsType, RowsPlaced, PagesPlaced, FailureScope
<1> QED BY <1>1, <1>2, <1>3, <1>4, <1>5, <1>6, <1>7, <1>8 DEF IncidentsNext

(* Following the merges from an incident of a scope ends at one of the     *)
(* scope that is not merged.                                               *)
LEMMA ResolveFacts ==
    ASSUME IncidentsInv, NEW id, NEW scope, OfScope(incident, id, scope)
    PROVE  OfScope(incident, Resolve(id, scope), scope) /\ incident[Resolve(id, scope)].merged = Nothing
<1> DEFINE V == Visited(id, scope)
           W == {i \in IncidentIds : OfScope(incident, i, scope)}
           ends == {i \in V : MergedInto(i, scope) = Nothing}
<1>1. \A i \in W : MergedInto(i, scope) = LinkTo(incident, i) /\ MergedInto(i, scope) = incident[i].merged
  BY DEF MergedInto, LinkTo, OfScope
<1>2. Follows(W, scope)
  <2> SUFFICES ASSUME NEW i \in W, MergedInto(i, scope) # Nothing PROVE MergedInto(i, scope) \in W
    BY DEF Follows
  <2>1. OfScope(incident, LinkTo(incident, i), incident[i].scope)
    BY <1>1 DEF IncidentsInv, LinksWithin
  <2> QED BY <1>1, <2>1 DEF OfScope
<1>3. V \subseteq W
  <2>1. W \in SUBSET IncidentIds /\ id \in W
    BY DEF OfScope
  <2> HIDE DEF W
  <2> QED BY <1>2, <2>1 DEF Visited
<1>4. id \in V
  BY DEF Visited, OfScope
<1>5. \A i \in V : MergedInto(i, scope) \in V \cup {Nothing}
  <2> SUFFICES ASSUME NEW i \in V, MergedInto(i, scope) # Nothing PROVE MergedInto(i, scope) \in V
    OBVIOUS
  <2>1. MergedInto(i, scope) \in IncidentIds
    BY <1>2, <1>3 DEF Follows
  <2>2. ASSUME NEW set \in SUBSET IncidentIds, id \in set, Follows(set, scope) PROVE MergedInto(i, scope) \in set
    <3>1. i \in set
      BY <2>2 DEF Visited
    <3> QED BY <2>2, <3>1 DEF Follows
  <2> QED BY <2>1, <2>2 DEF Visited
<1> HIDE DEF V
<1>6. \E i \in V : LinkTo(incident, i) = Nothing
  <2>1. V \in SUBSET IncidentIds /\ V # {} /\ \A i \in V : LinkTo(incident, i) \in V \cup {Nothing}
    BY <1>1, <1>3, <1>4, <1>5
  <2> QED BY <2>1 DEF IncidentsInv, Acyclic
<1>7. ends # {}
  BY <1>1, <1>3, <1>6
<1>8. Resolve(id, scope) = CHOOSE i \in ends : TRUE
  BY <1>7 DEF Resolve, V
<1> HIDE DEF ends
<1>9. Resolve(id, scope) \in ends
  BY <1>7, <1>8
<1> QED BY <1>1, <1>3, <1>9 DEF ends, OfScope

(* Whatever is merged and split from stale pages, for any failures, groups *)
(* and operators, a failure that a scan has seen belongs to one incident   *)
(* that is there, of its scope, and not merged away: _resolve never meets  *)
(* a cycle.                                                                *)
THEOREM FailuresHaveIncidents == IncidentsInit /\ [][IncidentsNext]_incidentVars => []FailureHasIncident
<1>1. IncidentsInv => FailureHasIncident
  <2> SUFFICES ASSUME IncidentsInv, NEW f \in discovered
               PROVE  /\ IncidentOf(f) # Nothing /\ incident[IncidentOf(f)] # Nothing
                      /\ incident[IncidentOf(f)].merged = Nothing /\ incident[IncidentOf(f)].scope = FailureScope(f)
    BY DEF FailureHasIncident
  <2> DEFINE id == IF override[f] = Nothing THEN GroupOf[f] ELSE override[f]
  <2>1. f \in FailedTasks /\ GroupOf[f] \in Groups /\ GroupOf[f] \in IncidentIds
    BY IncidentsAssumption DEF IncidentsInv, IncidentsType, IncidentIds
  <2>2. OfScope(incident, id, FailureScope(f))
    <3>1. CASE override[f] = Nothing
      <4>1. incident[GroupOf[f]] # Nothing /\ incident[GroupOf[f]].scope = ScopeOf[GroupOf[f]]
        BY <2>1 DEF IncidentsInv, RowsPlaced
      <4> QED BY <2>1, <3>1, <4>1 DEF OfScope, FailureScope
    <3>2. CASE override[f] # Nothing
      BY <2>1, <3>2 DEF IncidentsInv, RowsPlaced
    <3> QED BY <3>1, <3>2
  <2>3. IncidentOf(f) = Resolve(id, FailureScope(f))
    BY DEF IncidentOf
  <2> HIDE DEF id
  <2>4. OfScope(incident, IncidentOf(f), FailureScope(f)) /\ incident[IncidentOf(f)].merged = Nothing
    BY <2>2, <2>3, ResolveFacts
  <2>5. IncidentOf(f) # Nothing
    BY <2>4, IncidentsAssumption DEF OfScope
  <2> QED BY <2>4, <2>5 DEF OfScope
<1>2. IncidentsInit => IncidentsInv
  BY IncidentsInitially
<1>3. IncidentsInv /\ [IncidentsNext]_incidentVars => IncidentsInv'
  BY IncidentsKept
<1> QED BY <1>1, <1>2, <1>3, PTL

-----------------------------------------------------------------------------
(* ReliabilityGoals: what is known of the samples.                         *)
SomeAnswers ==
    {{}} \cup {{<<1, v>>} : v \in Int \cup {Infinite}} \cup {{<<1, v>>, <<2, v>>} : v \in Int \cup {Infinite}}
GoalsInv ==
    /\ goalKind \in {"business", "plain"} /\ threshold \in Int
    /\ IsFiniteSet(DOMAIN samples) /\ \A q \in DOMAIN samples : samples[q] \in SomeAnswers

LEMMA QueriesNamed ==
    ASSUME goalKind \in {"business", "plain"}
    PROVE  /\ goalKind = "business" => AllQueries = {"good", "eligible", "window_start", "window_end", "freshness"}
           /\ goalKind = "plain" => AllQueries = {"value", "freshness"}
BY DEF AllQueries, Queries

LEMMA ValuesAreNumbers ==
    ASSUME NEW q \in {"good", "eligible", "window_start", "window_end", "freshness", "value"}
    PROVE  Values(q) \subseteq Int /\ Answers(q) \subseteq SomeAnswers
<1>1. Values(q) \subseteq Int
  BY GoalsAssumption DEF Values
<1> QED BY <1>1 DEF Answers, SomeAnswers

LEMMA GoalsKept == GoalsInv /\ [GoalsNext]_goalVars => GoalsInv'
<1> SUFFICES ASSUME GoalsInv, [GoalsNext]_goalVars PROVE GoalsInv'
  OBVIOUS
<1>1. CASE UNCHANGED goalVars
  BY <1>1 DEF goalVars, GoalsInv
<1>2. CASE GoalsNext
  <2>1. PICK answer \in Answers(NextQuery) : Sample(answer)
    BY <1>2 DEF GoalsNext
  <2>2. NextQuery \in AllQueries
    <3>1. Cardinality(DOMAIN samples) \in Nat /\ Cardinality(DOMAIN samples) < Len(Queries(goalKind))
      BY <1>2, FS_CardinalityType DEF GoalsInv, GoalsNext
    <3>2. Cardinality(DOMAIN samples) + 1 \in DOMAIN Queries(goalKind)
      BY <3>1 DEF Queries, GoalsInv
    <3> QED BY <3>2 DEF NextQuery, AllQueries
  <2>3. NextQuery \in {"good", "eligible", "window_start", "window_end", "freshness", "value"}
    BY <2>2, QueriesNamed DEF GoalsInv
  <2>4. answer \in SomeAnswers
    BY <2>1, <2>3, ValuesAreNumbers
  <2>5. DOMAIN samples' = DOMAIN samples \cup {NextQuery}
    BY <2>1 DEF Sample
  <2>6. IsFiniteSet(DOMAIN samples')
    BY <2>5, FS_AddElement DEF GoalsInv
  <2>7. \A q \in DOMAIN samples' : samples'[q] \in SomeAnswers
    BY <2>1, <2>4, <2>5 DEF Sample, GoalsInv
  <2> QED BY <2>1, <2>6, <2>7 DEF Sample, GoalsInv
<1> QED BY <1>1, <1>2

(* The number of series in an answer, and the one there is.                *)
LEMMA SampleFacts ==
    ASSUME NEW q, samples[q] \in SomeAnswers
    PROVE  \/ samples[q] = {} /\ Cardinality(samples[q]) = 0
           \/ \E v \in Int \cup {Infinite} : samples[q] = {<<1, v>>} /\ Cardinality(samples[q]) = 1 /\ One(q) = v
           \/ Cardinality(samples[q]) = 2
<1>1. CASE samples[q] = {}
  BY <1>1, FS_EmptySet
<1>2. ASSUME NEW v \in Int \cup {Infinite}, samples[q] = {<<1, v>>}
      PROVE  Cardinality(samples[q]) = 1 /\ One(q) = v
  <2>1. (CHOOSE s \in {<<1, v>>} : TRUE) = <<1, v>>
    OBVIOUS
  <2>2. One(q) = <<1, v>>[2]
    BY <1>2, <2>1 DEF One
  <2> QED BY <1>2, <2>2, FS_Singleton
<1>3. ASSUME NEW v \in Int \cup {Infinite}, samples[q] = {<<1, v>>, <<2, v>>} PROVE Cardinality(samples[q]) = 2
  <2>1. IsFiniteSet({<<1, v>>}) /\ Cardinality({<<1, v>>}) = 1
    BY FS_Singleton
  <2>2. <<2, v>> \notin {<<1, v>>} /\ samples[q] = {<<1, v>>} \cup {<<2, v>>}
    BY <1>3
  <2>3. Cardinality({<<1, v>>} \cup {<<2, v>>}) = 1 + 1
    BY <2>1, <2>2, FS_AddElement
  <2> QED BY <2>2, <2>3
<1> QED BY <1>1, <1>2, <1>3 DEF SomeAnswers

(* A query that has not exactly one finite answer is enough for both.      *)
Usable(q) == \E v \in Int : samples[q] = {<<1, v>>} /\ Cardinality(samples[q]) = 1 /\ One(q) = v
LEMMA Unusable ==
    ASSUME GoalsInv, DOMAIN samples = AllQueries, NEW q \in AllQueries, ~Usable(q)
    PROVE  RuleValid = {} /\ Preview \in {"unavailable", "no_data"}
<1>1. samples[q] \in SomeAnswers
  BY DEF GoalsInv
<1>2. Single(q) = {}
  BY <1>1, SampleFacts DEF Single, Finite, Usable
<1>3. RuleValid = {}
  BY <1>2 DEF RuleValid
<1>4. Cardinality(samples[q]) > 1 \/ samples[q] = {} \/ One(q) = Infinite
  BY <1>1, SampleFacts DEF Usable
<1> QED BY <1>3, <1>4 DEF Preview

LEMMA UsableFacts ==
    ASSUME NEW q, Usable(q)
    PROVE  /\ One(q) \in Int /\ samples[q] = {<<1, One(q)>>} /\ Finite(samples[q]) = samples[q]
           /\ Single(q) # {} /\ ~(Cardinality(samples[q]) > 1) /\ samples[q] # {} /\ One(q) # Infinite
<1>1. PICK v \in Int : samples[q] = {<<1, v>>} /\ Cardinality(samples[q]) = 1 /\ One(q) = v
  BY DEF Usable
<1>2. v # Infinite
  BY GoalsAssumption
<1>3. Finite(samples[q]) = samples[q]
  BY <1>1, <1>2 DEF Finite
<1>4. samples[q] # {} /\ Single(q) = samples[q]
  <2>1. <<1, v>> \in samples[q]
    BY <1>1
  <2> QED BY <1>1, <1>3, <2>1 DEF Single
<1>5. samples[q] = {<<1, One(q)>>}
  BY <1>1
<1> QED BY <1>1, <1>2, <1>3, <1>4, <1>5

(* "and" of series that all have the one label there is.                   *)
Labelled(set) == \A s \in set : s[1] = 1
LEMMA OneSeries ==
    ASSUME NEW v, NEW set, set \subseteq {<<1, v>>}
    PROVE  Labelled(set) /\ (set # {} <=> <<1, v>> \in set)
<1>1. \A s \in set : s = <<1, v>>
  OBVIOUS
<1>2. \A s \in set : s[1] = 1
  BY <1>1
<1>3. set # {} => <<1, v>> \in set
  BY <1>1
<1> QED BY <1>2, <1>3 DEF Labelled

LEMMA AndFacts ==
    ASSUME NEW left, NEW right, Labelled(left), Labelled(right)
    PROVE  Labelled(And(left, right)) /\ (And(left, right) # {} <=> left # {} /\ right # {})
BY DEF Labelled, And

(* All queries have one finite answer: the rules of a business goal.       *)
LEMMA BusinessAgrees ==
    ASSUME GoalsInv, goalKind = "business", \A q \in AllQueries : Usable(q)
    PROVE  PreviewAgrees
<1> DEFINE g == One("good")
           e == One("eligible")
           from == One("window_start")
           to == One("window_end")
           age == One("freshness")
           fresh == {s \in Finite(samples["freshness"]) : s[2] <= FreshFor /\ s[2] >= 0}
           eligible == {s \in Finite(samples["eligible"]) : s[2] > 0}
           counts == {s \in Finite(samples["good"]) : s[2] >= 0 /\ \E x \in eligible : x[1] = s[1] /\ s[2] <= x[2]}
           ending == {s \in Finite(samples["window_end"]) : Abs(s[2]) <= EndSlack}
           starting == {s \in Finite(samples["window_start"]) : Abs(s[2]) <= 1}
           rate == {s \in Finite(samples["good"]) :
                     \E x \in Finite(samples["eligible"]) : x[1] = s[1] /\ x[2] # 0 /\ 100 * s[2] < threshold * x[2]}
           valid == /\ 0 <= age /\ age <= FreshFor /\ 0 < e /\ 0 <= g /\ g <= e
                    /\ Abs(to) <= EndSlack /\ Abs(from) <= 1
<1>1. AllQueries = {"good", "eligible", "window_start", "window_end", "freshness"}
  BY QueriesNamed DEF GoalsInv
<1>2. /\ g \in Int /\ e \in Int /\ from \in Int /\ to \in Int /\ age \in Int
      /\ Finite(samples["good"]) = {<<1, g>>} /\ Finite(samples["eligible"]) = {<<1, e>>}
      /\ Finite(samples["window_start"]) = {<<1, from>>} /\ Finite(samples["window_end"]) = {<<1, to>>}
      /\ Finite(samples["freshness"]) = {<<1, age>>}
  BY <1>1, UsableFacts
<1>3. \A q \in AllQueries : Single(q) # {} /\ ~(Cardinality(samples[q]) > 1) /\ samples[q] # {} /\ One(q) # Infinite
  BY UsableFacts
<1> HIDE DEF g, e, from, to, age
<1>4. /\ threshold \in Int /\ FreshFor \in Nat /\ EndSlack \in Nat
  BY GoalsAssumption DEF GoalsInv
<1>5. Labelled(fresh) /\ (fresh # {} <=> 0 <= age /\ age <= FreshFor)
  <2>1. fresh \subseteq {<<1, age>>}
    BY <1>2
  <2>2. <<1, age>> \in fresh <=> 0 <= age /\ age <= FreshFor
    BY <1>2, <1>4
  <2> HIDE DEF fresh
  <2> QED BY <2>1, <2>2, OneSeries
<1>6. Labelled(counts) /\ (counts # {} <=> 0 < e /\ 0 <= g /\ g <= e)
  <2>1. counts \subseteq {<<1, g>>}
    BY <1>2
  <2>2. <<1, g>> \in counts <=> 0 < e /\ 0 <= g /\ g <= e
    <3>1. eligible \subseteq {<<1, e>>} /\ (<<1, e>> \in eligible <=> 0 < e)
      BY <1>2
    <3> HIDE DEF eligible
    <3>2. (\E x \in eligible : x[1] = 1 /\ g <= x[2]) <=> 0 < e /\ g <= e
      BY <3>1
    <3>3. <<1, g>>[1] = 1 /\ <<1, g>>[2] = g
      OBVIOUS
    <3> QED BY <1>2, <3>2, <3>3
  <2> HIDE DEF counts
  <2> QED BY <2>1, <2>2, OneSeries
<1>7. Labelled(ending) /\ (ending # {} <=> Abs(to) <= EndSlack)
  <2>1. ending \subseteq {<<1, to>>}
    BY <1>2
  <2>2. <<1, to>> \in ending <=> Abs(to) <= EndSlack
    BY <1>2
  <2> HIDE DEF ending
  <2> QED BY <2>1, <2>2, OneSeries
<1>8. Labelled(starting) /\ (starting # {} <=> Abs(from) <= 1)
  <2>1. starting \subseteq {<<1, from>>}
    BY <1>2
  <2>2. <<1, from>> \in starting <=> Abs(from) <= 1
    BY <1>2
  <2> HIDE DEF starting
  <2> QED BY <2>1, <2>2, OneSeries
<1>9. Labelled(rate) /\ (rate # {} <=> e # 0 /\ 100 * g < threshold * e)
  <2>1. rate \subseteq {<<1, g>>}
    BY <1>2
  <2>2. <<1, g>> \in rate <=> e # 0 /\ 100 * g < threshold * e
    BY <1>2
  <2> HIDE DEF rate
  <2> QED BY <2>1, <2>2, OneSeries
<1>10. RuleValid = And(And(counts, And(ending, starting)), fresh)
  BY <1>3 DEF RuleValid
<1>11. RuleFires <=> And(rate, RuleValid) # {}
  BY DEF RuleFires
<1> HIDE DEF fresh, counts, ending, starting, rate
<1>12. Labelled(RuleValid) /\ (RuleValid # {} <=> valid)
  <2>1. Labelled(And(ending, starting)) /\ (And(ending, starting) # {} <=> Abs(to) <= EndSlack /\ Abs(from) <= 1)
    BY <1>7, <1>8, AndFacts
  <2>2. /\ Labelled(And(counts, And(ending, starting)))
        /\ And(counts, And(ending, starting)) # {} <=> counts # {} /\ And(ending, starting) # {}
    BY <1>6, <2>1, AndFacts
  <2>3. Labelled(RuleValid) /\ (RuleValid # {} <=> And(counts, And(ending, starting)) # {} /\ fresh # {})
    BY <1>5, <1>10, <2>2, AndFacts
  <2> QED BY <1>5, <1>6, <2>1, <2>2, <2>3
<1>13. RuleFires <=> valid /\ 100 * g < threshold * e
  <2>1. And(rate, RuleValid) # {} <=> rate # {} /\ RuleValid # {}
    BY <1>9, <1>12, AndFacts
  <2>2. valid => e # 0
    BY <1>2
  <2> QED BY <1>9, <1>11, <1>12, <2>1, <2>2
<1>14. \A n \in Int : Abs(n) \in Int
  BY DEF Abs
<1>15. Preview = IF ~(0 <= age /\ age <= FreshFor) THEN "stale" ELSE IF e <= 0 THEN "no_data"
                 ELSE IF g < 0 \/ g > e \/ Abs(to) > EndSlack \/ Abs(from) > 1 THEN "insufficient"
                 ELSE IF 100 * g < threshold * e THEN "breaching" ELSE "observed"
  BY <1>3 DEF Preview, Breached, g, e, from, to, age
<1>16. (Preview \in {"breaching", "observed"} <=> valid) /\ (Preview = "breaching" <=> valid /\ 100 * g < threshold * e)
  <2>1. valid <=> ~(~(0 <= age /\ age <= FreshFor)) /\ ~(e <= 0) /\ ~(g < 0 \/ g > e \/ Abs(to) > EndSlack \/ Abs(from) > 1)
    BY <1>2, <1>4, <1>14
  <2> HIDE DEF valid
  <2> QED BY <1>15, <2>1
<1> QED BY <1>12, <1>13, <1>16 DEF PreviewAgrees, MissingFires

(* And of a goal for a plain value.                                        *)
LEMMA PlainAgrees ==
    ASSUME GoalsInv, goalKind = "plain", \A q \in AllQueries : Usable(q)
    PROVE  PreviewAgrees
<1> DEFINE v == One("value")
           age == One("freshness")
           fresh == {s \in Finite(samples["freshness"]) : s[2] <= FreshFor /\ s[2] >= 0}
           there == {s \in Finite(samples["value"]) : s[2] >= 0}
           high == {s \in Finite(samples["value"]) : s[2] >= threshold}
           valid == 0 <= age /\ age <= FreshFor /\ 0 <= v
<1>1. AllQueries = {"value", "freshness"}
  BY QueriesNamed DEF GoalsInv
<1>2. /\ v \in Int /\ age \in Int
      /\ Finite(samples["value"]) = {<<1, v>>} /\ Finite(samples["freshness"]) = {<<1, age>>}
  BY <1>1, UsableFacts
<1>3. \A q \in AllQueries : Single(q) # {} /\ ~(Cardinality(samples[q]) > 1) /\ samples[q] # {} /\ One(q) # Infinite
  BY UsableFacts
<1> HIDE DEF v, age
<1>4. threshold \in Int /\ FreshFor \in Nat
  BY GoalsAssumption DEF GoalsInv
<1>5. Labelled(fresh) /\ (fresh # {} <=> 0 <= age /\ age <= FreshFor)
  <2>1. fresh \subseteq {<<1, age>>}
    BY <1>2
  <2>2. <<1, age>> \in fresh <=> 0 <= age /\ age <= FreshFor
    BY <1>2, <1>4
  <2> HIDE DEF fresh
  <2> QED BY <2>1, <2>2, OneSeries
<1>6. Labelled(there) /\ (there # {} <=> 0 <= v)
  <2>1. there \subseteq {<<1, v>>}
    BY <1>2
  <2>2. <<1, v>> \in there <=> 0 <= v
    BY <1>2
  <2> HIDE DEF there
  <2> QED BY <2>1, <2>2, OneSeries
<1>7. Labelled(high) /\ (high # {} <=> threshold <= v)
  <2>1. high \subseteq {<<1, v>>}
    BY <1>2
  <2>2. <<1, v>> \in high <=> threshold <= v
    BY <1>2, <1>4
  <2> HIDE DEF high
  <2> QED BY <2>1, <2>2, OneSeries
<1>8. RuleValid = And(there, fresh)
  BY <1>3 DEF RuleValid
<1>9. RuleFires <=> And(high, RuleValid) # {}
  BY DEF RuleFires
<1> HIDE DEF fresh, there, high
<1>10. Labelled(RuleValid) /\ (RuleValid # {} <=> valid)
  BY <1>5, <1>6, <1>8, AndFacts
<1>11. RuleFires <=> valid /\ threshold <= v
  BY <1>7, <1>9, <1>10, AndFacts
<1>12. Preview = IF ~(0 <= age /\ age <= FreshFor) THEN "stale"
                 ELSE IF v < 0 THEN "insufficient" ELSE IF v >= threshold THEN "breaching" ELSE "observed"
  BY <1>3 DEF Preview, Breached, v, age
<1>13. (Preview \in {"breaching", "observed"} <=> valid) /\ (Preview = "breaching" <=> valid /\ threshold <= v)
  BY <1>2, <1>4, <1>12
<1> QED BY <1>10, <1>11, <1>13 DEF PreviewAgrees, MissingFires

(* For any finite or other samples, thresholds, freshness and tolerance    *)
(* the exported rules say what the preview of Studio says: the goal's      *)
(* alert fires when the preview is breaching, and the alert for missing    *)
(* evidence when it has no verdict.                                        *)
THEOREM PreviewsAgree == GoalsInit /\ [][GoalsNext]_goalVars => []PreviewAgrees
<1>1. GoalsInit => GoalsInv
  <2> SUFFICES ASSUME GoalsInit PROVE GoalsInv
    OBVIOUS
  <2>1. DOMAIN samples = {}
    BY DEF GoalsInit
  <2> QED BY <2>1, FS_EmptySet DEF GoalsInit, GoalsInv
<1>2. GoalsInv => PreviewAgrees
  <2> SUFFICES ASSUME GoalsInv, DOMAIN samples = AllQueries PROVE PreviewAgrees
    BY DEF PreviewAgrees
  <2>1. CASE \A q \in AllQueries : Usable(q)
    BY <2>1, BusinessAgrees, PlainAgrees DEF GoalsInv
  <2>2. ASSUME NEW q \in AllQueries, ~Usable(q) PROVE PreviewAgrees
    <3>1. RuleValid = {} /\ Preview \in {"unavailable", "no_data"}
      BY <2>2, Unusable
    <3>2. \A set : And(set, {}) = {}
      BY DEF And
    <3>3. ~RuleFires
      BY <3>1, <3>2 DEF RuleFires
    <3> QED BY <3>1, <3>3 DEF PreviewAgrees, MissingFires
  <2> QED BY <2>1, <2>2
<1>3. GoalsInv /\ [GoalsNext]_goalVars => GoalsInv'
  BY GoalsKept
<1> QED BY <1>1, <1>2, <1>3, PTL
=============================================================================
