--------------------------- MODULE MCTaskConsumer ---------------------------
(* Small instances of TaskConsumer for TLC.                                *)
EXTENDS TaskConsumer, TLC

CONSTANTS w1, w2, w3, t1, t2, t3, o1, o2

OwnEach == w1 :> o1 @@ w2 :> o2
OwnShared == [w \in Workers |-> o1]

AllReject == [w \in Workers |-> "reject"]
OneRequeues == [w \in Workers |-> IF w = w3 THEN "requeue" ELSE "reject"]

Single(t) == [kind |-> "task", items |-> {t}]
Batch(S) == [kind |-> "batch", items |-> S]
Bad(t) == [kind |-> "bad", items |-> {t}]

OneTask == {Single(t1)}
BatchAndBad == {Batch({t1, t2}), Bad(t3)}
=============================================================================
