-------------------------- MODULE MCTaskLeaseStore --------------------------
(* Small instances of TaskLeaseStore for TLC.                              *)
EXTENDS TaskLeaseStore, TLC

CONSTANTS w1, w2, o1

OwnShared == w1 :> o1 @@ w2 :> o1
OwnOne == w1 :> o1
=============================================================================
