----------------------------- MODULE MCRecovery -----------------------------
(* Two plans that want the same failure, for TLC.                          *)
EXTENDS Recovery, TLC
CONSTANTS f1, f2, p1, p2
MCCohort == (p1 :> <<f1, f2>>) @@ (p2 :> <<f2>>)
MCAnonymous == {f2}
=============================================================================
