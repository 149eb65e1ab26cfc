---------------------------- MODULE MCEventIngest ----------------------------
(* Three events of two tasks, for TLC.                                     *)
EXTENDS EventIngest
CONSTANTS t1, t2
MCTaskOf == <<t1, t1, t2>>
MCTime == <<2, 1, 3>>
MCStatusOf == <<"processing", "queued", "processing">>
=============================================================================
