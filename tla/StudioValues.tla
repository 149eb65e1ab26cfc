---------------------------- MODULE StudioValues ----------------------------
(* What the modules of Studio share.                                       *)
CONSTANT Nothing        \* None, an absent row or key
=============================================================================
