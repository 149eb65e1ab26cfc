--------------------------- MODULE MCStatusStream ---------------------------
(* Small instances of StatusStream, and with no clients of StatusHub.      *)
EXTENDS StatusStream, TLC

CONSTANTS h1, h2, b1, b2

OneHub == h1 :> b1 @@ h2 :> b1
TwoHubs == h1 :> b1 @@ h2 :> b2
=============================================================================
