--------------------------- MODULE MCAsyncChannel ---------------------------
(* Two users, each in a custodian of its own.                              *)
EXTENDS AsyncChannel, TLC

CONSTANTS u1, u2, c1, c2

Homes == u1 :> c1 @@ u2 :> c2
=============================================================================
