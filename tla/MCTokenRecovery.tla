--------------------------- MODULE MCTokenRecovery ----------------------------
(* An instance of TokenRecovery for TLC: one token, and two handlers in        *)
(* processes of their own.                                                     *)
EXTENDS TokenRecovery, TLC

CONSTANTS k1, h1, h2, p1, p2

OneEach == h1 :> p1 @@ h2 :> p2
=============================================================================
