---------------------------- MODULE MCTxPipeline -----------------------------
(* An instance of TxPipeline for TLC: a large swap (t1) and a small transfer   *)
(* (t2) of one address, which receives the swap's output itself.               *)
EXTENDS TxPipeline, TLC

CONSTANTS t1, t2, a1, k1, r1, h1, h2, p1, p2

KindOf    == t1 :> "swap" @@ t2 :> "transfer"
SwappedBy == t1 :> {k1} @@ t2 :> {}
RouterOf  == t1 :> r1 @@ t2 :> r1
OneSender == t1 :> a1 @@ t2 :> a1
OneEach   == h1 :> p1 @@ h2 :> p2
=============================================================================
