---------------------------- MODULE MCSaveWallet -----------------------------
(* Instances of SaveWallet for TLC: two messages about one wallet, each with a *)
(* fact of its own, and one handler or two in processes of their own.          *)
EXTENDS SaveWallet, TLC

CONSTANTS w1, f1, f2, m1, m2, h1, h2, p1, p2, t1, t2

OneWallet  == m1 :> w1 @@ m2 :> w1
OwnFacts   == m1 :> {f1} @@ m2 :> {f2}
OwnProcess == h1 :> p1 @@ h2 :> p2
OneHandler == h1 :> p1
=============================================================================
