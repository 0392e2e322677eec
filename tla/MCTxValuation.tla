---------------------------- MODULE MCTxValuation ----------------------------
(* An instance of TxValuation for TLC: a swap of each method, over paths with  *)
(* and without the wrapped token and stable coins, next to a transaction of    *)
(* each other kind, in the same quarter of an hour or the next, of the same    *)
(* chain or another.                                                           *)
EXTENDS TxValuation, TLC

CONSTANTS t1, t2, eth, bsc, weth, usdc, dai, abc, a1, a2, h1, h2, p1

StablesInOrder == <<usdc, dai>>
OneProcess     == h1 :> p1 @@ h2 :> p1

Details(kind, chain, quarter) == [kind |-> kind, chain |-> chain, quarter |-> quarter]
Swap(method, path, limit, to) ==
    [method |-> method, path |-> path, limit |-> limit, from |-> a1, to |-> to,
     moved |-> [k \in 1..Len(path) |-> 9 - 2 * k]] @@ Details("swap", eth, 0)

Pair(s, other) == t1 :> s @@ t2 :> other

AllKinds == {
    Pair(Swap("swapExactETHForTokens",    <<weth, abc>>,       4, a1), Details("creation", eth, 0)),
    Pair(Swap("swapETHForExactTokens",    <<weth, usdc>>,      8, a1), Details("transfer", bsc, 0)),
    Pair(Swap("swapExactTokensForETH",    <<abc, weth>>,       4, a1), Details("transfer", eth, 1)),
    Pair(Swap("swapExactTokensForTokens", <<abc, dai>>,        4, a2), Details("block", eth, 1)),
    Pair(Swap("swapTokensForExactTokens", <<dai, abc, usdc>>,  8, a2), Details("call", eth, 0)),
    Pair(Swap("swapExactTokensForTokens", <<abc, weth, abc>>,  2, a1), Details("reverted", eth, 0))}
=============================================================================
