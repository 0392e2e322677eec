------------------------------- MODULE DexSwap --------------------------------
(* How DexSwapProcessor reads the amounts and the value of a Uniswap V2 swap   *)
(* from the logs of its transaction and the arguments of its call, as          *)
(* operators.  The logs are those the router and the pairs emit (external):    *)
(* one transfer into the first pair, and for each hop the transfer out of its  *)
(* pair, followed by the pair's Swap event.                                    *)
(*                                                                             *)
(* Amounts are naturals in the smallest unit of their token.  A Quantity is    *)
(* one that went through conversions: multiplied or divided by the price       *)
(* `price' (NoPrice: by none), and divided `scale' times by its token's unit.  *)
EXTENDS Integers, Sequences, FiniteSetsExt

CONSTANTS
    Token,
    WETH,       \* the wrapped native token
    Stables,    \* tokens an operator may mark as stable coins, in the order
                \* of the collection
    Account,    \* senders and receivers
    Router      \* the router contract

ASSUME TokenAssumption ==
    /\ WETH \in Token
    /\ Stables \in Seq(Token)
    /\ Router \notin Account
    /\ \A a, b \in Token : {a, b} \notin Account \cup {Router}

Stable == {Stables[i] : i \in DOMAIN Stables}

\* A value the code leaves undefined.
Undefined == -1
NoPrice   == [quarter |-> -1]
-----------------------------------------------------------------------------
\* The methods of UniswapV2RouterSwapMethods; the variants for tokens that take a
\* fee on transfer are treated as those they vary.
ExactInput  == {"swapExactETHForTokens", "swapExactTokensForETH", "swapExactTokensForTokens"}
ExactOutput == {"swapETHForExactTokens", "swapTokensForExactTokens"}
UniswapV2RouterSwapMethods == ExactInput \cup ExactOutput

PaysEth     == {"swapExactETHForTokens", "swapETHForExactTokens"}
ReceivesEth == {"swapExactTokensForETH"}

\* A swap that succeeded: what moved into the first pair and out of each pair on
\* the path, and the bound the sender set on the side that is not exact
\* (amountOutMin, amountInMax, or the ether sent along).
IsSwap(s) ==
    /\ s.method \in UniswapV2RouterSwapMethods
    /\ s.path \in Seq(Token) /\ Len(s.path) >= 2
    /\ \A k \in 1..(Len(s.path) - 1) : s.path[k] # s.path[k + 1]
    /\ s.moved \in [1..Len(s.path) -> Nat]
    /\ s.limit \in Nat
    /\ s.from \in Account /\ s.to \in Account
    /\ s.method \in PaysEth => s.path[1] = WETH
    /\ s.method \in ReceivesEth => s.path[Len(s.path)] = WETH
    /\ IF s.method \in ExactInput THEN s.limit <= s.moved[Len(s.path)]
                                  ELSE s.limit >= s.moved[1]

Paid(s)     == s.moved[1]
Received(s) == s.moved[Len(s.path)]

PairAt(s, k) == {s.path[k], s.path[k + 1]}

Transfer(token, from, to, value) ==
    [signature |-> "Transfer", address |-> token, from |-> from, to |-> to, value |-> value]
SwapEvent(pair) ==
    [signature |-> "Swap", address |-> pair, from |-> Router, to |-> Router, value |-> 0]

\* Who gets what the k-th pair pays out.
PayeeOf(s, k) ==
    IF k < Len(s.path) - 1 THEN PairAt(s, k + 1)
    ELSE IF s.method \in ReceivesEth THEN Router ELSE s.to

\* tx.raw.logs of the swap, those with a signature the processor looks for.
Logs(s) ==
    [i \in 1..(2 * Len(s.path) - 1) |->
        IF i = 1
        THEN Transfer(s.path[1], IF s.method \in PaysEth THEN Router ELSE s.from,
                      PairAt(s, 1), s.moved[1])
        ELSE IF i % 2 = 0
             THEN Transfer(s.path[i \div 2 + 1], PairAt(s, i \div 2),
                           PayeeOf(s, i \div 2), s.moved[i \div 2 + 1])
             ELSE SwapEvent(PairAt(s, i \div 2))]
-----------------------------------------------------------------------------
\* A faulty variant of the next definition: a transfer of any token will do.
IsTransfer_FaultyAny(log, token) == log.signature = "Transfer" /\ token \in Token

IsTransfer(log, token) == log.signature = "Transfer" /\ log.address = token

\* Transfers of the token to or from the pair.
TransfersAt(token, logs, pair) ==
    {j \in DOMAIN logs : IsTransfer(logs[j], token) /\ pair \in {logs[j].from, logs[j].to}}

\* The Swap events of pairs that moved the token.
SwapsOf(token, logs) ==
    {i \in DOMAIN logs : /\ logs[i].signature = "Swap"
                         /\ TransfersAt(token, logs, logs[i].address) # {}}

\* The first transfer at the first pair that moved the token.
getTokenValueFromLogs(token, logs) ==
    IF SwapsOf(token, logs) = {} THEN Undefined
    ELSE LET swap == logs[Min(SwapsOf(token, logs))]
         IN  logs[Min(TransfersAt(token, logs, swap.address))].value

\* The first of the given stable coins that has a value.
getStableUsdValueFromLogs(stables, logs) ==
    LET valued == {i \in DOMAIN Stables :
                     /\ Stables[i] \in stables
                     /\ getTokenValueFromLogs(Stables[i], logs) # Undefined}
    IN  IF valued = {} THEN Undefined
        ELSE getTokenValueFromLogs(Stables[Min(valued)], logs)

\* The value of the first log of these, or what the call's argument says.
FirstValue(logs, indices, otherwise) ==
    IF indices = {} THEN otherwise ELSE logs[Min(indices)].value

\* A faulty variant of the next definition: the first transfer of the output
\* token, whoever received it.
outAmount_FaultyAnyone(s) ==
    FirstValue(Logs(s), {j \in DOMAIN Logs(s) : IsTransfer(Logs(s)[j], s.path[Len(s.path)])},
               IF s.method \in ExactInput THEN s.limit ELSE Received(s))

\* outAmount of the switch: getOutputTokenTransferAmount, or amountOutMin, or
\* amountOut; swapTokensForExactTokens takes amountOut in any case.
outAmount(s) ==
    IF s.method = "swapTokensForExactTokens" THEN Received(s)
    ELSE FirstValue(Logs(s),
                    {j \in DOMAIN Logs(s) : /\ IsTransfer(Logs(s)[j], s.path[Len(s.path)])
                                            /\ Logs(s)[j].to = s.to},
                    IF s.method \in ExactInput THEN s.limit ELSE Received(s))

\* inputAmount of the switch: amountIn, or the ether sent along, or
\* getInputTokenTransferAmount.
inputAmount(s) ==
    IF s.method \in ExactInput THEN Paid(s)
    ELSE IF s.method \in PaysEth THEN s.limit
    ELSE FirstValue(Logs(s),
                    {j \in DOMAIN Logs(s) : /\ IsTransfer(Logs(s)[j], s.path[1])
                                            /\ Logs(s)[j].from = s.from},
                    s.limit)
-----------------------------------------------------------------------------
\* What getDexSwapData finds in the logs, with these stable coins.
NativeInLogs(s)       == getTokenValueFromLogs(WETH, Logs(s))
UsdInLogs(s, stables) == getStableUsdValueFromLogs(stables, Logs(s))

\* No value at all: the swap is left as an unknown transaction.
HasNoValue(s, stables) == NativeInLogs(s) = Undefined /\ UsdInLogs(s, stables) = Undefined
\* One of the values has to be derived from the other and the price.
NeedsPrice(s, stables) == (NativeInLogs(s) = Undefined) # (UsdInLogs(s, stables) = Undefined)

toFormatted(q) == [q EXCEPT !.scale = @ + 1]
FromLogs(amount) == [amount |-> amount, price |-> NoPrice, scale |-> 0]

\* The details: values in dollars and in the native token, each from the logs or
\* derived.  nativeValue is formatted at the end, also when it is derived from
\* dollars, which are formatted already.
DexSwapData(s, stables, price) ==
    LET native == NativeInLogs(s)
        usd    == UsdInLogs(s, stables)
    IN  [usdValue |->
            IF usd # Undefined THEN toFormatted(FromLogs(usd))
            ELSE [toFormatted(FromLogs(native)) EXCEPT !.price = price],
         nativeValue |->
            toFormatted(IF native # Undefined THEN FromLogs(native)
                        ELSE [toFormatted(FromLogs(usd)) EXCEPT !.price = price]),
         calculatedUsdValue    |-> usd = Undefined,
         calculatedNativeValue |-> native = Undefined,
         input |-> inputAmount(s), output |-> outAmount(s)]
=============================================================================
