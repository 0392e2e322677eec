----------------------------- MODULE TxValuation ------------------------------
(* ProcessTx.execute call by call, with the services it values a transaction   *)
(* by: the processors NativeTransferProcessor and DexSwapProcessor (module      *)
(* DexSwap has their arithmetic), the stable coins and the wrapped token        *)
(* TokenService remembers for the life of a process, and the native token's     *)
(* price by quarter of an hour, which FinnhubApiService keeps in Redis for all  *)
(* processes and which BlockListener asks for ahead of time.                    *)
(*                                                                             *)
(* Deliveries are those of Executor: a transaction may come any number of       *)
(* times.  A handler whose call is rejected leaves the transaction to the retry *)
(* queue.                                                                      *)
EXTENDS DexSwap

CONSTANTS
    Tx,
    Scenarios,     \* what the transactions may be: functions from Tx to TxDetails
    Chain,         \* the chains of the transactions: those BlockListener scans
                   \* (enabledBlockchains), and those POST /wallets and POST
                   \* /txs/save/:blockchain/:hash name
    TokenChain,    \* the chain whose tokens, and so whose swaps, are modelled:
                   \* TokenService keeps the chains' tokens apart
    Process, Handler,
    Home,          \* the process each handler runs in
    LastQuarter,   \* bound on time, in quarters of an hour
    maxConcurrent, \* the bottleneck's limit (5 in the code), for each process
    MayFail,       \* whether calls may be rejected
    MaxTakes,      \* bound on deliveries
    MaxEvents      \* bound on what happens around the handlers: prices that move,
                   \* entries that expire, tokens saved, processes that exit

Quarter == 0..LastQuarter

\* What the chain says of a transaction.  The kinds that are no successful swap:
\*   transfer  no call data        call      a call of another method
\*   reverted  status 0            creation  no recipient
\*   block     not a transaction: a block that makes BlockListener prepare the price
Kind == {"transfer", "call", "reverted", "creation", "block"}
IsDetails(d) ==
    /\ d.chain \in Chain
    /\ d.quarter \in Quarter
    /\ d.kind \in Kind \cup {"swap"}
    /\ d.kind = "swap" => IsSwap(d) /\ d.chain = TokenChain

ASSUME ValuationAssumption ==
    /\ \A s \in Scenarios : DOMAIN s = Tx /\ \A t \in Tx : IsDetails(s[t])
    /\ Home \in [Handler -> Process]
    /\ LastQuarter \in Nat
    /\ maxConcurrent \in Nat \ {0}
    /\ MayFail \in BOOLEAN
    /\ MaxTakes \in Nat /\ MaxEvents \in Nat

VARIABLES
    tx,          \* the transactions (never changes)
    now,         \* the current quarter
    moves,       \* how often the price of each quarter moved, on each chain
    cache,       \* Redis: the price at each quarter, or NoPrice
    setting,     \* cache.set calls in flight
    marked,      \* stable coins the database has as such
    wrapped,     \* whether it has a token marked as the wrapped one
    memory,      \* TokenService's static cache, in each process
    handler,     \* what each handler is doing
    published,   \* TxProcessed messages: what was found for them (see TxProcessed)
    unvalued,    \* ghost: swaps left without a value, and the stable coins marked
                 \* ever since their process started
    eversince,   \* ghost: stable coins marked ever since each process started
    takes, events

vars == <<tx, now, moves, cache, setting, marked, wrapped, memory, handler,
          published, unvalued, eversince, takes, events>>
prices   == <<now, moves, cache, setting>>
tokens   == <<marked, wrapped, memory, eversince>>
messages == <<published, unvalued>>
-----------------------------------------------------------------------------
\* A price: the close of the candle of a quarter, which moves while it is current.
Price == [chain : Chain, quarter : Quarter, version : 0..MaxEvents]

\* Where a handler stands: the call it awaits.
\*   receipt   the receipt, the transaction and its block
\*   wrapped   getWrappedToken
\*   stables   getStableCoins          remembering  its query was answered
\*   pricing   a place in the bottleneck, and the cache's get
\*   quoting   Finnhub
\*   tokens    fetchTokensData
\*   publishing  the publication of TxProcessed
Phase == {"receipt", "wrapped", "stables", "remembering", "pricing", "quoting",
          "tokens", "publishing"}

\* What the handler has found so far: stable coins, a price, and whether the
\* transaction got a type.
HandlerState == [phase : Phase, tx : Tx, stables : SUBSET Stable,
                 price : Price \cup {NoPrice}, known : BOOLEAN]
Idle == [phase |-> "idle"]

At(h, phase) == handler[h].phase = phase
Busy(h)      == ~At(h, "idle")
TxOf(h)      == tx[handler[h].tx]

NothingRemembered == [wrapped |-> FALSE, stables |-> {}]

Init ==
    /\ tx \in Scenarios
    /\ now = 0
    /\ moves = [c \in Chain |-> [q \in Quarter |-> 0]]
    /\ cache = [q \in Quarter |-> NoPrice]
    /\ setting = {}
    /\ marked \in SUBSET Stable
    /\ wrapped = FALSE
    /\ memory = [p \in Process |-> NothingRemembered]
    /\ eversince = [p \in Process |-> marked]
    /\ handler = [h \in Handler |-> Idle]
    /\ published = {} /\ unvalued = {}
    /\ takes = 0 /\ events = 0
-----------------------------------------------------------------------------
\* A message is delivered, or a block makes BlockListener look the price up.
Take(h, t) ==
    /\ ~Busy(h)
    /\ takes < MaxTakes
    /\ tx[t].quarter <= now
    /\ takes' = takes + 1
    /\ handler' = [handler EXCEPT ![h] =
         [phase |-> IF tx[t].kind = "block" THEN "pricing" ELSE "receipt",
          tx |-> t, stables |-> {}, price |-> NoPrice, known |-> FALSE]]
    /\ UNCHANGED <<tx, prices, tokens, messages, events>>

Becomes(h, state) ==
    /\ handler' = [handler EXCEPT ![h] = state]
    /\ UNCHANGED <<tx, takes, events>>

Goes(h, phase) == Becomes(h, [handler[h] EXCEPT !.phase = phase])

\* getRawTransaction, and the processor that takes the transaction on: a reverted
\* one is dropped, and an address cannot be made of a missing recipient.
GetRawTransaction(h) ==
    /\ At(h, "receipt")
    /\ CASE TxOf(h).kind \in {"reverted", "creation"} -> Becomes(h, Idle)
         [] TxOf(h).kind = "transfer" -> Goes(h, "pricing")
         [] TxOf(h).kind = "swap"     -> Goes(h, "wrapped")
         [] TxOf(h).kind = "call"     -> Goes(h, "publishing")
    /\ UNCHANGED <<prices, tokens, messages>>

\* A faulty variant of the next definition: the error is swallowed, and the
\* transaction goes on as an unknown one.
GetWrappedToken_FaultySwallowed(h) ==
    /\ At(h, "wrapped")
    /\ IF memory[Home[h]].wrapped \/ wrapped
       THEN /\ Goes(h, "stables")
            /\ memory' = [memory EXCEPT ![Home[h]].wrapped = TRUE]
       ELSE Goes(h, "publishing") /\ UNCHANGED memory
    /\ UNCHANGED <<prices, marked, wrapped, eversince, messages>>

\* getWrappedToken throws when there is none, and asks again next time.
GetWrappedToken(h) ==
    /\ At(h, "wrapped")
    /\ IF memory[Home[h]].wrapped \/ wrapped
       THEN /\ Goes(h, "stables")
            /\ memory' = [memory EXCEPT ![Home[h]].wrapped = TRUE]
       ELSE Becomes(h, Idle) /\ UNCHANGED memory
    /\ UNCHANGED <<prices, marked, wrapped, eversince, messages>>

\* With the stable coins at hand, the values are looked for in the logs.
Values(h, stables) ==
    LET s    == TxOf(h)
        with == [handler[h] EXCEPT !.stables = stables]
    IN  IF HasNoValue(s, stables)
        THEN /\ Becomes(h, [with EXCEPT !.phase = "publishing"])
             /\ unvalued' = unvalued \cup
                  {[tx |-> handler[h].tx, eversince |-> eversince[Home[h]]]}
        ELSE /\ Becomes(h, [with EXCEPT !.known = TRUE,
                              !.phase = IF NeedsPrice(s, stables) THEN "pricing" ELSE "tokens"])
             /\ UNCHANGED unvalued

\* getStableCoins: a list that is not empty was remembered ...
RecallStableCoins(h) ==
    /\ At(h, "stables")
    /\ memory[Home[h]].stables # {}
    /\ Values(h, memory[Home[h]].stables)
    /\ UNCHANGED <<prices, tokens, published>>

\* A faulty variant of the next definition: the query has lost its condition.
QueryStableCoins_FaultyAll(h) ==
    /\ At(h, "stables")
    /\ memory[Home[h]].stables = {}
    /\ Becomes(h, [handler[h] EXCEPT !.phase = "remembering", !.stables = Token])
    /\ UNCHANGED <<prices, tokens, messages>>

\* ... or the collection is asked, and the answer remembered when it comes.
QueryStableCoins(h) ==
    /\ At(h, "stables")
    /\ memory[Home[h]].stables = {}
    /\ Becomes(h, [handler[h] EXCEPT !.phase = "remembering", !.stables = marked])
    /\ UNCHANGED <<prices, tokens, messages>>

\* A faulty variant of the next definition: the first coin is taken for all.
RememberStableCoins_FaultyFirst(h) ==
    /\ At(h, "remembering")
    /\ \E some \in SUBSET handler[h].stables :
          /\ some # {} \/ handler[h].stables = {}
          /\ memory' = [memory EXCEPT ![Home[h]].stables = some]
    /\ Values(h, handler[h].stables)
    /\ UNCHANGED <<prices, marked, wrapped, eversince, published>>

RememberStableCoins(h) ==
    /\ At(h, "remembering")
    /\ memory' = [memory EXCEPT ![Home[h]].stables = handler[h].stables]
    /\ Values(h, handler[h].stables)
    /\ UNCHANGED <<prices, marked, wrapped, eversince, published>>
-----------------------------------------------------------------------------
\* What the handler does with a price.
Priced(h, price) ==
    LET with == [handler[h] EXCEPT !.price = price, !.known = TRUE]
    IN  CASE TxOf(h).kind = "block"    -> Becomes(h, Idle)
          [] TxOf(h).kind = "transfer" -> Becomes(h, [with EXCEPT !.phase = "publishing"])
          [] TxOf(h).kind = "swap"     -> Becomes(h, [with EXCEPT !.phase = "tokens"])

\* A faulty variant of the next definition: the key is made of the current time.
CacheKey_FaultyNow(d) == now

\* The time range is that of the transaction's quarter, and so is the key.
CacheKey(d) == d.quarter

\* A faulty variant of the next definition: a place is asked for while one is held.
Quoting_FaultyNested(h) ==
    {g \in Handler : Home[g] = Home[h] /\ (At(g, "quoting") \/ At(g, "pricing"))}

\* Handlers of h's process that hold a place in the bottleneck.
Quoting(h) == {g \in Handler : Home[g] = Home[h] /\ At(g, "quoting")}

\* getBlockchainNativeTokenUsdPrice begins, when the bottleneck lets it: a cached
\* price is the answer ...
FindPrice(h) ==
    /\ At(h, "pricing")
    /\ Cardinality(Quoting(h)) < maxConcurrent
    /\ cache[CacheKey(TxOf(h))] # NoPrice
    /\ Priced(h, cache[CacheKey(TxOf(h))])
    /\ UNCHANGED <<prices, tokens, messages>>

\* ... or Finnhub is asked, also when Redis fails.
MissPrice(h) ==
    /\ At(h, "pricing")
    /\ Cardinality(Quoting(h)) < maxConcurrent
    /\ MayFail \/ cache[CacheKey(TxOf(h))] = NoPrice
    /\ Goes(h, "quoting")
    /\ UNCHANGED <<prices, tokens, messages>>

\* Finnhub answers with the candle, which is cached in passing.
Quote(h) ==
    LET d     == TxOf(h)
        price == [chain |-> d.chain, quarter |-> d.quarter,
                  version |-> moves[d.chain][d.quarter]]
    IN  /\ At(h, "quoting")
        /\ Priced(h, price)
        /\ setting' = setting \cup {[key |-> CacheKey(d), price |-> price]}
        /\ UNCHANGED <<now, moves, cache, tokens, messages>>

\* fetchTokensData (module TokenRecovery has it), for the symbols and decimals.
FetchTokens(h) ==
    /\ At(h, "tokens")
    /\ Goes(h, "publishing")
    /\ UNCHANGED <<prices, tokens, messages>>
-----------------------------------------------------------------------------
\* The message of a transaction, from what its handler found.  One of no known type
\* carries no data; a transfer's value is what the transaction carries, and its
\* price.  The time range was computed on the transaction's own Date object, so a
\* price that was asked for leaves its timestamp at the beginning of its quarter.
TxProcessed(m) ==
    [type |-> IF ~m.known THEN "Unknown"
              ELSE IF tx[m.tx].kind = "swap" THEN "DexSwap" ELSE "EthTransfer",
     exactTime |-> m.price = NoPrice,
     data |-> IF m.known /\ tx[m.tx].kind = "swap"
              THEN DexSwapData(tx[m.tx], m.stables, m.price) ELSE m.price]

\* Publication of TxProcessed.
PublishTxProcessed(h) ==
    /\ At(h, "publishing")
    /\ published' = published \cup
         {[tx |-> handler[h].tx, known |-> handler[h].known,
           stables |-> handler[h].stables, price |-> handler[h].price]}
    /\ Becomes(h, Idle)
    /\ UNCHANGED <<prices, tokens, unvalued>>

\* A call is rejected (a price that is missing among them), and execute with it.
\* RedisCache.get is not: it answers nothing when Redis fails (MissPrice).
CallFails(h) ==
    /\ MayFail
    /\ Busy(h) /\ ~At(h, "pricing")
    /\ Becomes(h, Idle)
    /\ UNCHANGED <<prices, tokens, messages>>

Execute(h) ==
    \/ CallFails(h)
    \/ GetRawTransaction(h) \/ GetWrappedToken(h)
    \/ RecallStableCoins(h) \/ QueryStableCoins(h) \/ RememberStableCoins(h)
    \/ FindPrice(h) \/ MissPrice(h) \/ Quote(h) \/ FetchTokens(h)
    \/ PublishTxProcessed(h)
-----------------------------------------------------------------------------
rest == <<tx, tokens, handler, messages, takes>>

\* One of the events the bound is on.
Event == events < MaxEvents /\ events' = events + 1

\* The un-awaited cache.set takes effect, or fails.
CacheSet(e) ==
    /\ e \in setting
    /\ setting' = setting \ {e}
    /\ cache' = [cache EXCEPT ![e.key] = e.price] \/ (MayFail /\ UNCHANGED cache)
    /\ UNCHANGED <<now, moves, rest, events>>

\* The entry's twelve hours are over, or Redis drops it.
Expire(q) ==
    /\ Event
    /\ cache[q] # NoPrice
    /\ cache' = [cache EXCEPT ![q] = NoPrice]
    /\ UNCHANGED <<now, moves, setting, rest>>

\* The current quarter's price moves; the next quarter begins.
Move(c) ==
    /\ Event
    /\ moves' = [moves EXCEPT ![c][now] = @ + 1]
    /\ UNCHANGED <<now, cache, setting, rest>>

NextQuarter ==
    /\ now < LastQuarter
    /\ now' = now + 1
    /\ UNCHANGED <<moves, cache, setting, rest, events>>

\* What the documents in the database say of the tokens changes.
TokensSaved(coins, hasWrapped) ==
    /\ marked' = coins /\ wrapped' = hasWrapped
    /\ eversince' = [p \in Process |-> eversince[p] \cap coins]
    /\ UNCHANGED <<tx, prices, memory, handler, messages, takes>>

\* POST /tokens saves the whole document, as a stable coin's or, by default, not; a
\* SaveToken that read it before writes it back as it was (module TokenRecovery).
Mark(s) ==
    /\ Event
    /\ TokensSaved(marked \cup {s}, wrapped) \/ TokensSaved(marked \ {s}, wrapped)

\* A migration inserts the wrapped token, and stable coins with it.  (That a SaveToken
\* which read the token before UnmarkWrapped puts its mark back is the case of none.)
Migrate ==
    /\ ~wrapped
    /\ \E coins \in SUBSET Stable : TokensSaved(marked \cup coins, TRUE)
    /\ UNCHANGED events

\* POST /tokens of the wrapped token: what the DTO calls isWrappedNative is no field
\* of a Token, whose isNativeWrapped defaults to false.
UnmarkWrapped ==
    /\ Event
    /\ wrapped
    /\ \E coins \in {marked \ {WETH}, marked \cup ({WETH} \cap Stable)} :
          TokensSaved(coins, FALSE)

\* A process exits and is started again.
Crash(p) ==
    /\ Event
    /\ memory' = [memory EXCEPT ![p] = NothingRemembered]
    /\ eversince' = [eversince EXCEPT ![p] = marked]
    /\ handler' = [h \in Handler |-> IF Home[h] = p THEN Idle ELSE handler[h]]
    /\ UNCHANGED <<tx, prices, marked, wrapped, messages, takes>>

Next ==
    \/ \E h \in Handler : Execute(h) \/ \E t \in Tx : Take(h, t)
    \/ \E e \in setting : CacheSet(e)
    \/ \E q \in Quarter : Expire(q)
    \/ \E c \in Chain : Move(c)
    \/ NextQuarter
    \/ \E s \in Stable : Mark(s)
    \/ Migrate \/ UnmarkWrapped
    \/ \E p \in Process : Crash(p)

Spec == Init /\ [][Next]_vars

\* Calls are answered or rejected, and the bottleneck serves them in turn.
Fairness == \A h \in Handler : WF_vars(Execute(h))

FairSpec == Spec /\ Fairness
-----------------------------------------------------------------------------
TypeOK ==
    /\ tx \in Scenarios
    /\ now \in Quarter
    /\ moves \in [Chain -> [Quarter -> 0..MaxEvents]]
    /\ cache \in [Quarter -> Price \cup {NoPrice}]
    /\ setting \subseteq [key : Quarter, price : Price]
    /\ marked \subseteq Stable /\ wrapped \in BOOLEAN
    /\ memory \in [Process -> [wrapped : BOOLEAN, stables : SUBSET Stable]]
    /\ eversince \in [Process -> SUBSET Stable]
    /\ handler \in [Handler -> HandlerState \cup {Idle}]
    /\ published \subseteq [tx : Tx, known : BOOLEAN, stables : SUBSET Stable,
                         price : Price \cup {NoPrice}]
    /\ takes \in 0..MaxTakes /\ events \in 0..MaxEvents

\* Transactions and blocks that a price is asked for.
AsksPrice(d) == d.kind \in {"transfer", "swap", "block"}

\* PricedInItsQuarter: the price a transaction is valued by is one a candle showed,
\* of the quarter the transaction is in and of a chain on which something in that
\* quarter was to be priced, though all processes, and all handlers with calls in
\* flight, fill one cache.  Its keys name no chain (FinnhubApiService.ts:20): the
\* price is sure to be of the transaction's own chain only if all the transactions
\* of the quarter are.
PricedInItsQuarter ==
    \A m \in published : m.price # NoPrice =>
        /\ m.price.quarter = tx[m.tx].quarter
        /\ m.price.version <= moves[m.price.chain][m.price.quarter]
        /\ \E t \in Tx : /\ AsksPrice(tx[t])
                         /\ tx[t].chain = m.price.chain
                         /\ tx[t].quarter = m.price.quarter

SwapsPublished == {m \in published : TxProcessed(m).type = "DexSwap"}

TokensOf(s) == {s.path[k] : k \in DOMAIN s.path}

\* KnownCoinsCount: a swap is left without a value only if it moved neither the
\* wrapped token nor a stable coin that has been marked ever since the process
\* started: what a process remembers of the stable coins (TokenService.ts:69-71) may
\* miss those that were not marked at some time of its life, never the others.
KnownCoinsCount ==
    \A u \in unvalued : TokensOf(tx[u.tx]) \cap ({WETH} \cup u.eversince) = {}

\* AmountsBounded: the recorded input is what was paid and the recorded output what
\* was received, but for swaps that take or give ether on the side that is not
\* exact: there the sender's bound is recorded, so that never more is recorded as
\* received, or less as paid, than was (DexSwapProcessor.ts:77-110).
AmountsBounded ==
    \A m \in SwapsPublished :
        LET s == tx[m.tx]
            d == TxProcessed(m).data
        IN  /\ d.input >= Paid(s) /\ d.output <= Received(s)
            /\ s.method # "swapETHForExactTokens" => d.input = Paid(s)
            /\ s.method \notin ReceivesEth => d.output = Received(s)

\* The amounts of these tokens that the swap moved.
MovedOf(s, coins) == {s.moved[k] : k \in {n \in DOMAIN s.path : s.path[n] \in coins}}

\* The flags of the details d of a swap s say where its values come from.
Flagged(s, d) ==
    /\ d.calculatedUsdValue    <=> d.usdValue.price # NoPrice
    /\ d.calculatedNativeValue <=> d.nativeValue.price # NoPrice
    /\ ~(d.calculatedUsdValue /\ d.calculatedNativeValue)
    /\ ~d.calculatedNativeValue =>
          d.nativeValue.scale = 1 /\ d.nativeValue.amount \in MovedOf(s, {WETH})
    /\ ~d.calculatedUsdValue =>
          d.usdValue.scale = 1 /\ d.usdValue.amount \in MovedOf(s, Stable)

\* EstimatesFlagged: a value of a swap is flagged as calculated exactly when a price
\* went into it (Tx.ts:53-55), never both are, and what is not flagged is an amount
\* of the wrapped token, or of a stable coin, that the swap moved, in whole coins.
EstimatesFlagged == \A m \in SwapsPublished : Flagged(tx[m.tx], TxProcessed(m).data)

\* RedeliveryAgrees: a transaction that is delivered again, to whatever handler and
\* after whatever failed, is published as it was the first time: two messages of it
\* differ only in what follows from a stable coin that was marked or unmarked in
\* between, or in the chain and the version of the price.  That includes the time they carry, which
\* FinnhubApiService.ts:105-109 truncates if, and only if, the price was asked for.
RedeliveryAgrees ==
    \A m, n \in published : m.tx = n.tx /\ m.stables = n.stables =>
        /\ m.known = n.known
        /\ TxProcessed(m).exactTime = TxProcessed(n).exactTime
        /\ m.price.quarter = n.price.quarter

\* Finishes: a handler that took a transaction gets free again, whatever calls are
\* rejected and however many handlers wait for a place in the bottleneck.
Finishes == \A h \in Handler : Busy(h) ~> ~Busy(h)
=============================================================================
