---------------------------- MODULE BlockListener ----------------------------
(* BlockListener (App/UseCases/BlockListener.ts) following one blockchain: it  *)
(* fetches the blocks one by one, announces their transactions (TxDiscovered)  *)
(* and records each block, so that a restarted process resumes behind the      *)
(* latest recorded block.                                                      *)
(*                                                                             *)
(* The loop awaits the provider, the price service and, between rounds, the    *)
(* broker's management API.  It does NOT await the publications nor the save   *)
(* of the block: they are in flight while the loop goes on, their failures are *)
(* swallowed, and a crash may cut them off.  A process that starts while the   *)
(* broker refuses connections has no client for its whole life: every          *)
(* publication fails, and the blocks are recorded all the same.                *)
EXTENDS BrokerTopology, Integers

CONSTANTS
    StartBlock,             \* config.blockListener.defaultStartingBlock ...
    StartAtLatest,          \* ... or TRUE when it is "latest"
    InitialHead,            \* height of the chain when the program is deployed
    MaxHead,                \* bound on the height of the chain
    TxIndex,                \* positions of the transactions of a block
    CachePriceAfterBlocks,  \* the price is cached every so many blocks (50)
    PendingChannel,         \* the channel whose backlog is asked for
    MaxSaveTxMessagesToHalt,\* backlog at which the listener should pause
    PublishMayFail,         \* whether the broker may reject a publication
    SaveMayFail,            \* whether saving a block may fail
    MaxCrashes,             \* bound on crashes of the process
    MaxRefusals             \* bound on starts while the broker refuses connections

ASSUME BlockListenerAssumption ==
    /\ StartBlock \in Nat /\ InitialHead \in Nat /\ MaxHead \in Nat
    /\ CachePriceAfterBlocks \in Nat \ {0}
    /\ MaxSaveTxMessagesToHalt \in Nat
    /\ MaxCrashes \in Nat /\ MaxRefusals \in Nat
    /\ {StartAtLatest, PublishMayFail, SaveMayFail} \subseteq BOOLEAN

VARIABLES
    pc,          \* where the listener's loop stands
    head,        \* the chain's height, as the provider sees it
    next,        \* nextBlockNum
    attempted,   \* ghost: blocks whose publications and save were started
    publishing,  \* transactions whose publication is in flight
    published,   \* ghost: transactions the broker accepted
    rejected,    \* ghost: transactions whose publication failed
    saving,      \* blocks whose save is in flight
    saved,       \* blocks recorded in the database
    pending,     \* messages waiting in the queue the publications reach
    crashes,     \* how many crashes happened
    client,      \* the broker client this process was given at its start
    refusals     \* how many starts met a broker that refused the connection

vars == <<pc, head, next, attempted, publishing, published, rejected,
          saving, saved, pending, crashes, client, refusals>>
bootstrap == <<client, refusals>>
-----------------------------------------------------------------------------
Tx     == Nat \X TxIndex
Txs(h) == {h} \X TxIndex

(* Block.height is a string, and findLatestBlock sorts by it: "9" comes after  *)
(* "10".  Heights are compared here as their decimal strings are, on the       *)
(* common prefix first, then by length.                                        *)
MaxDigits == 8    \* bound on the digits of a height
Length(n) == CHOOSE k \in 1..MaxDigits : n < 10^k /\ (k = 1 \/ n >= 10^(k-1))

SortsBefore(a, b) ==
    LET k  == IF Length(a) < Length(b) THEN Length(a) ELSE Length(b)
        pa == a \div 10^(Length(a) - k)
        pb == b \div 10^(Length(b) - k)
    IN  pa < pb \/ (pa = pb /\ Length(a) < Length(b))

\* The block findLatestBlock returns.
IsLatest(b) == b \in saved /\ \A g \in saved : ~SortsBefore(b, g)

Init ==
    /\ pc = "down"
    /\ head = InitialHead
    /\ next = 0
    /\ attempted = {} /\ publishing = {} /\ published = {} /\ rejected = {}
    /\ saving = {} /\ saved = {}
    /\ pending = 0
    /\ crashes = 0
    /\ client = "undefined" /\ refusals = 0
-----------------------------------------------------------------------------
\* A faulty variant of the next definition: a restarted listener follows the
\* chain from its head, forgetting what it recorded.
getStartBlock_FaultyHead(b) == b = head

\* getStartBlock: behind the latest recorded block; with an empty database, the
\* block the configuration names, which must exist (and is itself not fetched).
getStartBlock(b) ==
    \/ IsLatest(b)
    \/ saved = {} /\ ~StartAtLatest /\ b = StartBlock /\ b <= head
    \/ saved = {} /\ StartAtLatest /\ b = head

\* createBrokerConnection: a client; or, when the connection is refused, nothing:
\* the loop that should try again returns the promise of its first wait, and the
\* container takes what that promise brings, undefined, for the client.  (A start
\* that ends otherwise ends the process, and docker starts it again.)
createBrokerConnection ==
    \/ client' = "connected" /\ UNCHANGED refusals
    \/ refusals < MaxRefusals /\ refusals' = refusals + 1 /\ client' = "undefined"

Start ==
    /\ pc = "down"
    /\ createBrokerConnection
    /\ \E b \in saved \cup {StartBlock, head} : getStartBlock(b) /\ next' = b + 1
    /\ pc' = "fetching"
    /\ UNCHANGED <<head, attempted, publishing, published, rejected, saving,
                   saved, pending, crashes>>

Moves(from, to) ==
    /\ pc = from
    /\ pc' = to
    /\ UNCHANGED <<head, next, attempted, publishing, published, rejected,
                   saving, saved, pending, crashes, bootstrap>>

\* getBlockWithTransactions answers with the block ...
FetchBlock == next <= head /\ Moves("fetching", "preparing")

\* ... or not: the block does not exist yet, or the call fails.
FetchNothing == Moves("fetching", "waiting")

\* getPendingMessages looks the CHANNEL up among the queues, and fails when it
\* is not the name of one.
PendingKnown == Plain(PendingChannel) \in Queues

\* A faulty variant of the next definition: a failed lookup is waited out like a
\* long backlog.
nextRoundAwaiter_FaultyWait ==
    PendingKnown /\ pending < MaxSaveTxMessagesToHalt

\* nextRoundAwaiter(): the loop goes on when the backlog is short, and also when
\* the backlog cannot be read, since the rejection is swallowed.
nextRoundAwaiter == ~PendingKnown \/ pending < MaxSaveTxMessagesToHalt

NextRound == nextRoundAwaiter /\ Moves("waiting", "fetching")

\* nativeTokenPriceCacheController fails: the error is logged and the same block
\* is fetched again.
PrepareFail ==
    /\ next % CachePriceAfterBlocks = 0
    /\ Moves("preparing", "fetching")

\* The loop hands messages to the broker client and a block to the repository,
\* none of it awaited, and turns to the next block.
Announce(messages, record) ==
    /\ pc = "preparing"
    /\ pc' = "fetching"
    /\ next' = next + 1
    /\ attempted' = attempted \cup {next}
    /\ publishing' = publishing \cup messages
    /\ saving' = saving \cup {record}
    /\ UNCHANGED <<head, published, rejected, saved, pending, crashes, bootstrap>>

\* Faulty variants of the next definition: the block recorded is the one after
\* the block announced; a transaction of the block is not announced; the block
\* is announced in one message, without its transactions.
Dispatch_FaultySave  == Announce(Txs(next), next + 1)
Dispatch_FaultyTx    == \E i \in TxIndex : Announce(Txs(next) \ {<<next, i>>}, next)
Dispatch_FaultyBatch == Announce({<<next>>}, next)

\* Price and receipts are there (missing receipts leave the events without
\* them): every transaction of the block is announced and the block recorded.
Dispatch == Announce(Txs(next), next)
-----------------------------------------------------------------------------
\* The broker accepts a publication: the message is in the queue.
PublishOk(t) ==
    /\ client = "connected"
    /\ publishing' = publishing \ {t}
    /\ published' = published \cup {t}
    /\ pending' = pending + 1
    /\ UNCHANGED <<pc, head, next, attempted, rejected, saving, saved, crashes, bootstrap>>

\* Or rejects it, as a client that is undefined does every one; nobody hears of it.
PublishRejected(t) ==
    /\ PublishMayFail \/ client = "undefined"
    /\ publishing' = publishing \ {t}
    /\ rejected' = rejected \cup {t}
    /\ UNCHANGED <<pc, head, next, attempted, published, saving, saved, pending,
                   crashes, bootstrap>>

\* Block.save: an upsert, so that a block recorded twice is there once.
SaveOk(h) ==
    /\ saving' = saving \ {h}
    /\ saved' = saved \cup {h}
    /\ UNCHANGED <<pc, head, next, attempted, publishing, published, rejected,
                   pending, crashes, bootstrap>>

SaveRejected(h) ==
    /\ SaveMayFail
    /\ saving' = saving \ {h}
    /\ UNCHANGED <<pc, head, next, attempted, publishing, published, rejected,
                   saved, pending, crashes, bootstrap>>

\* The process exits (SIGTERM of a deployment, an unhandled rejection): the loop
\* and everything in flight are gone.
Crash ==
    /\ pc # "down"
    /\ crashes < MaxCrashes
    /\ pc' = "down"
    /\ publishing' = {}
    /\ saving' = {}
    /\ crashes' = crashes + 1
    /\ UNCHANGED <<head, next, attempted, published, rejected, saved, pending, bootstrap>>

\* The chain grows.
NewBlock ==
    /\ head < MaxHead
    /\ head' = head + 1
    /\ UNCHANGED <<pc, next, attempted, publishing, published, rejected, saving,
                   saved, pending, crashes, bootstrap>>

\* A worker takes a message from the queue.
Consume ==
    /\ pending > 0
    /\ pending' = pending - 1
    /\ UNCHANGED <<pc, head, next, attempted, publishing, published, rejected,
                   saving, saved, crashes, bootstrap>>

Loop == FetchBlock \/ FetchNothing \/ NextRound \/ PrepareFail \/ Dispatch

Next ==
    \/ Start
    \/ Loop
    \/ \E t \in publishing : PublishOk(t) \/ PublishRejected(t)
    \/ \E h \in saving : SaveOk(h) \/ SaveRejected(h)
    \/ Crash
    \/ NewBlock
    \/ Consume

(* The process is restarted (--restart=always) and the loop never stops, the   *)
(* broker answers every publication, the chain grows and workers consume.      *)
(* Strong fairness of FetchBlock and Dispatch says that the provider and the   *)
(* price service, asked again and again, do not fail for ever.                 *)
Fairness ==
    /\ WF_vars(Start) /\ WF_vars(Loop) /\ WF_vars(NewBlock) /\ WF_vars(Consume)
    /\ SF_vars(FetchBlock) /\ SF_vars(Dispatch)
    /\ WF_vars(\E t \in publishing : PublishOk(t) \/ PublishRejected(t))

Spec     == Init /\ [][Next]_vars
FairSpec == Spec /\ Fairness
-----------------------------------------------------------------------------
TypeOK ==
    /\ pc \in {"down", "fetching", "waiting", "preparing"}
    /\ head \in Nat
    /\ next \in Nat
    /\ attempted \subseteq Nat
    /\ {publishing, published, rejected} \subseteq SUBSET Tx
    /\ {saving, saved} \subseteq SUBSET Nat
    /\ pending \in Nat
    /\ crashes \in Nat
    /\ client \in {"connected", "undefined"} /\ refusals \in Nat

\* No block is passed over (lines 52-53, 90): whatever crashes, failed saves and
\* out-of-order saves do to the record the restart reads, and although that
\* record is sorted by strings, every block between the configured one and the
\* one the listener stands at was announced.
NoBlockSkipped ==
    pc # "down" => \A h \in StartBlock + 1 .. next - 1 : h \in attempted

\* A transaction of an announced block (lines 70-88, publications and save both
\* unawaited) can only go missing if its publication was rejected, or if its
\* block or a later one is recorded, so that a restart did not announce it
\* again: without such a record the block is still ahead of the listener.
Lost(t) == t \notin published \cup publishing

LossNeedsRecord ==
    \A h \in attempted : \A t \in Txs(h) :
        Lost(t) => \/ t \in rejected
                   \/ \E g \in saved : g >= h
                   \/ pc = "down" \/ next <= h

\* A restart that finds a record resumes right behind a block that had been
\* announced, also when the configuration says "latest" (lines 198-209).
RestartNeverSkips ==
    [][pc = "down" /\ pc' # "down" /\ saved # {} => next' - 1 \in attempted]_vars

\* What docs/ArchitectureOverview.md:2 says of the communications ("to avoid
\* losing data"): a transaction of an announced block is published, being
\* published, or its block will be announced again.
NothingLost ==
    \A h \in attempted : \A t \in Txs(h) :
        Lost(t) => pc = "down" \/ next <= h

\* Every block of the chain is eventually announced, crashes included.
KeepsUp == \A h \in StartBlock + 1 .. MaxHead : <>(h \in attempted)

\* Every transaction is eventually published, unless its publication is rejected
\* or the process exits: that nothing awaits the publications loses none.
EveryTxPublished ==
    \A h \in StartBlock + 1 .. MaxHead : \A t \in Txs(h) :
        <>(t \in published \cup rejected \/ crashes > 0)
=============================================================================
