------------------------------ MODULE SaveWallet ------------------------------
(* SaveWallet (App/UseCases/Wallets/SaveWallet.ts) over the cached wallet      *)
(* repository: handlers of several consumer processes take WalletDiscovered    *)
(* messages, read the wallet through the cache, and write it whole.            *)
(*                                                                             *)
(* A message brings facts (tags and relations) about a wallet.  Reading,       *)
(* merging and writing are separate steps: other handlers run between any two  *)
(* awaits, and a process may exit at any of them.  Delivery is what Executor   *)
(* establishes: at least once, with a budget of retries.                       *)
EXTENDS Naturals, FiniteSets

CONSTANTS
    Wallet, Fact, Msg,
    Target,            \* the wallet each message is about
    Facts,             \* the tags and relations each message brings
    OldTx,             \* transactions in a new wallet's history
    Existing,          \* wallets that have a document to begin with
    Process,           \* consumer processes
    Handler,           \* messages executing at once (prefetch, over all processes)
    Home,              \* the process each handler runs in
    MaxRetries,        \* ExecutorMessage's budget (10 in the code)
    MayFail,           \* whether calls to services may be rejected, or
                       \* answered with an error
    MaxCrashes         \* bound on crashes of processes

ASSUME SaveWalletAssumption ==
    /\ Target \in [Msg -> Wallet]
    /\ Facts \in [Msg -> SUBSET Fact]
    /\ Home \in [Handler -> Process]
    /\ Existing \subseteq Wallet
    /\ MaxRetries \in Nat /\ MaxCrashes \in Nat
    /\ MayFail \in BOOLEAN

VARIABLES
    recorded,   \* wallets that have a document
    facts,      \* the facts in each wallet's document
    cached,     \* wallets findOne finds in the cache
    cachedFacts,\* the facts of the cached copies
    queue,      \* messages to be taken, with the retries they have behind them
    handler,    \* what each handler is doing
    announced,  \* transactions of wallets' histories published as discovered
    applied,    \* ghost: messages some execution completed
    dead,       \* messages that ended in the dead queue
    discarded,  \* messages the executor discarded
    crashes     \* how many crashes happened

vars == <<recorded, facts, cached, cachedFacts, queue, handler,
          announced, applied, dead, discarded, crashes>>
wallets == <<recorded, facts>>
cache   == <<cached, cachedFacts>>
fates   == <<dead, discarded>>
-----------------------------------------------------------------------------
\* Where a handler stands: the call it awaits.
\*   finding    resolveEnsName and the cache's get
\*   reading    the database's findOne, the cache having missed
\*   caching    the cache's set of the document it read
\*   fetching   getWalletTxsWithMetadata, the wallet being new
\*   announcing the publication of the wallet's history
\*   saving     the database's updateOne
\*   reporting  the publication of WalletSaved or WalletUpdated
\*   acking     execute was resolved, the message is to be acknowledged
\*   failed     execute was rejected, the retry message is to be published
Phase == {"idle", "finding", "reading", "caching", "fetching", "announcing",
          "saving", "reporting", "acking", "failed"}

\* Where the copy a handler holds comes from.
Source == {"none", "cache", "database", "new"}

\* Two fields are ghosts: missed, the facts others wrote since the handler read
\* its copy, and blank, that the API answered it a body without items.
HandlerState ==
    [phase : Phase, msg : Msg, retries : Nat, source : Source,
     copy : SUBSET Fact, history : SUBSET OldTx, missed : SUBSET Fact,
     blank : BOOLEAN]

Idle == [phase |-> "idle"]

Taken(m, r) ==
    [phase |-> "finding", msg |-> m, retries |-> r, source |-> "none",
     copy |-> {}, history |-> {}, missed |-> {}, blank |-> FALSE]

At(h, phase) == handler[h].phase = phase
WalletOf(h)  == Target[handler[h].msg]

Init ==
    /\ recorded = Existing /\ facts = [w \in Wallet |-> {}]
    /\ cached = {} /\ cachedFacts = [w \in Wallet |-> {}]
    /\ queue = Msg \X {0}
    /\ handler = [h \in Handler |-> Idle]
    /\ announced = {} /\ applied = {}
    /\ dead = {} /\ discarded = {}
    /\ crashes = 0
-----------------------------------------------------------------------------
\* A message is delivered and execute begins.
Take(h, m, r) ==
    /\ At(h, "idle")
    /\ <<m, r>> \in queue
    /\ queue' = queue \ {<<m, r>>}
    /\ handler' = [handler EXCEPT ![h] = Taken(m, r)]
    /\ UNCHANGED <<wallets, cache, announced, applied, fates, crashes>>

Goes(h, state) ==
    /\ handler' = [handler EXCEPT ![h] = state]
    /\ UNCHANGED <<wallets, queue, applied, fates, crashes>>

\* CachedMongoBaseRepository.findOne: a copy in the cache is the answer ...
FindCached(h) ==
    /\ At(h, "finding")
    /\ WalletOf(h) \in cached
    /\ Goes(h, [handler[h] EXCEPT !.phase = "saving", !.source = "cache",
                                  !.copy = cachedFacts[WalletOf(h)]])
    /\ UNCHANGED <<cache, announced>>

\* ... otherwise (or when Redis answers with an error) the database is asked.
CacheMisses(h) ==
    /\ At(h, "finding")
    /\ WalletOf(h) \notin cached \/ MayFail
    /\ Goes(h, [handler[h] EXCEPT !.phase = "reading"])
    /\ UNCHANGED <<cache, announced>>

\* The document is read; without one the wallet is created.
Read(h) ==
    /\ At(h, "reading")
    /\ \/ /\ WalletOf(h) \in recorded
          /\ Goes(h, [handler[h] EXCEPT !.phase = "caching", !.source = "database",
                                        !.copy = facts[WalletOf(h)], !.missed = {}])
       \/ /\ WalletOf(h) \notin recorded
          /\ Goes(h, [handler[h] EXCEPT !.phase = "fetching", !.source = "new",
                                        !.copy = {}, !.missed = {}])
    /\ UNCHANGED <<cache, announced>>

\* The document as read is cached, until its time to live has passed.  The key is
\* made of address and blockchain in the order SaveWallet names them, and nobody
\* else names them so: SaveTxOfInterest's findOne of the same wallet
\* (SaveTxOfInterest.ts:66-69) and every save use other keys.
CacheCopy(h) ==
    /\ At(h, "caching")
    /\ Goes(h, [handler[h] EXCEPT !.phase = "saving"])
    /\ cached' = cached \cup {WalletOf(h)}
    /\ cachedFacts' = [cachedFacts EXCEPT ![WalletOf(h)] = handler[h].copy]
    /\ UNCHANGED announced

\* createWallet asks for the wallet's history.  An HTTP error is not rejected by
\* the bare Axios client: its body has no items, which counts as no history.
Answered(h, txs, blank) ==
    [handler[h] EXCEPT !.phase = "announcing", !.history = txs, !.blank = blank]

FetchHistory(h) ==
    /\ At(h, "fetching")
    /\ \/ Goes(h, Answered(h, OldTx, FALSE))
       \/ MayFail /\ Goes(h, Answered(h, {}, TRUE))
    /\ UNCHANGED <<cache, announced>>

\* A faulty variant of the next definition: the publications are not awaited.
Announce_FaultyAwait(h) ==
    /\ At(h, "announcing")
    /\ \E txs \in SUBSET handler[h].history :
          announced' = announced \cup ({WalletOf(h)} \X txs)
    /\ Goes(h, [handler[h] EXCEPT !.phase = "saving"])
    /\ UNCHANGED cache

\* The history is published; when one publication is rejected the others have
\* been started all the same.
Announce(h) ==
    /\ At(h, "announcing")
    /\ \E txs \in SUBSET handler[h].history :
          /\ announced' = announced \cup ({WalletOf(h)} \X txs)
          /\ \/ txs = handler[h].history
                /\ Goes(h, [handler[h] EXCEPT !.phase = "saving"])
             \/ MayFail /\ txs # handler[h].history
                /\ Goes(h, [handler[h] EXCEPT !.phase = "failed"])
    /\ UNCHANGED cache

\* A faulty variant of the next definition: the list of new facts is added as
\* one fact.
Merged_FaultyPush(h) == handler[h].copy \cup {Facts[handler[h].msg]}

\* addRelation and addTag on the copy at hand.
Merged(h) == handler[h].copy \cup Facts[handler[h].msg]

\* A faulty variant of the next definition: a cached copy can be written.
Writable_FaultyCache(h) == handler[h].source # "none"

\* The _id of a cached copy is a string by now, and the database refuses to
\* change the _id of a document.
Writable(h) == handler[h].source # "cache"

\* updateOne($set the whole wallet, upsert), then a findOne that may fail.
Save(h) ==
    /\ At(h, "saving")
    /\ Writable(h)
    /\ recorded' = recorded \cup {WalletOf(h)}
    /\ facts' = [facts EXCEPT ![WalletOf(h)] = Merged(h)]
    /\ \E next \in {"reporting"} \cup (IF MayFail THEN {"failed"} ELSE {}) :
          handler' = [g \in Handler |->
             IF g = h THEN [handler[h] EXCEPT !.phase = next]
             ELSE IF ~At(g, "idle") /\ WalletOf(g) = WalletOf(h)
             THEN [handler[g] EXCEPT !.missed = @ \cup Merged(h)]
             ELSE handler[g]]
    /\ UNCHANGED <<cache, queue, announced, applied, fates, crashes>>

SaveRefused(h) ==
    /\ At(h, "saving")
    /\ ~Writable(h)
    /\ Goes(h, [handler[h] EXCEPT !.phase = "failed"])
    /\ UNCHANGED <<cache, announced>>

\* The use case's event is published, and execute resolved.
Complete(h) ==
    /\ At(h, "reporting")
    /\ handler' = [handler EXCEPT ![h].phase = "acking"]
    /\ applied' = applied \cup {handler[h].msg}
    /\ UNCHANGED <<wallets, cache, queue, announced, fates, crashes>>

Ack(h) ==
    /\ At(h, "acking")
    /\ Goes(h, Idle)
    /\ UNCHANGED <<cache, announced>>

\* A call is rejected before it had an effect.
CallFails(h) ==
    /\ MayFail
    /\ handler[h].phase \in {"finding", "reading", "fetching", "saving", "reporting"}
    /\ Goes(h, [handler[h] EXCEPT !.phase = "failed"])
    /\ UNCHANGED <<cache, announced>>

\* A faulty variant of the next definition: the retry starts with a new budget.
Retry_FaultyBudget(h) ==
    /\ At(h, "failed")
    /\ handler' = [handler EXCEPT ![h] = Idle]
    /\ queue' = queue \cup {<<handler[h].msg, 0>>}
    /\ UNCHANGED <<wallets, cache, announced, applied, fates, crashes>>

\* The executor sends the message round again, or buries it; when the publication
\* for that is rejected, the nack discards the message.
Retry(h) ==
    /\ At(h, "failed")
    /\ handler' = [handler EXCEPT ![h] = Idle]
    /\ LET again == handler[h].retries + 1
       IN  \/ /\ again <= MaxRetries
              /\ queue' = queue \cup {<<handler[h].msg, again>>}
              /\ UNCHANGED fates
           \/ /\ again > MaxRetries
              /\ dead' = dead \cup {handler[h].msg}
              /\ UNCHANGED <<queue, discarded>>
           \/ /\ MayFail
              /\ discarded' = discarded \cup {handler[h].msg}
              /\ UNCHANGED <<queue, dead>>
    /\ UNCHANGED <<wallets, cache, announced, applied, crashes>>
-----------------------------------------------------------------------------
\* The time to live of a cached copy (120 s) passes.
Expire(w) ==
    /\ w \in cached
    /\ cached' = cached \ {w}
    /\ cachedFacts' = [cachedFacts EXCEPT ![w] = {}]
    /\ UNCHANGED <<wallets, queue, handler, announced, applied, fates, crashes>>

\* A faulty variant of the next definition: messages are acknowledged when they
\* are delivered.
Crash_FaultyAutoAck(p) ==
    /\ crashes < MaxCrashes
    /\ crashes' = crashes + 1
    /\ handler' = [h \in Handler |-> IF Home[h] = p THEN Idle ELSE handler[h]]
    /\ UNCHANGED <<wallets, cache, queue, announced, applied, fates>>

\* A process exits: RabbitMQ requeues what its handlers had not acknowledged.
Crash(p) ==
    LET busy == {h \in Handler : Home[h] = p /\ ~At(h, "idle")}
    IN  /\ crashes < MaxCrashes
        /\ crashes' = crashes + 1
        /\ handler' = [h \in Handler |-> IF h \in busy THEN Idle ELSE handler[h]]
        /\ queue' = queue \cup {<<handler[h].msg, handler[h].retries>> : h \in busy}
        /\ UNCHANGED <<wallets, cache, announced, applied, fates>>

\* A step of the execution of a message.
Execute(h) ==
    \/ FindCached(h) \/ CacheMisses(h) \/ Read(h) \/ CacheCopy(h)
    \/ FetchHistory(h) \/ Announce(h)
    \/ Save(h) \/ SaveRefused(h)
    \/ Complete(h) \/ Ack(h) \/ CallFails(h) \/ Retry(h)

Consume == \E h \in Handler : Execute(h) \/ \E e \in queue : Take(h, e[1], e[2])

Next ==
    \/ Consume
    \/ \E w \in Wallet : Expire(w)
    \/ \E p \in Process : Crash(p)

\* Handlers run as long as there is something to do.
Fairness == WF_vars(Consume)

Spec     == Init /\ [][Next]_vars
FairSpec == Spec /\ Fairness
-----------------------------------------------------------------------------
TypeOK ==
    /\ recorded \subseteq Wallet
    /\ facts \in [Wallet -> SUBSET Fact]
    /\ cached \subseteq Wallet
    /\ cachedFacts \in [Wallet -> SUBSET Fact]
    /\ queue \subseteq Msg \X Nat
    /\ handler \in [Handler -> HandlerState \cup {Idle}]
    /\ announced \subseteq Wallet \X OldTx
    /\ applied \subseteq Msg
    /\ dead \subseteq Msg /\ discarded \subseteq Msg
    /\ crashes \in Nat

\* Creates(h, w): in this step handler h writes the first document of wallet w.
Creates(h, w) ==
    /\ w \in recorded' \ recorded
    /\ At(h, "saving") /\ handler'[h].phase # "saving"
    /\ WalletOf(h) = w

\* HistoryFirst: a wallet gets its document only after its whole history was
\* published, as a later execution takes the update branch and will not publish it
\* (lines 87-89 and the comment at 117-118, "when updating there is no need to save
\* again old txs").  There is one exception: the history API answered the execution
\* that creates the wallet with an error, which CovalentApi.ts:69-71 takes for an
\* empty history.  Crashes, retries, rejected publications and handlers racing to
\* create the wallet are none.
HistoryFirst ==
    [][\A w \in recorded' \ recorded :
         \/ {w} \X OldTx \subseteq announced
         \/ \E h \in Handler : Creates(h, w) /\ handler[h].blank]_vars

\* What a completed message brought stays in the wallet's document: tags and
\* relations are only ever added (Wallet.ts:93-129, and the tests "should add
\* new tags" and "should add new relationships").
AppliedKept == \A m \in applied : Facts[m] \subseteq facts[Target[m]]

\* A save takes a fact out of a document only if another handler wrote that fact
\* while the saving handler held its copy: the stale copies the cache hands out
\* (CachedMongoBaseRepository.ts:34-48) are never the reason.
LossNeedsOverlap ==
    [][\A w \in Wallet : \A f \in facts[w] \ facts'[w] :
         \E h \in Handler : /\ At(h, "saving") /\ handler'[h].phase # "saving"
                            /\ WalletOf(h) = w
                            /\ f \in handler[h].missed]_vars

\* In good health - no call rejected, no crash - no execution is rejected: an
\* update of an existing wallet adds its tags and relations and saves it.
NoneRejected == \A h \in Handler : ~At(h, "failed")

\* Every message is applied, buried or discarded in the end.
Settled == \A m \in Msg : <>(m \in applied \cup dead \cup discarded)

\* Messages some handler, the queue or the dead queue has a copy of.
Held == {e[1] : e \in queue} \cup dead
        \cup {handler[h].msg : h \in {g \in Handler : ~At(g, "idle")}}

Delivery == INSTANCE AtLeastOnce
    WITH held <- Held, parked <- dead, done <- applied, dropped <- discarded,
         MayDrop <- MayFail

\* Delivers: whatever fails or exits between two calls of SaveWallet, its messages
\* keep the promise Executor makes (and its own module shows it to keep): none is
\* gone that was not applied, or discarded by the nack of RabbitMqClient.ts:102.
Delivers == Delivery!Spec
=============================================================================
