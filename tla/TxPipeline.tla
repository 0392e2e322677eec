------------------------------ MODULE TxPipeline ------------------------------
(* What becomes of a discovered transaction: ProcessTx looks it up and passes  *)
(* it on, SaveTxOfInterest saves it together with its side effects, and the    *)
(* wallets found that way make SaveWallet publish their old transactions,      *)
(* which come through the same pipeline.                                       *)
(*                                                                             *)
(* All handlers are consumers of one broker, in several processes: a step is   *)
(* what runs between two awaits.  SaveWallet appears here by the two writes    *)
(* others see, the publication of a new wallet's history and the document that *)
(* follows it (module SaveWallet has the rest).                                *)
EXTENDS BrokerTopology, Naturals

CONSTANTS
    Tx, Address, Token, Contract,
    Kind,       \* what the strategies make of a transaction
    Reverted,   \* transactions whose receipt has status 0
    Large,      \* those whose value is not under their threshold
    Sender, Receiver,   \* tx.from and tx.data.to
    Swapped,    \* the tokens of a swap
    Router,     \* the contract a swap was sent to (tx.raw.to)
    Followed,   \* wallets that are in the database from the start
    InBlocks,   \* transactions BlockListener announces
    Process,    \* consumer processes
    Handler,    \* messages executing at once, over all processes
    Home,       \* the process each handler runs in
    MayFail,    \* whether calls may be rejected
    MaxCrashes  \* bound on interruptions: exits, failed wallet creations

ASSUME PipelineAssumption ==
    /\ Kind \in [Tx -> {"swap", "transfer", "other"}]
    /\ Reverted \subseteq Tx /\ Large \subseteq Tx /\ InBlocks \subseteq Tx
    /\ Sender \in [Tx -> Address] /\ Receiver \in [Tx -> Address]
    /\ Swapped \in [Tx -> SUBSET Token]
    /\ Router \in [Tx -> Contract]
    /\ Followed \subseteq Address
    /\ Home \in [Handler -> Process]
    /\ MayFail \in BOOLEAN /\ MaxCrashes \in Nat

VARIABLES
    queue,      \* messages on process_tx and save_tx_of_interest
    handler,    \* what each handler is doing
    announced,  \* WalletDiscovered messages published: <<tx, role>>
    tokens,     \* TokenDiscovered messages published: <<tx, token>>
    routers,    \* contracts saved
    creating,   \* wallets whose history is published and document not written
    wallets,    \* wallets that have a document
    saved,      \* transactions that have a document
    known,      \* ghost: transactions whose sender an execution found
    overtaken,  \* ghost: old transactions looked at while their wallet was created
    lost,       \* ghost: messages discarded after a failed execution
    crashes     \* how many interruptions happened

vars == <<queue, handler, announced, tokens, routers, creating, wallets,
          saved, known, overtaken, lost, crashes>>
-----------------------------------------------------------------------------
\* A message of one of the two subscriptions.  The origin tells the copies of a
\* transaction apart: announced with its block, or as a wallet's old transaction.
Message == [channel : {"discovered_tx_to_process", "tx_processed"},
            tx : Tx, origin : {"block", "history"}]

TxDiscovered(t, o) == [channel |-> "discovered_tx_to_process", tx |-> t, origin |-> o]
TxProcessed(t, o)  == [channel |-> "tx_processed", tx |-> t, origin |-> o]

\* Where a handler stands: the call it awaits.
\*   processing ProcessTx: receipt, block, prices and token data are looked up,
\*              none of which others can tell, and TxProcessed is published
\*   finding    SaveTxOfInterest: walletRepository.findOne of the sender
\*   tokens     the two publications of TokenDiscovered
\*   sender     the publication of WalletDiscovered for the sender
\*   router     findContract and save of the router
\*   receiver   the publication of WalletDiscovered for the receiver
\*   saving     txRepository.save, and the publication of TxSaved
\*   acking, failing   execute is resolved, or rejected
Phase == {"processing", "finding", "tokens", "sender", "router",
          "receiver", "saving", "acking", "failing"}

HandlerState == [phase : Phase, msg : Message]
Idle == [phase |-> "idle"]

At(h, phase) == handler[h].phase = phase
Busy(h)      == handler[h].phase # "idle"
TxOf(h)      == handler[h].msg.tx

Init ==
    /\ queue = {TxDiscovered(t, "block") : t \in InBlocks}
    /\ handler = [h \in Handler |-> Idle]
    /\ announced = {} /\ tokens = {} /\ routers = {}
    /\ creating = {} /\ wallets = Followed
    /\ saved = {} /\ known = {} /\ overtaken = {} /\ lost = {}
    /\ crashes = 0

messages == <<announced, tokens>>
database == <<routers, wallets, saved>>
ghosts   == <<known, overtaken, lost>>
-----------------------------------------------------------------------------
\* A message is delivered and execute begins.
Take(h, m) ==
    /\ ~Busy(h)
    /\ m \in queue
    /\ queue' = queue \ {m}
    /\ handler' = [handler EXCEPT ![h] =
         [phase |-> IF m.channel = "tx_processed" THEN "finding" ELSE "processing",
          msg |-> m]]
    /\ UNCHANGED <<messages, database, creating, ghosts, crashes>>

\* The handler goes on to the next call.
Goes(h, phase) ==
    /\ handler' = [handler EXCEPT ![h].phase = phase]
    /\ UNCHANGED <<creating, lost, crashes>>

\* ProcessTx.execute: a reverted transaction is dropped, any other passed on.
ProcessTx(h) ==
    /\ At(h, "processing")
    /\ queue' = queue \cup
         {TxProcessed(t, handler[h].msg.origin) : t \in {TxOf(h)} \ Reverted}
    /\ Goes(h, "acking")
    /\ UNCHANGED <<messages, database, known, overtaken>>

\* isSwapValueUnderThreshold, isEthTransferValueUnderThreshold and the switch:
\* a transaction of no known type has no handler.
OfInterest(t) == t \in Large /\ Kind[t] # "other"

\* saveTxIfApplies: with a known sender the transaction is saved at once.
FindKnown(h) ==
    /\ At(h, "finding")
    /\ Sender[TxOf(h)] \in wallets
    /\ known' = known \cup {TxOf(h)}
    /\ Goes(h, "saving")
    /\ UNCHANGED <<queue, messages, database, overtaken>>

\* Otherwise its handler saves it, or nobody does.  A wallet that is being
\* created is not found either.
FindUnknown(h) ==
    /\ At(h, "finding")
    /\ Sender[TxOf(h)] \notin wallets
    /\ \/ /\ OfInterest(TxOf(h))
          /\ Goes(h, IF Kind[TxOf(h)] = "swap" THEN "tokens" ELSE "sender")
          /\ UNCHANGED overtaken
       \/ /\ ~OfInterest(TxOf(h))
          /\ Goes(h, "acking")
          /\ overtaken' = overtaken \cup
               {t \in {TxOf(h)} : Sender[t] \in creating /\ handler[h].msg.origin = "history"}
    /\ UNCHANGED <<queue, messages, database, known>>
-----------------------------------------------------------------------------
\* publishSwapTokens: both publications are started, any of them may be rejected.
PublishSwapTokens(h) ==
    /\ At(h, "tokens")
    /\ \E some \in SUBSET Swapped[TxOf(h)] :
          /\ tokens' = tokens \cup ({TxOf(h)} \X some)
          /\ \/ some = Swapped[TxOf(h)] /\ Goes(h, "sender")
             \/ MayFail /\ some # Swapped[TxOf(h)] /\ Goes(h, "failing")
    /\ UNCHANGED <<queue, announced, database, known, overtaken>>

\* A faulty variant of the next definition: the router is skipped.
PublishSender_FaultySkip(h) ==
    /\ At(h, "sender")
    /\ announced' = announced \cup {<<TxOf(h), "sender">>}
    /\ Goes(h, "saving")
    /\ UNCHANGED <<queue, tokens, database, known, overtaken>>

PublishSender(h) ==
    /\ At(h, "sender")
    /\ announced' = announced \cup {<<TxOf(h), "sender">>}
    /\ Goes(h, IF Kind[TxOf(h)] = "swap" THEN "router" ELSE "saving")
    /\ UNCHANGED <<queue, tokens, database, known, overtaken>>

\* swapOutAddressIsNotSender: true when the two addresses are the SAME.
swapOutAddressIsNotSender(t) == Sender[t] = Receiver[t]

\* A faulty variant of the next definition: the transaction is taken for its
\* router.
SaveRouter_FaultyAddress(h) ==
    /\ At(h, "router")
    /\ routers' = routers \cup {TxOf(h)}
    /\ Goes(h, IF swapOutAddressIsNotSender(TxOf(h)) THEN "receiver" ELSE "saving")
    /\ UNCHANGED <<queue, messages, wallets, saved, known, overtaken>>

\* saveRouterIfNotExist
SaveRouter(h) ==
    /\ At(h, "router")
    /\ routers' = routers \cup {Router[TxOf(h)]}
    /\ Goes(h, IF swapOutAddressIsNotSender(TxOf(h)) THEN "receiver" ELSE "saving")
    /\ UNCHANGED <<queue, messages, wallets, saved, known, overtaken>>

PublishReceiver(h) ==
    /\ At(h, "receiver")
    /\ announced' = announced \cup {<<TxOf(h), "receiver">>}
    /\ Goes(h, "saving")
    /\ UNCHANGED <<queue, tokens, database, known, overtaken>>

\* txRepository.save, an upsert by hash and blockchain; then TxSaved is published,
\* which no queue is bound to, but which may be rejected.
SaveTx(h) ==
    /\ At(h, "saving")
    /\ saved' = saved \cup {TxOf(h)}
    /\ Goes(h, "acking") \/ (MayFail /\ Goes(h, "failing"))
    /\ UNCHANGED <<queue, messages, routers, wallets, known, overtaken>>

\* A call is rejected and had no effect.
CallFails(h) ==
    /\ MayFail
    /\ handler[h].phase \in {"processing", "finding", "sender", "router", "receiver", "saving"}
    /\ Goes(h, "failing")
    /\ UNCHANGED <<queue, messages, database, known, overtaken>>

Ack(h) ==
    /\ At(h, "acking")
    /\ handler' = [handler EXCEPT ![h] = Idle]
    /\ UNCHANGED <<queue, messages, database, creating, ghosts, crashes>>

\* A failed execution is over: its retry message could only come back through a
\* publication that neither subscription has (run executor_process_tx).
Discard(h) ==
    /\ At(h, "failing")
    /\ ~PublicationDeclared(AddDirectPubPrefix(handler[h].msg.channel))
    /\ handler' = [handler EXCEPT ![h] = Idle]
    /\ lost' = lost \cup {handler[h].msg}
    /\ UNCHANGED <<queue, messages, database, creating, known, overtaken, crashes>>

Execute(h) ==
    \/ ProcessTx(h) \/ FindKnown(h) \/ FindUnknown(h)
    \/ PublishSwapTokens(h) \/ PublishSender(h) \/ SaveRouter(h) \/ PublishReceiver(h)
    \/ SaveTx(h) \/ CallFails(h) \/ Ack(h) \/ Discard(h)
-----------------------------------------------------------------------------
Discovered == {Sender[m[1]] : m \in {n \in announced : n[2] = "sender"}}
              \cup {Receiver[m[1]] : m \in {n \in announced : n[2] = "receiver"}}

OldTxs(a) == {t \in Tx : Sender[t] = a}

\* A faulty variant of the next definition: a page of the history is missed.
PublishHistory_FaultyPage(a) ==
    /\ a \in Discovered \ (wallets \cup creating)
    /\ \E missed \in Tx :
          queue' = queue \cup {TxDiscovered(t, "history") : t \in OldTxs(a) \ {missed}}
    /\ creating' = creating \cup {a}
    /\ UNCHANGED <<handler, messages, database, ghosts, crashes>>

\* SaveWallet.createWallet: the history is published first ...
PublishHistory(a) ==
    /\ a \in Discovered \ (wallets \cup creating)
    /\ queue' = queue \cup {TxDiscovered(t, "history") : t \in OldTxs(a)}
    /\ creating' = creating \cup {a}
    /\ UNCHANGED <<handler, messages, database, ghosts, crashes>>

\* ... and then the wallet is saved.
CreateWallet(a) ==
    /\ a \in creating
    /\ creating' = creating \ {a}
    /\ wallets' = wallets \cup {a}
    /\ UNCHANGED <<queue, handler, messages, routers, saved, ghosts, crashes>>

\* A publication of the history is rejected, or its process exits between two of
\* them: some are out, and the message is taken again.
HistoryInterrupted(a) ==
    /\ crashes < MaxCrashes
    /\ a \in Discovered \ (wallets \cup creating)
    /\ \E some \in SUBSET OldTxs(a) :
          queue' = queue \cup {TxDiscovered(t, "history") : t \in some}
    /\ crashes' = crashes + 1
    /\ UNCHANGED <<handler, messages, database, creating, ghosts>>

\* The save fails or its process exits: the message is taken again, and the
\* history published again.
CreationInterrupted(a) ==
    /\ crashes < MaxCrashes
    /\ a \in creating
    /\ creating' = creating \ {a}
    /\ crashes' = crashes + 1
    /\ UNCHANGED <<queue, handler, messages, database, ghosts>>

\* A faulty variant of the next definition: messages are acknowledged when they
\* are delivered.
Crash_FaultyAutoAck(p) ==
    /\ crashes < MaxCrashes
    /\ crashes' = crashes + 1
    /\ handler' = [h \in Handler |-> IF Home[h] = p THEN Idle ELSE handler[h]]
    /\ UNCHANGED <<queue, messages, database, creating, ghosts>>

\* A process exits: RabbitMQ requeues what its handlers had not acknowledged.
Crash(p) ==
    LET busy == {h \in Handler : Home[h] = p /\ Busy(h)}
    IN  /\ crashes < MaxCrashes
        /\ crashes' = crashes + 1
        /\ handler' = [h \in Handler |-> IF h \in busy THEN Idle ELSE handler[h]]
        /\ queue' = queue \cup {handler[h].msg : h \in busy}
        /\ UNCHANGED <<messages, database, creating, ghosts>>

Next ==
    \/ \E h \in Handler : Execute(h) \/ \E m \in queue : Take(h, m)
    \/ \E a \in Address : \/ PublishHistory(a) \/ HistoryInterrupted(a)
                          \/ CreateWallet(a) \/ CreationInterrupted(a)
    \/ \E p \in Process : Crash(p)

\* Handlers run as long as there is something to do, those of SaveWallet included.
Fairness ==
    /\ \A h \in Handler : WF_vars(Execute(h))
    /\ WF_vars(\E h \in Handler, m \in queue : Take(h, m))
    /\ \A a \in Address : WF_vars(PublishHistory(a)) /\ WF_vars(CreateWallet(a))

Spec     == Init /\ [][Next]_vars
FairSpec == Spec /\ Fairness
-----------------------------------------------------------------------------
TypeOK ==
    /\ queue \subseteq Message
    /\ handler \in [Handler -> HandlerState \cup {Idle}]
    /\ announced \subseteq Tx \X {"sender", "receiver"}
    /\ tokens \subseteq Tx \X Token
    /\ routers \subseteq Contract
    /\ creating \subseteq Address
    /\ wallets \subseteq Address
    /\ saved \subseteq Tx /\ known \subseteq Tx /\ overtaken \subseteq Tx
    /\ lost \subseteq Message
    /\ crashes \in Nat

\* What SaveTxOfInterest does besides saving t.
SideEffectsDone(t) ==
    /\ <<t, "sender">> \in announced
    /\ Kind[t] = "swap" =>
          /\ {t} \X Swapped[t] \subseteq tokens
          /\ Router[t] \in routers
          /\ Sender[t] = Receiver[t] => <<t, "receiver">> \in announced

\* EffectsFirst: a saved transaction whose sender was never found to be a known
\* wallet has had all its side effects, however many copies of it were executed,
\* cut short or discarded: a repeated execution does not save it half done.
EffectsFirst == \A t \in saved \ known : SideEffectsDone(t)

\* HandlersOK: what each phase of a handler says of the transaction it handles;
\* the inductive invariant behind EffectsFirst: the side effects are done one
\* after the other, and a crash leaves those already done.
HandlerOK(h) ==
    /\ handler[h].phase \in {"tokens", "router", "receiver"} => Kind[TxOf(h)] = "swap"
    /\ handler[h].phase \in {"sender", "router", "receiver"} /\ Kind[TxOf(h)] = "swap"
          => {TxOf(h)} \X Swapped[TxOf(h)] \subseteq tokens
    /\ handler[h].phase \in {"router", "receiver"} => <<TxOf(h), "sender">> \in announced
    /\ At(h, "receiver") => Router[TxOf(h)] \in routers
    /\ At(h, "saving") => TxOf(h) \in known \/ SideEffectsDone(TxOf(h))

HandlersOK == \A h \in Handler : HandlerOK(h)

\* A copy of t, announced with its block or published as an old transaction, that
\* is still going to be saved.
OnItsWay(t, origin) ==
    \/ TxDiscovered(t, origin) \in queue \/ TxProcessed(t, origin) \in queue
    \/ \E h \in Handler : /\ Busy(h)
                          /\ ~At(h, "acking")
                          /\ TxOf(h) = t
                          /\ handler[h].msg.origin = origin

Discarded(t, origin) ==
    TxDiscovered(t, origin) \in lost \/ TxProcessed(t, origin) \in lost

\* AnnouncedExplained: a transaction that was announced with its block, and that
\* saveTxIfApplies is to save for its value or for a followed sender, is saved or
\* on its way, or a failed execution discarded it: no crash, no second copy of it
\* and no wallet created meanwhile makes it disappear.
AnnouncedExplained ==
    \A t \in InBlocks \ Reverted : OfInterest(t) \/ Sender[t] \in Followed =>
        t \in saved \/ OnItsWay(t, "block") \/ Discarded(t, "block")

\* OldTxsExplained: once a wallet was found, each of its old transactions is saved
\* or on its way (SaveWallet.ts:117-118 relies on it: "when updating there is no
\* need to save again old txs"), unless an execution of it failed, or the pipeline
\* was faster than the wallet's save and dropped it as a stranger's.
OldTxsExplained ==
    \A t \in Tx \ Reverted : Sender[t] \in (creating \cup wallets) \ Followed =>
        t \in saved \cup overtaken \/ OnItsWay(t, "history") \/ Discarded(t, "history")

\* WalletsFound: the sender of every transaction saved becomes a wallet, and then
\* its old transactions reach an end: saved, discarded or overtaken.
WalletsFound ==
    \A t \in Tx : t \in saved ~>
        /\ Sender[t] \in wallets
        /\ \A u \in OldTxs(Sender[t]) \ Reverted :
              Sender[t] \notin Followed => u \in saved \cup overtaken \/ Discarded(u, "history")
=============================================================================
