--------------------------- MODULE BrokerTopology ---------------------------
(* The RabbitMQ topology that createBrokerConnection declares: queues,         *)
(* subscriptions (a name a consumer subscribes to, and the queue behind it),   *)
(* publications (a name a producer publishes to, and what it reaches) and the  *)
(* bindings between exchanges and queues.                                      *)
(*                                                                             *)
(* The code builds the auxiliary names by prefixing a base name.  Here a name  *)
(* is the pair of its prefix and its base, so that "_retry_save_token" (a      *)
(* subscription and a publication) and "_retry_save_token" (a queue) are       *)
(* compared as the code compares them.                                         *)

Plain(base)              == [prefix |-> "", base |-> base]
AddRetryPrefix(base)     == [prefix |-> "_retry_", base |-> base]
AddDeadPrefix(base)      == [prefix |-> "_dead_", base |-> base]
AddDirectPubPrefix(base) == [prefix |-> "_direct_", base |-> base]

\* enum Queue
QueueName == {"find_direct_tx", "find_internal_tx", "save_wallet",
              "save_tx_of_interest", "process_tx", "save_token"}

\* Every queue is declared together with its retry and its dead queue.
Queues == UNION {{Plain(q), AddRetryPrefix(q), AddDeadPrefix(q)} : q \in QueueName}

\* const subscriptions: the subscription names and the queues they read.
SubscribedQueue ==
    [discovered_tx_to_process |-> "process_tx",
     tx_processed             |-> "save_tx_of_interest",
     save_token               |-> "save_token",
     save_wallet              |-> "save_wallet"]

\* enum Subscription
Subscription == DOMAIN SubscribedQueue

\* deadAndRetrySubs: the two auxiliary subscriptions of every subscription.
DeadAndRetrySubs ==
    UNION {{AddRetryPrefix(s), AddDeadPrefix(s)} : s \in Subscription}

\* subscriptionsWithRetries: the queue behind every subscription name.
SubscriptionQueue ==
    [n \in DeadAndRetrySubs \cup {Plain(s) : s \in Subscription} |->
        [prefix |-> n.prefix, base |-> SubscribedQueue[n.base]]]

\* A faulty variant of the next definition: the direct publication keeps the
\* prefix of the queue name it was derived from.
QueuePublication_FaultyPrefix ==
    LET direct == {AddDirectPubPrefix(SubscriptionQueue[n].base) : n \in DeadAndRetrySubs}
    IN  [n \in DeadAndRetrySubs \cup direct |->
            IF n \in direct THEN n ELSE SubscriptionQueue[n]]

\* The publications that go straight to a queue.  The retry and dead ones are
\* named after the SUBSCRIPTION; the direct one is named after the QUEUE.
QueuePublication ==
    LET direct == {AddDirectPubPrefix(SubscriptionQueue[n].base) : n \in DeadAndRetrySubs}
    IN  [n \in DeadAndRetrySubs \cup direct |->
            IF n \in direct THEN Plain(n.base) ELSE SubscriptionQueue[n]]

\* publicationsSetup: the exchange and the routing key of every publication.
ExchangePublication ==
    [tx_dicovered      |-> <<"tx", "tx.evt.discovered">>,
     tx_processed      |-> <<"tx", "tx.evt.processed">>,
     tx_saved          |-> <<"tx", "tx.evt.saved">>,
     token_discovered  |-> <<"token", "token.evt.discovered">>,
     wallet_discovered |-> <<"wallet", "wallet.evt.wallet_discovered">>,
     wallet_saved      |-> <<"wallet", "wallet.evt.wallet_saved">>,
     wallet_updated    |-> <<"wallet", "wallet.evt.wallet_updated">>]

\* bindingsSetup: exchange, routing key, queue.
Bindings ==
    {<<"tx", "tx.evt.discovered", "process_tx">>,
     <<"tx", "tx.evt.processed", "save_tx_of_interest">>,
     <<"token", "token.evt.discovered", "save_token">>,
     <<"wallet", "wallet.evt.wallet_discovered", "save_wallet">>}

\* The broker client knows the publication; publishing to any other name is
\* rejected ("Unknown publication").
PublicationDeclared(name) ==
    \/ name \in DOMAIN QueuePublication
    \/ name.prefix = "" /\ name.base \in DOMAIN ExchangePublication

\* The queues a message published under a declared name is put on.
QueuesReached(name) ==
    IF name \in DOMAIN QueuePublication
    THEN {QueuePublication[name]}
    ELSE {Plain(b[3]) : b \in {b \in Bindings :
                                  <<b[1], b[2]>> = ExchangePublication[name.base]}}
=============================================================================
