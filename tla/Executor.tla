------------------------------ MODULE Executor -------------------------------
(* The message executor (Infrastructure/Broker/Executor.ts) over RabbitMQ: the *)
(* life of every copy of a message of one subscription (Channel), from the     *)
(* queue it is published to, through executions, retries with backoff, the     *)
(* dead queue and its recovery, until it is acknowledged or discarded.         *)
(*                                                                             *)
(* Consumers are OS processes; each runs the worker (start) and the retry      *)
(* manager (startRetryManager), and may subscribe to the dead queue            *)
(* (startDeadRecovery).  Every await in a handler is a step boundary: the      *)
(* execution, the publication that follows it, and the ack or nack.            *)
EXTENDS BrokerTopology, Naturals

CONSTANTS
    Msg,                \* messages published to the channel
    Slot,               \* room for copies: a bound on simultaneous copies
    Consumer,           \* consumer processes
    Channel,            \* the subscription name the executor is built with
    Declared,           \* the maxRetries each message is published with
    DefaultMaxRetries,  \* ExecutorMessage's default (10 in the code)
    Retriable,          \* options.retriable
    PublishMayFail,     \* whether the broker client may reject a publication
    MaxCrashes          \* bound on crashes of consumer processes

ASSUME ExecutorAssumption ==
    /\ Channel \in Subscription
    /\ DefaultMaxRetries \in Nat
    /\ Declared \in [Msg -> Nat]
    /\ Retriable \in BOOLEAN
    /\ PublishMayFail \in BOOLEAN
    /\ MaxCrashes \in Nat
    /\ "broker" \notin Consumer

VARIABLES
    copy,        \* what is in each slot: a copy of a message, or NoCopy
    recovering,  \* consumers subscribed to the dead queue
    submitted,   \* messages published so far
    done,        \* ghost: messages some execution completed
    discarded,   \* ghost: messages a copy of which was nacked (rascal's
                 \* default recovery discards it)
    unacked,     \* ghost: messages a consumer was about to ack() when it died
    crashes      \* how many crashes happened

vars == <<copy, recovering, submitted, done, discarded, unacked, crashes>>
-----------------------------------------------------------------------------
retryChannel   == AddRetryPrefix(Channel)
deadChannel    == AddDeadPrefix(Channel)
processChannel == AddDirectPubPrefix(Channel)

WorkQueue  == SubscriptionQueue[Plain(Channel)]
RetryQueue == SubscriptionQueue[retryChannel]
DeadQueue  == SubscriptionQueue[deadChannel]

\* Where a copy's handler stands.
\*   ready      in its queue, not delivered
\*   executing  in executionWrapper, awaiting execute
\*   retrying   in retryHandler, awaiting the publication of the retry message
\*   burying    awaiting the publication of the dead message
\*   waiting    in retryManager, republishing a message whose backoff runs
\*   resuming   in retryManager, sending the message back to the worker
\*   reviving   in the dead queue's callback, sending it back to the worker
\*   acking, nacking   the handler is about to call ack() or nack()
Publishing == {"retrying", "burying", "waiting", "resuming", "reviving"}
Phase == Publishing \cup {"ready", "executing", "acking", "nacking"}

\* retries and maxRetries travel in the message; ripe says that processAfter
\* has passed.  Two ghosts follow the message through its copies: tries, the
\* executions that failed since it was submitted or revived, and direct, that
\* the last one failed with DirectToDead.
Copy == [id : Msg, queue : Queues, phase : Phase, owner : Consumer \cup {"broker"},
         retries : Nat, maxRetries : Nat, ripe : BOOLEAN,
         tries : Nat, direct : BOOLEAN]

NoCopy == [phase |-> "free"]

Used   == {s \in Slot : copy[s].phase # "free"}
Held(m) == \E s \in Used : copy[s].id = m

\* A new ExecutorMessage with the default options.
ExecutorMessage(m, queue) ==
    [id |-> m, queue |-> queue, phase |-> "ready", owner |-> "broker",
     retries |-> 0, maxRetries |-> DefaultMaxRetries, ripe |-> TRUE,
     tries |-> 0, direct |-> FALSE]

Init ==
    /\ copy = [s \in Slot |-> NoCopy]
    /\ recovering = {}
    /\ submitted = {}
    /\ done = {}
    /\ discarded = {}
    /\ unacked = {}
    /\ crashes = 0
-----------------------------------------------------------------------------
\* A use case publishes m to the exchange; the binding puts it on every queue
\* the publication reaches, which is the worker's.
Submit(m) ==
    /\ m \notin submitted
    /\ \E p \in DOMAIN ExchangePublication : WorkQueue \in QueuesReached(Plain(p))
    /\ \E s \in Slot \ Used :
          copy' = [copy EXCEPT ![s] =
                     [ExecutorMessage(m, WorkQueue) EXCEPT !.maxRetries = Declared[m]]]
    /\ submitted' = submitted \cup {m}
    /\ UNCHANGED <<recovering, done, discarded, unacked, crashes>>

\* The broker hands a ready copy to a consumer subscribed to its queue, and the
\* callback runs up to its first await in phase p.
Ready(s, queue) == copy[s].phase = "ready" /\ copy[s].queue = queue

Receive(s, c, p) ==
    /\ copy' = [copy EXCEPT ![s].phase = p, ![s].owner = c]
    /\ UNCHANGED <<recovering, submitted, done, discarded, unacked, crashes>>

\* executionWrapper calls execute.
DeliverWork(s, c) ==
    /\ Ready(s, WorkQueue)
    /\ Receive(s, c, "executing")

\* Faulty variants (_Faulty names throughout) are plausible bugs of the definition
\* that follows them; each is substituted for it to show which property notices.
messageCanBeRetried_FaultyStrict(m)   == Retriable /\ m.retries < m.maxRetries
messageCanBeRetried_FaultyLenient(m)  == Retriable /\ m.retries <= m.maxRetries + 1
messageCanBeRetried(m) == Retriable /\ m.retries <= m.maxRetries

\* The backoff is not awaited.
DeliverRetry_FaultyHasty(s, c) ==
    /\ Ready(s, RetryQueue)
    /\ Receive(s, c, IF messageCanBeRetried(copy[s]) THEN "resuming" ELSE "burying")

\* retryManager: bury, wait or resume, in the order of the code's tests.
DeliverRetry(s, c) ==
    /\ Ready(s, RetryQueue)
    /\ \/ ~messageCanBeRetried(copy[s]) /\ Receive(s, c, "burying")
       \/ /\ messageCanBeRetried(copy[s])
          /\ \/ ~copy[s].ripe /\ Receive(s, c, "waiting")
             \/ copy[s].ripe /\ Receive(s, c, "resuming")

\* The dead queue's callback.  The amount does not occur: once msgCount reaches it
\* the callback only logs instead of counting on, and the subscription goes on.
DeliverDead(s, c) ==
    /\ c \in recovering
    /\ Ready(s, DeadQueue)
    /\ Receive(s, c, "reviving")

Deliver(s, c) == DeliverWork(s, c) \/ DeliverRetry(s, c) \/ DeliverDead(s, c)
-----------------------------------------------------------------------------
\* A handler step that only moves one copy to another phase.
Become(s, new) ==
    /\ copy' = [copy EXCEPT ![s] = new]
    /\ UNCHANGED <<recovering, submitted, discarded, unacked, crashes>>

\* execute resolves: the wrapper goes on to ack().
ExecuteOk(s) ==
    /\ copy[s].phase = "executing"
    /\ Become(s, [copy[s] EXCEPT !.phase = "acking"])
    /\ done' = done \cup {copy[s].id}

\* The error is swallowed and the wrapper acknowledges.
ExecuteFail_FaultySwallowed(s) ==
    /\ copy[s].phase = "executing"
    /\ Become(s, [copy[s] EXCEPT !.phase = "acking", !.tries = @ + 1])
    /\ UNCHANGED done

\* execute rejects: retryHandler publishes a retry message.
ExecuteFail(s) ==
    /\ copy[s].phase = "executing"
    /\ Become(s, [copy[s] EXCEPT !.phase = "retrying", !.tries = @ + 1])
    /\ UNCHANGED done

\* execute rejects with DirectToDead: retryHandler publishes a dead message.
ExecuteDirectToDead(s) ==
    /\ copy[s].phase = "executing"
    /\ Become(s, [copy[s] EXCEPT !.phase = "burying", !.tries = @ + 1, !.direct = TRUE])
    /\ UNCHANGED done

\* The name the handler publishes to in each phase.
TargetChannel ==
    [retrying |-> retryChannel, waiting |-> retryChannel, burying |-> deadChannel,
     resuming |-> processChannel, reviving |-> processChannel]

\* A waiting message is published with a new backoff.
Republished_FaultyRearmed(m) ==
    LET fresh == ExecutorMessage(m.id, QueuePublication[TargetChannel[m.phase]])
    IN  CASE m.phase \in {"retrying", "waiting"} ->
               [fresh EXCEPT !.retries = m.retries + (IF m.phase = "waiting" THEN 0 ELSE 1),
                             !.ripe = FALSE, !.tries = m.tries]
          [] m.phase = "burying" ->
               [fresh EXCEPT !.tries = m.tries, !.direct = m.direct]
          [] m.phase = "resuming" ->
               [fresh EXCEPT !.retries = m.retries, !.tries = m.tries]
          [] OTHER -> fresh

\* The message the handler publishes.  Note that a retry message is built from
\* {retries, processAfter, error} only: its maxRetries is the default one.
Republished(m) ==
    LET fresh == ExecutorMessage(m.id, QueuePublication[TargetChannel[m.phase]])
    IN  CASE m.phase = "retrying" ->
               [fresh EXCEPT !.retries = m.retries + 1, !.ripe = FALSE, !.tries = m.tries]
          [] m.phase = "burying" ->
               [fresh EXCEPT !.tries = m.tries, !.direct = m.direct]
          [] m.phase \in {"waiting", "resuming"} ->
               [fresh EXCEPT !.retries = m.retries, !.maxRetries = m.maxRetries,
                             !.ripe = m.ripe, !.tries = m.tries]
          [] OTHER -> fresh

\* The original goes back to its queue instead of being acknowledged.
PublishOk_FaultyRequeued(s) ==
    /\ copy[s].phase \in Publishing
    /\ PublicationDeclared(TargetChannel[copy[s].phase])
    /\ \E t \in Slot \ Used :
          copy' = [copy EXCEPT ![t] = Republished(copy[s]),
                               ![s].phase = "ready", ![s].owner = "broker"]
    /\ UNCHANGED <<recovering, submitted, done, discarded, unacked, crashes>>

\* The publication is resolved, and ack is next.
PublishOk(s) ==
    /\ copy[s].phase \in Publishing
    /\ PublicationDeclared(TargetChannel[copy[s].phase])
    /\ \E t \in Slot \ Used :
          copy' = [copy EXCEPT ![t] = Republished(copy[s]), ![s].phase = "acking"]
    /\ UNCHANGED <<recovering, submitted, done, discarded, unacked, crashes>>

\* The rejection is acknowledged: .catch(ack).
PublishRejected_FaultyAcked(s) ==
    /\ copy[s].phase \in Publishing
    /\ PublishMayFail \/ ~PublicationDeclared(TargetChannel[copy[s].phase])
    /\ Become(s, [copy[s] EXCEPT !.phase = "acking"])
    /\ UNCHANGED done

\* The publication is rejected, by an unknown name or by the broker client, and
\* nack is next.
PublishRejected(s) ==
    /\ copy[s].phase \in Publishing
    /\ PublishMayFail \/ ~PublicationDeclared(TargetChannel[copy[s].phase])
    /\ Become(s, [copy[s] EXCEPT !.phase = "nacking"])
    /\ UNCHANGED done

\* ack(): the broker forgets this copy.
Ack(s) ==
    /\ copy[s].phase = "acking"
    /\ Become(s, NoCopy)
    /\ UNCHANGED done

\* nack(error) without recovery options: the broker discards this copy.
Nack(s) ==
    /\ copy[s].phase = "nacking"
    /\ copy' = [copy EXCEPT ![s] = NoCopy]
    /\ discarded' = discarded \cup {copy[s].id}
    /\ UNCHANGED <<recovering, submitted, done, unacked, crashes>>

Handle(s) ==
    \/ ExecuteOk(s) \/ ExecuteFail(s) \/ ExecuteDirectToDead(s)
    \/ PublishOk(s) \/ PublishRejected(s) \/ Ack(s) \/ Nack(s)
-----------------------------------------------------------------------------
\* The backoff of a retry message elapses (processAfter passes) while the
\* message still waits.
Ripen(s) ==
    /\ copy[s].phase \in {"ready", "waiting"}
    /\ ~copy[s].ripe
    /\ copy' = [copy EXCEPT ![s].ripe = TRUE]
    /\ UNCHANGED <<recovering, submitted, done, discarded, unacked, crashes>>

BackoffElapses(m) == \E s \in Used : copy[s].id = m /\ Ripen(s)

\* The daily cron or the revive_dead_msgs script.
startDeadRecovery(c) ==
    /\ c \notin recovering
    /\ recovering' = recovering \cup {c}
    /\ UNCHANGED <<copy, submitted, done, discarded, unacked, crashes>>

\* A consumer process dies (SIGTERM handlers call process.exit at once) and is
\* restarted: what it had not acknowledged goes back to its queue, and the new
\* process subscribes to the work and retry queues only.  (Bounds: MaxCrashes,
\* and a slot must be free, so that the copies a crash revives never fill all
\* slots with handlers waiting for room to publish.)
Crash(c) ==
    /\ crashes < MaxCrashes
    /\ Used # Slot
    /\ copy' = [s \in Slot |->
                  IF s \in Used /\ copy[s].owner = c
                  THEN [copy[s] EXCEPT !.phase = "ready", !.owner = "broker"]
                  ELSE copy[s]]
    /\ unacked' = unacked \cup
         {copy[s].id : s \in {u \in Used : copy[u].owner = c /\ copy[u].phase = "acking"}}
    /\ recovering' = recovering \ {c}
    /\ crashes' = crashes + 1
    /\ UNCHANGED <<submitted, done, discarded>>

Next ==
    \/ \E m \in Msg : Submit(m)
    \/ \E s \in Slot, c \in Consumer : Deliver(s, c)
    \/ \E s \in Slot : Handle(s) \/ Ripen(s)
    \/ \E c \in Consumer : startDeadRecovery(c) \/ Crash(c)

Spec == Init /\ [][Next]_vars

\* The broker delivers what is ready while a consumer is subscribed, a started
\* handler goes on, and time passes.  Nothing forces an execution to succeed, a
\* message to be submitted or the recovery to be started.
Fairness ==
    /\ \A s \in Slot : WF_vars(\E c \in Consumer : Deliver(s, c))
    /\ \A s \in Slot : WF_vars(Handle(s))
    /\ \A m \in Msg : WF_vars(BackoffElapses(m))

FairSpec == Spec /\ Fairness
-----------------------------------------------------------------------------
TypeOK ==
    /\ copy \in [Slot -> Copy \cup {NoCopy}]
    /\ recovering \subseteq Consumer
    /\ submitted \subseteq Msg
    /\ done \subseteq Msg
    /\ discarded \subseteq Msg
    /\ unacked \subseteq Msg
    /\ crashes \in Nat

\* A copy the broker still owes to somebody: everything but a copy whose work is
\* over and whose ack is on its way.
Live(m) == \E s \in Used : copy[s].id = m /\ copy[s].phase # "acking"

\* Every name the executor publishes to exists, and publishing does not fail.
ReliablePublish ==
    /\ ~PublishMayFail
    /\ \A p \in Publishing : PublicationDeclared(TargetChannel[p])

\* NoSilentLoss: whatever crashes and retries happen, a submitted message is
\* completed, or was explicitly discarded by a nack, or a live copy of it is in
\* some queue: publishing before acknowledging never leaves a gap.
NoSilentLoss == \A m \in submitted : m \in done \cup discarded \/ Live(m)

\* NoLoss: with a reliable publication nothing is ever discarded, so a message
\* that was not completed is still held (docs/ArchitectureOverview.md:2).
NoLoss == \A m \in submitted : m \in done \/ Live(m)

\* ExactlyOnce: unless a process died between the end of an execution (or of the
\* publication that follows it) and its ack(), a message has one live copy at
\* most, so that two executions of it never overlap, and none any more once it
\* was completed or discarded: retries, burials and revivals repeat nothing.
ExactlyOnce ==
    \A s, u \in Used :
        copy[s].phase # "acking" /\ copy[u].id = copy[s].id /\ copy[s].id \notin unacked =>
            /\ copy[s].id \notin done \cup discarded
            /\ s # u => copy[u].phase = "acking"

\* OwnQueues: the copies of this executor's messages only ever sit in its own
\* three queues, where somebody is subscribed to them (the direct publication
\* must not reach another subscriber: ConfigCreation.ts:116-118).
OwnQueues == \A s \in Used : copy[s].queue \in {WorkQueue, RetryQueue, DeadQueue}

\* BuriedOnlyWhenExhausted: a message reaches the dead queue only after the
\* handler failed more often than maxRetries allows in this life, or failed
\* with DirectToDead.
BuriedOnlyWhenExhausted ==
    \A s \in Used : copy[s].queue = DeadQueue =>
        \/ copy[s].direct
        \/ ~Retriable /\ copy[s].tries > 0
        \/ copy[s].tries > DefaultMaxRetries

\* BudgetRespected: one life of a message is executed at most
\* DefaultMaxRetries + 1 times, plus one for every crash that made the broker
\* deliver an unacknowledged copy again.
BudgetRespected ==
    \A s \in Used : copy[s].tries <= DefaultMaxRetries + 1 + crashes

\* BackoffRespected: the worker never sees a retried message before its
\* processAfter, however often the retry manager put it back meanwhile.
BackoffRespected ==
    \A s \in Used : copy[s].queue = WorkQueue => copy[s].ripe

\* CopyOK: what holds of each copy c when k crashes have happened; the inductive
\* invariant behind the four properties above.  Each queue fixes what the message
\* in it has been through, and each phase what its handler has established:
\* a copy on the work queue is ripe and within its budget, a copy on the retry
\* queue failed at least as often as its retries say and carries the default
\* maxRetries, a copy about to be buried has run out of it, and one about to be
\* discarded failed at least once.
CopyOK(c, k) ==
    /\ c.phase \in {"executing", "retrying"} => c.queue = WorkQueue
    /\ c.phase \in {"waiting", "resuming"} => c.queue = RetryQueue
    /\ c.phase = "reviving" => c.queue = DeadQueue
    /\ c.phase = "resuming" => c.ripe /\ messageCanBeRetried(c)
    /\ c.phase = "burying" =>
          \/ c.queue = WorkQueue /\ c.direct
          \/ c.queue = RetryQueue /\ ~messageCanBeRetried(c)
    /\ c.queue \in {WorkQueue, RetryQueue, DeadQueue}
    /\ c.queue = WorkQueue =>
          /\ c.ripe
          /\ c.retries <= DefaultMaxRetries
          /\ c.tries <= c.retries + k + (IF c.phase \in {"ready", "executing"} THEN 0 ELSE 1)
    /\ c.queue = RetryQueue =>
          /\ 0 < c.retries /\ c.retries <= c.tries
          /\ c.retries <= DefaultMaxRetries + 1
          /\ c.tries <= c.retries + k
          /\ c.maxRetries = DefaultMaxRetries
    /\ c.queue = DeadQueue =>
          /\ c.tries <= DefaultMaxRetries + 1 + k
          /\ c.direct \/ (~Retriable /\ c.tries > 0) \/ c.tries > DefaultMaxRetries
    /\ c.phase = "retrying" => c.retries < c.tries
    /\ c.queue = WorkQueue => c.retries <= c.tries
    /\ c.direct \/ c.phase = "nacking" => c.tries > 0

CopiesOK == \A s \in Used : CopyOK(copy[s], crashes)

\* Settles: every submitted message gets an outcome: completed, buried or
\* discarded (no message is retried or kept waiting for ever before its budget is
\* spent; what a recovery does with it after its burial is another life).
Settles ==
    \A m \in Msg : m \in submitted ~>
        \/ m \in done \cup discarded
        \/ \E s \in Used : copy[s].id = m /\ copy[s].queue = DeadQueue

\* Drains: where no recovery of dead messages goes on for ever, no copy is in flight
\* in the end: every copy left is ready in the dead queue, and every retry and
\* redelivery has run its course.  A recovery, once started, ends only with its
\* process (Executor.ts:216): while it goes on, a message that keeps failing is
\* executed, retried, buried and revived again and again.
Drains ==
    <>[](recovering = {}) =>
        <>[](\A s \in Used : copy[s].queue = DeadQueue /\ copy[s].phase = "ready")

\* The executor implements at-least-once delivery.
parked == {m \in Msg : \E s \in Used : copy[s].id = m /\ copy[s].queue = DeadQueue}

Promise == INSTANCE AtLeastOnce
    WITH held <- {m \in Msg : Held(m)}, dropped <- discarded,
         MayDrop <- ~ReliablePublish

\* Implements: safety part of the promise: a message leaves the broker only once
\* it is completed (or discarded, where publications can fail).
Implements == Promise!Spec

\* ImplementsFairly: the promise with its progress condition.
ImplementsFairly == Promise!FairSpec
=============================================================================
