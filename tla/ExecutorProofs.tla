--------------------------- MODULE ExecutorProofs ----------------------------
(* Theorems about Executor, for every set of messages, slots and consumers and *)
(* every value of the other constants.                                         *)
EXTENDS Executor, TLAPS

-----------------------------------------------------------------------------
(* The topology: the names the executor uses lead to declared queues.          *)

LEMMA SubscribedQueueType ==
    ASSUME NEW s \in Subscription
    PROVE  SubscribedQueue[s] \in QueueName
BY DEF Subscription, SubscribedQueue, QueueName

LEMMA PrefixedQueues ==
    ASSUME NEW q \in QueueName
    PROVE  /\ Plain(q) \in Queues
           /\ AddRetryPrefix(q) \in Queues
           /\ AddDeadPrefix(q) \in Queues
BY DEF Queues

LEMMA SubscriptionQueueType ==
    ASSUME NEW s \in Subscription
    PROVE  /\ SubscriptionQueue[Plain(s)] = Plain(SubscribedQueue[s])
           /\ SubscriptionQueue[AddRetryPrefix(s)] = AddRetryPrefix(SubscribedQueue[s])
           /\ SubscriptionQueue[AddDeadPrefix(s)] = AddDeadPrefix(SubscribedQueue[s])
BY DEF SubscriptionQueue, DeadAndRetrySubs, Plain, AddRetryPrefix, AddDeadPrefix

LEMMA OwnQueueTypes ==
    ASSUME ExecutorAssumption
    PROVE  WorkQueue \in Queues /\ RetryQueue \in Queues /\ DeadQueue \in Queues
BY SubscribedQueueType, PrefixedQueues, SubscriptionQueueType
   DEF ExecutorAssumption, WorkQueue, RetryQueue, DeadQueue, retryChannel, deadChannel

(* The retry and dead publications reach the queue the subscription of the     *)
(* same name reads; the direct one, when it is declared at all, reaches the    *)
(* worker's queue.                                                             *)
LEMMA PublicationQueues ==
    ASSUME ExecutorAssumption
    PROVE  /\ QueuePublication[retryChannel] = RetryQueue
           /\ QueuePublication[deadChannel] = DeadQueue
           /\ PublicationDeclared(processChannel) =>
                 QueuePublication[processChannel] = WorkQueue
<1> DEFINE direct == {AddDirectPubPrefix(SubscriptionQueue[n].base) : n \in DeadAndRetrySubs}
<1>1. Channel \in Subscription
  BY DEF ExecutorAssumption
<1>2. retryChannel \in DeadAndRetrySubs /\ deadChannel \in DeadAndRetrySubs
  BY <1>1 DEF DeadAndRetrySubs, retryChannel, deadChannel
<1>3. \A n \in DeadAndRetrySubs : n.prefix \in {"_retry_", "_dead_"}
  BY DEF DeadAndRetrySubs, AddRetryPrefix, AddDeadPrefix
<1>4. \A n \in direct : n.prefix = "_direct_"
  BY DEF AddDirectPubPrefix
<1>5. /\ QueuePublication[retryChannel] = RetryQueue
      /\ QueuePublication[deadChannel] = DeadQueue
  BY <1>2, <1>3, <1>4 DEF QueuePublication, RetryQueue, DeadQueue
<1>6. ASSUME PublicationDeclared(processChannel)
      PROVE  QueuePublication[processChannel] = WorkQueue
  <2>1. processChannel.prefix = "_direct_" /\ processChannel.base = Channel
    BY DEF processChannel, AddDirectPubPrefix
  <2>2. processChannel \in direct
    BY <1>3, <1>6, <2>1 DEF PublicationDeclared, QueuePublication
  <2>3. QueuePublication[processChannel] = Plain(Channel)
    BY <2>1, <2>2 DEF QueuePublication
  <2>4. PICK n \in DeadAndRetrySubs :
               processChannel = AddDirectPubPrefix(SubscriptionQueue[n].base)
    BY <2>2
  <2>5. SubscriptionQueue[n].base = Channel
    BY <2>1, <2>4 DEF AddDirectPubPrefix
  <2>6. PICK s \in Subscription : n = AddRetryPrefix(s) \/ n = AddDeadPrefix(s)
    BY DEF DeadAndRetrySubs
  <2>7. \/ SubscriptionQueue[n] = AddRetryPrefix(SubscribedQueue[s])
        \/ SubscriptionQueue[n] = AddDeadPrefix(SubscribedQueue[s])
    BY <2>6, SubscriptionQueueType
  <2>8. SubscriptionQueue[n].base = SubscribedQueue[s]
    BY <2>7 DEF AddRetryPrefix, AddDeadPrefix
  <2>9. SubscribedQueue[Channel] = Channel
    BY <1>1, <2>5, <2>8 DEF Subscription, SubscribedQueue
  <2>10. QED
    BY <1>1, <2>3, <2>9, SubscriptionQueueType DEF WorkQueue
<1>7. QED
  BY <1>5, <1>6

(* What a handler publishes goes to one of the executor's own queues.          *)
LEMMA TargetQueues ==
    ASSUME ExecutorAssumption, NEW p \in Publishing,
           PublicationDeclared(TargetChannel[p])
    PROVE  QueuePublication[TargetChannel[p]] =
              IF p \in {"retrying", "waiting"} THEN RetryQueue
              ELSE IF p = "burying" THEN DeadQueue ELSE WorkQueue
BY PublicationQueues DEF Publishing, TargetChannel

LEMMA QueuesDiffer ==
    ASSUME ExecutorAssumption
    PROVE  WorkQueue # RetryQueue /\ WorkQueue # DeadQueue /\ RetryQueue # DeadQueue
<1>1. Channel \in Subscription
  BY DEF ExecutorAssumption
<1>2. /\ WorkQueue = Plain(SubscribedQueue[Channel])
      /\ RetryQueue = AddRetryPrefix(SubscribedQueue[Channel])
      /\ DeadQueue = AddDeadPrefix(SubscribedQueue[Channel])
  BY <1>1, SubscriptionQueueType DEF WorkQueue, RetryQueue, DeadQueue, retryChannel, deadChannel
<1>3. WorkQueue.prefix = "" /\ RetryQueue.prefix = "_retry_" /\ DeadQueue.prefix = "_dead_"
  BY <1>2 DEF Plain, AddRetryPrefix, AddDeadPrefix
<1>4. QED
  BY <1>3

-----------------------------------------------------------------------------
(* One copy.                                                                   *)

\* The message a handler publishes is well formed and keeps its identity.
LEMMA RepublishedType ==
    ASSUME ExecutorAssumption, NEW m \in Copy, m.phase \in Publishing,
           PublicationDeclared(TargetChannel[m.phase])
    PROVE  /\ Republished(m) \in Copy
           /\ Republished(m).id = m.id
           /\ Republished(m).phase = "ready"
           /\ Republished(m).queue = QueuePublication[TargetChannel[m.phase]]
<1> DEFINE q == QueuePublication[TargetChannel[m.phase]]
<1>1. q \in Queues
  BY TargetQueues, OwnQueueTypes
<1>2. ExecutorMessage(m.id, q) \in Copy
  BY <1>1 DEF ExecutorMessage, Copy, Phase, ExecutorAssumption
<1>3. CASE m.phase = "retrying"
  <2>1. m.retries + 1 \in Nat /\ m.tries \in Nat
    BY DEF Copy
  <2>2. Republished(m) = [ExecutorMessage(m.id, q) EXCEPT
                            !.retries = m.retries + 1, !.ripe = FALSE, !.tries = m.tries]
    BY <1>3 DEF Republished
  <2>3. QED
    BY <1>2, <2>1, <2>2 DEF ExecutorMessage, Copy
<1>4. CASE m.phase = "burying"
  BY <1>2, <1>4 DEF Republished, ExecutorMessage, Copy
<1>5. CASE m.phase \in {"waiting", "resuming"}
  BY <1>2, <1>5 DEF Republished, ExecutorMessage, Copy
<1>6. CASE m.phase = "reviving"
  BY <1>2, <1>6 DEF Republished, ExecutorMessage, Copy
<1>7. QED
  BY <1>3, <1>4, <1>5, <1>6 DEF Publishing

\* An initial copy.
LEMMA SubmittedType ==
    ASSUME ExecutorAssumption, NEW m \in Msg
    PROVE  LET c == [ExecutorMessage(m, WorkQueue) EXCEPT !.maxRetries = Declared[m]]
           IN  c \in Copy /\ c.id = m /\ c.phase = "ready"
BY OwnQueueTypes DEF ExecutorMessage, Copy, Phase, ExecutorAssumption

\* The fields of a well-formed copy.
LEMMA CopyFields ==
    ASSUME NEW m \in Copy
    PROVE  /\ m.id \in Msg /\ m.queue \in Queues /\ m.phase \in Phase
           /\ m.retries \in Nat /\ m.maxRetries \in Nat /\ m.tries \in Nat
           /\ m.ripe \in BOOLEAN /\ m.direct \in BOOLEAN
           /\ m.phase # "free"
BY DEF Copy, Phase, Publishing

\* What a handler publishes is as the queue it goes to requires.
LEMMA RepublishedOK ==
    ASSUME ExecutorAssumption, NEW m \in Copy, m.phase \in Publishing,
           PublicationDeclared(TargetChannel[m.phase]),
           NEW k \in Nat, CopyOK(m, k)
    PROVE  CopyOK(Republished(m), k)
<1> DEFINE q == QueuePublication[TargetChannel[m.phase]]
<1> DEFINE fresh == ExecutorMessage(m.id, q)
<1> USE CopyFields, QueuesDiffer
<1>1. DefaultMaxRetries \in Nat
  BY DEF ExecutorAssumption
<1>3. CASE m.phase = "retrying"
  <2>1. Republished(m) = [fresh EXCEPT !.retries = m.retries + 1, !.ripe = FALSE,
                                       !.tries = m.tries]
    BY <1>3 DEF Republished
  <2>2. q = RetryQueue
    BY <1>3, TargetQueues
  <2>3. /\ Republished(m).queue = RetryQueue
        /\ Republished(m).phase = "ready"
        /\ Republished(m).retries = m.retries + 1
        /\ Republished(m).maxRetries = DefaultMaxRetries
        /\ Republished(m).tries = m.tries
    BY <2>1, <2>2 DEF ExecutorMessage
  <2>4. m.retries <= DefaultMaxRetries /\ m.tries <= m.retries + k + 1 /\ m.retries < m.tries
    BY <1>3 DEF CopyOK
  <2>5. QED
    BY <1>1, <2>3, <2>4 DEF CopyOK
<1>4. CASE m.phase = "burying"
  <2>1. Republished(m) = [fresh EXCEPT !.tries = m.tries, !.direct = m.direct]
    BY <1>4 DEF Republished
  <2>2. q = DeadQueue
    BY <1>4, TargetQueues
  <2>3. /\ Republished(m).queue = DeadQueue
        /\ Republished(m).phase = "ready"
        /\ Republished(m).tries = m.tries
        /\ Republished(m).direct = m.direct
    BY <2>1, <2>2 DEF ExecutorMessage
  <2>4. CASE m.queue = WorkQueue /\ m.direct
    BY <1>1, <1>4, <2>3, <2>4 DEF CopyOK
  <2>5. CASE m.queue = RetryQueue /\ ~messageCanBeRetried(m)
    BY <1>1, <1>4, <2>3, <2>5 DEF CopyOK, messageCanBeRetried, ExecutorAssumption
  <2>6. QED
    BY <1>4, <2>4, <2>5 DEF CopyOK
<1>5. CASE m.phase \in {"waiting", "resuming"}
  <2>1. Republished(m) = [fresh EXCEPT !.retries = m.retries, !.maxRetries = m.maxRetries,
                                       !.ripe = m.ripe, !.tries = m.tries]
    BY <1>5 DEF Republished
  <2>2. /\ Republished(m).queue = q
        /\ Republished(m).phase = "ready"
        /\ Republished(m).retries = m.retries
        /\ Republished(m).maxRetries = m.maxRetries
        /\ Republished(m).ripe = m.ripe
        /\ Republished(m).tries = m.tries
    BY <2>1 DEF ExecutorMessage
  <2>3. m.queue = RetryQueue
    BY <1>5 DEF CopyOK
  <2>4. CASE m.phase = "waiting"
    <3>1. q = RetryQueue
      BY <2>4, TargetQueues
    <3>2. QED
      BY <1>1, <2>2, <2>3, <3>1 DEF CopyOK
  <2>5. CASE m.phase = "resuming"
    <3>1. q = WorkQueue
      BY <2>5, TargetQueues
    <3>2. m.ripe /\ m.retries <= DefaultMaxRetries
      BY <2>3, <2>5 DEF CopyOK, messageCanBeRetried
    <3>3. QED
      BY <1>1, <2>2, <2>3, <3>1, <3>2 DEF CopyOK
  <2>6. QED
    BY <1>5, <2>4, <2>5
<1>6. CASE m.phase = "reviving"
  <2>1. Republished(m) = fresh
    BY <1>6 DEF Republished
  <2>2. q = WorkQueue
    BY <1>6, TargetQueues
  <2>3. QED
    BY <1>1, <2>1, <2>2 DEF CopyOK, ExecutorMessage
<1>7. QED
  BY <1>3, <1>4, <1>5, <1>6 DEF Publishing

-----------------------------------------------------------------------------
(* The inductive invariant TypeOK /\ CopiesOK.                                 *)

LEMMA InSlot ==
    ASSUME TypeOK, NEW s \in Slot
    PROVE  /\ copy[s] \in Copy \cup {NoCopy}
           /\ copy[s].phase # "free" => copy[s] \in Copy
BY DEF TypeOK, NoCopy

\* Changing one slot keeps the others as they were.
LEMMA ReplaceOne ==
    ASSUME TypeOK, CopiesOK, NEW s \in Slot, NEW new \in Copy \cup {NoCopy},
           new.phase # "free" => CopyOK(new, crashes),
           copy' = [copy EXCEPT ![s] = new], crashes' = crashes
    PROVE  copy' \in [Slot -> Copy \cup {NoCopy}] /\ CopiesOK'
<1>1. copy' \in [Slot -> Copy \cup {NoCopy}]
  BY DEF TypeOK
<1>2. ASSUME NEW t \in Slot, copy'[t].phase # "free"
      PROVE  CopyOK(copy'[t], crashes)
  <2>1. CASE t = s
    BY <1>2, <2>1 DEF TypeOK
  <2>2. CASE t # s
    BY <1>2, <2>2 DEF TypeOK, CopiesOK, Used
  <2>3. QED
    BY <2>1, <2>2
<1>3. QED
  BY <1>1, <1>2 DEF CopiesOK, Used

LEMMA SubmitStep ==
    ASSUME ExecutorAssumption, TypeOK, CopiesOK, NEW m \in Msg, Submit(m)
    PROVE  TypeOK' /\ CopiesOK'
<1> DEFINE new == [ExecutorMessage(m, WorkQueue) EXCEPT !.maxRetries = Declared[m]]
<1>1. PICK s \in Slot : copy' = [copy EXCEPT ![s] = new]
  BY DEF Submit
<1>2. new \in Copy
  BY SubmittedType
<1>3. CopyOK(new, crashes)
  <2>1. /\ new.queue = WorkQueue /\ new.phase = "ready" /\ new.ripe
        /\ new.retries = 0 /\ new.tries = 0 /\ ~new.direct
    BY DEF ExecutorMessage
  <2>2. crashes \in Nat /\ DefaultMaxRetries \in Nat
    BY DEF TypeOK, ExecutorAssumption
  <2>3. QED
    BY <2>1, <2>2, QueuesDiffer DEF CopyOK
<1>4. crashes' = crashes
  BY DEF Submit
<1>5. copy' \in [Slot -> Copy \cup {NoCopy}] /\ CopiesOK'
  BY <1>1, <1>2, <1>3, <1>4, ReplaceOne
<1>6. QED
  BY <1>5 DEF TypeOK, Submit

LEMMA DeliverStep ==
    ASSUME ExecutorAssumption, TypeOK, CopiesOK,
           NEW s \in Slot, NEW c \in Consumer, Deliver(s, c)
    PROVE  TypeOK' /\ CopiesOK'
<1>1. copy[s].phase = "ready" /\ copy[s] \in Copy
  BY InSlot DEF Deliver, DeliverWork, DeliverRetry, DeliverDead, Ready
<1>2. CopyOK(copy[s], crashes)
  BY <1>1 DEF CopiesOK, Used
<1>3. ASSUME NEW p \in Phase, p # "free", Receive(s, c, p),
             CopyOK([copy[s] EXCEPT !.phase = p, !.owner = c], crashes)
      PROVE  copy' \in [Slot -> Copy \cup {NoCopy}] /\ CopiesOK'
  <2> DEFINE new == [copy[s] EXCEPT !.phase = p, !.owner = c]
  <2>1. new \in Copy
    BY <1>1 DEF Copy
  <2>2. copy' = [copy EXCEPT ![s] = new] /\ crashes' = crashes
    BY <1>3 DEF Receive
  <2>3. QED
    BY <1>3, <2>1, <2>2, ReplaceOne
<1>4. ASSUME NEW p \in Phase
      PROVE  LET new == [copy[s] EXCEPT !.phase = p, !.owner = c]
             IN  /\ new.phase = p /\ new.queue = copy[s].queue
                 /\ new.retries = copy[s].retries /\ new.maxRetries = copy[s].maxRetries
                 /\ new.ripe = copy[s].ripe /\ new.tries = copy[s].tries
                 /\ new.direct = copy[s].direct
  BY <1>1 DEF Copy
<1>5. {"executing", "burying", "waiting", "resuming", "reviving"} \subseteq Phase
  BY DEF Phase, Publishing
<1> USE QueuesDiffer, CopyFields
<1>6. CASE DeliverWork(s, c)
  <2>1. CopyOK([copy[s] EXCEPT !.phase = "executing", !.owner = c], crashes)
    BY <1>1, <1>2, <1>4, <1>5, <1>6 DEF CopyOK, DeliverWork, Ready
  <2>2. QED
    BY <1>3, <1>5, <1>6, <2>1 DEF DeliverWork, TypeOK, Receive
<1>7. CASE DeliverRetry(s, c)
  <2>1. copy[s].queue = RetryQueue
    BY <1>7 DEF DeliverRetry, Ready
  <2>2. CASE ~messageCanBeRetried(copy[s]) /\ Receive(s, c, "burying")
    <3>1. CopyOK([copy[s] EXCEPT !.phase = "burying", !.owner = c], crashes)
      BY <1>1, <1>2, <1>4, <1>5, <2>1, <2>2 DEF CopyOK, messageCanBeRetried
    <3>2. QED
      BY <1>3, <1>5, <1>7, <2>2, <3>1 DEF DeliverRetry, TypeOK, Receive
  <2>3. CASE Receive(s, c, "waiting")
    <3>1. CopyOK([copy[s] EXCEPT !.phase = "waiting", !.owner = c], crashes)
      BY <1>1, <1>2, <1>4, <1>5, <2>1 DEF CopyOK
    <3>2. QED
      BY <1>3, <1>5, <1>7, <2>3, <3>1 DEF DeliverRetry, TypeOK, Receive
  <2>4. CASE messageCanBeRetried(copy[s]) /\ copy[s].ripe /\ Receive(s, c, "resuming")
    <3>1. CopyOK([copy[s] EXCEPT !.phase = "resuming", !.owner = c], crashes)
      BY <1>1, <1>2, <1>4, <1>5, <2>1, <2>4 DEF CopyOK, messageCanBeRetried
    <3>2. QED
      BY <1>3, <1>5, <1>7, <2>4, <3>1 DEF DeliverRetry, TypeOK, Receive
  <2>5. QED
    BY <1>7, <2>2, <2>3, <2>4 DEF DeliverRetry
<1>8. CASE DeliverDead(s, c)
  <2>1. CopyOK([copy[s] EXCEPT !.phase = "reviving", !.owner = c], crashes)
    BY <1>1, <1>2, <1>4, <1>5, <1>8 DEF CopyOK, DeliverDead, Ready
  <2>2. copy' \in [Slot -> Copy \cup {NoCopy}] /\ CopiesOK'
    BY <1>3, <1>5, <1>8, <2>1 DEF DeliverDead
  <2>3. QED
    BY <1>8, <2>2 DEF DeliverDead, TypeOK, Receive
<1>9. QED
  BY <1>6, <1>7, <1>8 DEF Deliver

\* Moving one copy to another phase, and nothing else about it.
LEMMA PhaseChange ==
    ASSUME ExecutorAssumption, TypeOK, CopiesOK, NEW s \in Slot,
           copy[s].phase \in {"executing"} \cup Publishing,
           NEW p \in {"acking", "nacking"},
           p = "nacking" => copy[s].phase \in Publishing
    PROVE  LET new == [copy[s] EXCEPT !.phase = p]
           IN  new \in Copy /\ new.id = copy[s].id /\ CopyOK(new, crashes)
<1> DEFINE new == [copy[s] EXCEPT !.phase = p]
<1>1. copy[s] \in Copy /\ CopyOK(copy[s], crashes)
  BY InSlot DEF CopiesOK, Used, Publishing
<1>2. new \in Copy
  BY <1>1 DEF Copy, Phase
<1>3. /\ new.phase = p /\ new.queue = copy[s].queue /\ new.id = copy[s].id
      /\ new.retries = copy[s].retries /\ new.maxRetries = copy[s].maxRetries
      /\ new.ripe = copy[s].ripe /\ new.tries = copy[s].tries
      /\ new.direct = copy[s].direct
  BY <1>1 DEF Copy
<1>4. crashes \in Nat /\ DefaultMaxRetries \in Nat
  BY DEF TypeOK, ExecutorAssumption
<1>5. p = "nacking" => copy[s].tries > 0
  <2>1. CASE copy[s].phase = "retrying"
    BY <1>1, <2>1, CopyFields DEF CopyOK
  <2>2. CASE copy[s].phase \in {"burying", "waiting", "resuming", "reviving"}
    BY <1>1, <1>4, <2>2, CopyFields, QueuesDiffer DEF CopyOK
  <2> QED
    BY <2>1, <2>2 DEF Publishing
<1>6. CopyOK(new, crashes)
  BY <1>1, <1>3, <1>4, <1>5, CopyFields DEF CopyOK
<1>7. QED
  BY <1>2, <1>3, <1>6

LEMMA HandleStep ==
    ASSUME ExecutorAssumption, TypeOK, CopiesOK, NEW s \in Slot, Handle(s)
    PROVE  TypeOK' /\ CopiesOK'
<1>1. copy[s].phase # "free" /\ copy[s] \in Copy /\ CopyOK(copy[s], crashes)
  BY InSlot DEF Handle, ExecuteOk, ExecuteFail, ExecuteDirectToDead, PublishOk,
                PublishRejected, Ack, Nack, Publishing, CopiesOK, Used
<1>2. crashes \in Nat /\ DefaultMaxRetries \in Nat
  BY DEF TypeOK, ExecutorAssumption
<1>3. CASE ExecuteOk(s)
  <2>1. copy' \in [Slot -> Copy \cup {NoCopy}] /\ CopiesOK'
    BY <1>3, PhaseChange, ReplaceOne DEF ExecuteOk, Become
  <2>2. done' \subseteq Msg
    BY <1>1, <1>3, CopyFields DEF ExecuteOk, TypeOK
  <2>3. QED
    BY <1>3, <2>1, <2>2 DEF ExecuteOk, Become, TypeOK
<1>4. CASE ExecuteFail(s)
  <2> DEFINE new == [copy[s] EXCEPT !.phase = "retrying", !.tries = @ + 1]
  <2>1. copy[s].phase = "executing"
    BY <1>4 DEF ExecuteFail
  <2>2. new \in Copy
    <3>1. copy[s].tries + 1 \in Nat
      BY <1>1, CopyFields
    <3>2. QED
      BY <1>1, <3>1 DEF Copy, Phase, Publishing
  <2>3. /\ new.phase = "retrying" /\ new.queue = copy[s].queue
        /\ new.retries = copy[s].retries /\ new.ripe = copy[s].ripe
        /\ new.tries = copy[s].tries + 1
    BY <1>1 DEF Copy
  <2>4. CopyOK(new, crashes)
    BY <1>1, <1>2, <2>1, <2>3, CopyFields, QueuesDiffer DEF CopyOK
  <2>5. copy' \in [Slot -> Copy \cup {NoCopy}] /\ CopiesOK'
    BY <1>4, <2>2, <2>4, ReplaceOne DEF ExecuteFail, Become
  <2>6. QED
    BY <1>4, <2>5 DEF ExecuteFail, Become, TypeOK
<1>5. CASE ExecuteDirectToDead(s)
  <2> DEFINE new == [copy[s] EXCEPT !.phase = "burying", !.tries = @ + 1, !.direct = TRUE]
  <2>1. copy[s].phase = "executing"
    BY <1>5 DEF ExecuteDirectToDead
  <2>2. new \in Copy
    <3>1. copy[s].tries + 1 \in Nat
      BY <1>1, CopyFields
    <3>2. QED
      BY <1>1, <3>1 DEF Copy, Phase, Publishing
  <2>3. /\ new.phase = "burying" /\ new.queue = copy[s].queue /\ new.direct
        /\ new.retries = copy[s].retries /\ new.ripe = copy[s].ripe
        /\ new.tries = copy[s].tries + 1
    BY <1>1 DEF Copy
  <2>4. CopyOK(new, crashes)
    BY <1>1, <1>2, <2>1, <2>3, CopyFields, QueuesDiffer DEF CopyOK
  <2>5. copy' \in [Slot -> Copy \cup {NoCopy}] /\ CopiesOK'
    BY <1>5, <2>2, <2>4, ReplaceOne DEF ExecuteDirectToDead, Become
  <2>6. QED
    BY <1>5, <2>5 DEF ExecuteDirectToDead, Become, TypeOK
<1>6. CASE PublishOk(s)
  <2> DEFINE new == Republished(copy[s])
  <2> DEFINE old == [copy[s] EXCEPT !.phase = "acking"]
  <2>1. PICK t \in Slot \ Used :
               copy' = [copy EXCEPT ![t] = new, ![s].phase = "acking"]
    BY <1>6 DEF PublishOk
  <2>2. s # t
    BY <1>1 DEF Used
  <2>3. new \in Copy /\ CopyOK(new, crashes)
    BY <1>1, <1>2, <1>6, RepublishedType, RepublishedOK DEF PublishOk
  <2>4. old \in Copy /\ CopyOK(old, crashes)
    BY <1>6, PhaseChange DEF PublishOk
  <2>5. /\ copy' \in [Slot -> Copy \cup {NoCopy}]
        /\ copy'[t] = new /\ copy'[s] = old
        /\ \A u \in Slot \ {s, t} : copy'[u] = copy[u]
    BY <2>1, <2>2, <2>3, <2>4 DEF TypeOK
  <2>6. crashes' = crashes
    BY <1>6 DEF PublishOk
  <2>7. CopiesOK'
    BY <2>3, <2>4, <2>5, <2>6 DEF CopiesOK, Used
  <2>8. QED
    BY <1>6, <2>5, <2>7 DEF PublishOk, TypeOK
<1>7. CASE PublishRejected(s)
  <2>1. copy' \in [Slot -> Copy \cup {NoCopy}] /\ CopiesOK'
    BY <1>7, PhaseChange, ReplaceOne DEF PublishRejected, Become
  <2>2. QED
    BY <1>7, <2>1 DEF PublishRejected, Become, TypeOK
<1>8. CASE Ack(s)
  <2>1. copy' \in [Slot -> Copy \cup {NoCopy}] /\ CopiesOK'
    BY <1>8, ReplaceOne DEF Ack, Become, NoCopy
  <2>2. QED
    BY <1>8, <2>1 DEF Ack, Become, TypeOK
<1>9. CASE Nack(s)
  <2>1. copy' \in [Slot -> Copy \cup {NoCopy}] /\ CopiesOK'
    BY <1>9, ReplaceOne DEF Nack, NoCopy
  <2>2. discarded' \subseteq Msg
    BY <1>1, <1>9, CopyFields DEF Nack, TypeOK
  <2>3. QED
    BY <1>9, <2>1, <2>2 DEF Nack, TypeOK
<1>10. QED
  BY <1>3, <1>4, <1>5, <1>6, <1>7, <1>8, <1>9 DEF Handle

LEMMA RipenStep ==
    ASSUME ExecutorAssumption, TypeOK, CopiesOK, NEW s \in Slot, Ripen(s)
    PROVE  TypeOK' /\ CopiesOK'
<1> DEFINE new == [copy[s] EXCEPT !.ripe = TRUE]
<1>1. copy[s].phase \in {"ready", "waiting"} /\ copy[s] \in Copy /\ CopyOK(copy[s], crashes)
  BY InSlot DEF Ripen, CopiesOK, Used
<1>2. new \in Copy
  BY <1>1 DEF Copy
<1>3. /\ new.phase = copy[s].phase /\ new.queue = copy[s].queue /\ new.ripe
      /\ new.retries = copy[s].retries /\ new.maxRetries = copy[s].maxRetries
      /\ new.tries = copy[s].tries /\ new.direct = copy[s].direct
  BY <1>1 DEF Copy
<1>4. CopyOK(new, crashes)
  BY <1>1, <1>3, CopyFields DEF CopyOK
<1>5. copy' \in [Slot -> Copy \cup {NoCopy}] /\ CopiesOK'
  BY <1>2, <1>4, ReplaceOne DEF Ripen
<1>6. QED
  BY <1>5 DEF Ripen, TypeOK

LEMMA CrashStep ==
    ASSUME ExecutorAssumption, TypeOK, CopiesOK, NEW c \in Consumer, Crash(c)
    PROVE  TypeOK' /\ CopiesOK'
<1>1. crashes \in Nat /\ crashes' = crashes + 1 /\ DefaultMaxRetries \in Nat
  BY DEF Crash, TypeOK, ExecutorAssumption
<1>2. ASSUME NEW s \in Slot
      PROVE  /\ copy'[s] \in Copy \cup {NoCopy}
             /\ copy'[s].phase # "free" => CopyOK(copy'[s], crashes + 1)
  <2> DEFINE old == copy[s]
  <2> DEFINE new == [old EXCEPT !.phase = "ready", !.owner = "broker"]
  <2>1. CASE s \in Used
    <3>1. old \in Copy /\ CopyOK(old, crashes)
      BY <2>1, InSlot DEF CopiesOK, Used
    <3>2. new \in Copy
      BY <3>1 DEF Copy, Phase
    <3>3. /\ new.phase = "ready" /\ new.queue = old.queue /\ new.ripe = old.ripe
          /\ new.retries = old.retries /\ new.maxRetries = old.maxRetries
          /\ new.tries = old.tries /\ new.direct = old.direct
      BY <3>1 DEF Copy
    <3>4. CopyOK(new, crashes + 1)
      BY <1>1, <3>1, <3>3, CopyFields, QueuesDiffer DEF CopyOK
    <3>5. CopyOK(old, crashes + 1)
      BY <1>1, <3>1, CopyFields, QueuesDiffer DEF CopyOK
    <3>6. copy'[s] \in {old, new}
      BY DEF Crash
    <3>7. QED
      BY <3>1, <3>2, <3>4, <3>5, <3>6
  <2>2. CASE s \notin Used
    BY <2>2, InSlot DEF Crash, Used
  <2>3. QED
    BY <2>1, <2>2
<1>3. copy' \in [Slot -> Copy \cup {NoCopy}]
  <2>1. copy' = [s \in Slot |-> copy'[s]]
    BY DEF Crash
  <2>2. QED
    BY <1>2, <2>1
<1>4. CopiesOK'
  BY <1>1, <1>2 DEF CopiesOK, Used
<1>5. /\ recovering' \subseteq Consumer /\ submitted' \subseteq Msg /\ done' \subseteq Msg
      /\ discarded' \subseteq Msg
  BY DEF Crash, TypeOK
<1>6. crashes' \in Nat
  BY <1>1
<1>7. unacked' \subseteq Msg
  <2>1. \A s \in Used : copy[s].id \in Msg
    BY InSlot, CopyFields DEF Used
  <2>2. QED
    BY <2>1 DEF Crash, TypeOK
<1>8. QED
  BY <1>3, <1>4, <1>5, <1>6, <1>7 DEF TypeOK

LEMMA NextStep ==
    ASSUME ExecutorAssumption, TypeOK, CopiesOK, [Next]_vars
    PROVE  TypeOK' /\ CopiesOK'
<1>1. CASE UNCHANGED vars
  BY <1>1 DEF vars, TypeOK, CopiesOK, Used
<1>2. ASSUME NEW c \in Consumer, startDeadRecovery(c)
      PROVE  TypeOK' /\ CopiesOK'
  BY <1>2 DEF startDeadRecovery, TypeOK, CopiesOK, Used
<1>3. ASSUME NEW m \in Msg, Submit(m)
      PROVE  TypeOK' /\ CopiesOK'
  BY <1>3, SubmitStep
<1>4. ASSUME NEW s \in Slot, NEW c \in Consumer, Deliver(s, c)
      PROVE  TypeOK' /\ CopiesOK'
  BY <1>4, DeliverStep
<1>5. ASSUME NEW s \in Slot, Handle(s)
      PROVE  TypeOK' /\ CopiesOK'
  BY <1>5, HandleStep
<1>6. ASSUME NEW s \in Slot, Ripen(s)
      PROVE  TypeOK' /\ CopiesOK'
  BY <1>6, RipenStep
<1>7. ASSUME NEW c \in Consumer, Crash(c)
      PROVE  TypeOK' /\ CopiesOK'
  BY <1>7, CrashStep
<1>8. QED
  BY <1>1, <1>2, <1>3, <1>4, <1>5, <1>6, <1>7 DEF Next

LEMMA InitOK ==
    ASSUME ExecutorAssumption, Init
    PROVE  TypeOK /\ CopiesOK
BY DEF Init, TypeOK, CopiesOK, Used, NoCopy

\* TypeCorrect: every copy, set and counter of the executor keeps its type.
THEOREM TypeCorrect == Spec => []TypeOK
<1>1. Init => TypeOK /\ CopiesOK
  BY ExecutorAssumption, InitOK
<1>2. TypeOK /\ CopiesOK /\ [Next]_vars => TypeOK' /\ CopiesOK'
  BY ExecutorAssumption, NextStep
<1>3. QED
  BY <1>1, <1>2, PTL DEF Spec

\* CopiesCorrect: what a queue and a handler's phase say about a copy is true.
THEOREM CopiesCorrect == Spec => []CopiesOK
<1>1. Init => TypeOK /\ CopiesOK
  BY ExecutorAssumption, InitOK
<1>2. TypeOK /\ CopiesOK /\ [Next]_vars => TypeOK' /\ CopiesOK'
  BY ExecutorAssumption, NextStep
<1>3. QED
  BY <1>1, <1>2, PTL DEF Spec

\* QueuesCorrect: the executor's messages stay on its own three queues.
THEOREM QueuesCorrect == Spec => []OwnQueues
<1>1. CopiesOK => OwnQueues
  BY DEF CopiesOK, CopyOK, OwnQueues
<1>2. QED
  BY <1>1, CopiesCorrect, PTL

\* BurialCorrect: only exhausted or hopeless messages are buried.
THEOREM BurialCorrect == Spec => []BuriedOnlyWhenExhausted
<1>1. CopiesOK => BuriedOnlyWhenExhausted
  BY DEF CopiesOK, CopyOK, BuriedOnlyWhenExhausted
<1>2. QED
  BY <1>1, CopiesCorrect, PTL

\* BackoffCorrect: no retried message reaches the worker before its time.
THEOREM BackoffCorrect == Spec => []BackoffRespected
<1>1. CopiesOK => BackoffRespected
  BY DEF CopiesOK, CopyOK, BackoffRespected
<1>2. QED
  BY <1>1, CopiesCorrect, PTL

\* BudgetCorrect: executions per life are bounded by the budget and the crashes.
THEOREM BudgetCorrect == Spec => []BudgetRespected
<1>1. TypeOK /\ CopiesOK => BudgetRespected
  <2> SUFFICES ASSUME TypeOK, CopiesOK, NEW s \in Slot, copy[s].phase # "free"
               PROVE  copy[s].tries <= DefaultMaxRetries + 1 + crashes
    BY DEF BudgetRespected, Used
  <2>1. copy[s] \in Copy /\ CopyOK(copy[s], crashes)
    BY InSlot DEF CopiesOK, Used
  <2>2. crashes \in Nat /\ DefaultMaxRetries \in Nat
    BY ExecutorAssumption DEF TypeOK, ExecutorAssumption
  <2>3. copy[s].retries \in Nat /\ copy[s].tries \in Nat
    BY <2>1, CopyFields
  <2>4. QED
    BY <2>1, <2>2, <2>3 DEF CopyOK
<1>2. QED
  BY <1>1, TypeCorrect, CopiesCorrect, PTL
=============================================================================
