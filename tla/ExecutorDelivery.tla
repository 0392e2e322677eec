--------------------------- MODULE ExecutorDelivery ---------------------------
(* Delivery theorems about Executor: a message is never lost without a trace,  *)
(* it is not lost at all when publications are reliable, and the executor      *)
(* implements the specification AtLeastOnce.                                   *)
EXTENDS ExecutorProofs

\* The bookkeeping of the outcomes never forgets.
LEMMA OutcomesGrow ==
    ASSUME [Next]_vars
    PROVE  done \subseteq done' /\ discarded \subseteq discarded'
<1>1. CASE Next
  BY <1>1 DEF Next, Submit, Deliver, DeliverWork, DeliverRetry, DeliverDead, Receive,
              Handle, ExecuteOk, ExecuteFail, ExecuteDirectToDead, PublishOk,
              PublishRejected, Ack, Nack, Become, Ripen, startDeadRecovery, Crash
<1>2. QED
  BY <1>1 DEF vars

\* How a step other than a crash or a submission changes the slots: one copy
\* moves on and keeps its message, or leaves, and other copies only join.
LEMMA HandleEffect ==
    ASSUME ExecutorAssumption, TypeOK, NEW s \in Slot, Handle(s)
    PROVE  /\ copy[s] \in Copy
           /\ \A u \in Used \ {s} : copy'[u] = copy[u]
           /\ copy[s].phase # "acking" =>
                 \/ copy[s].id \in done' \cup discarded'
                 \/ \E t \in Slot : /\ copy'[t].phase \notin {"free", "acking"}
                                    /\ copy'[t].id = copy[s].id
<1>1. copy[s] \in Copy /\ copy \in [Slot -> Copy \cup {NoCopy}]
  BY InSlot DEF Handle, ExecuteOk, ExecuteFail, ExecuteDirectToDead, PublishOk,
                PublishRejected, Ack, Nack, Publishing, TypeOK
<1>2. CASE ExecuteOk(s)
  BY <1>1, <1>2 DEF ExecuteOk, Become, Used
<1>3. CASE ExecuteFail(s)
  <2> DEFINE new == [copy[s] EXCEPT !.phase = "retrying", !.tries = @ + 1]
  <2>1. new.phase = "retrying" /\ new.id = copy[s].id
    BY <1>1 DEF Copy
  <2>2. copy'[s] = new /\ \A u \in Slot \ {s} : copy'[u] = copy[u]
    BY <1>1, <1>3 DEF ExecuteFail, Become
  <2>3. QED
    BY <1>1, <2>1, <2>2 DEF Used
<1>4. CASE ExecuteDirectToDead(s)
  <2> DEFINE new == [copy[s] EXCEPT !.phase = "burying", !.tries = @ + 1, !.direct = TRUE]
  <2>1. new.phase = "burying" /\ new.id = copy[s].id
    BY <1>1 DEF Copy
  <2>2. copy'[s] = new /\ \A u \in Slot \ {s} : copy'[u] = copy[u]
    BY <1>1, <1>4 DEF ExecuteDirectToDead, Become
  <2>3. QED
    BY <1>1, <2>1, <2>2 DEF Used
<1>5. CASE PublishOk(s)
  <2>1. PICK t \in Slot \ Used :
               copy' = [copy EXCEPT ![t] = Republished(copy[s]), ![s].phase = "acking"]
    BY <1>5 DEF PublishOk
  <2>2. s # t
    BY <1>5 DEF PublishOk, Publishing, Used
  <2>3. copy'[t] = Republished(copy[s]) /\ \A u \in Slot \ {s, t} : copy'[u] = copy[u]
    BY <1>1, <2>1, <2>2
  <2>4. copy'[t].phase = "ready" /\ copy'[t].id = copy[s].id
    BY <1>1, <1>5, <2>3, RepublishedType DEF PublishOk
  <2>5. QED
    BY <1>1, <2>1, <2>3, <2>4 DEF Used
<1>6. CASE PublishRejected(s)
  <2> DEFINE new == [copy[s] EXCEPT !.phase = "nacking"]
  <2>1. new.phase = "nacking" /\ new.id = copy[s].id
    BY <1>1 DEF Copy
  <2>2. copy'[s] = new /\ \A u \in Slot \ {s} : copy'[u] = copy[u]
    BY <1>1, <1>6 DEF PublishRejected, Become
  <2>3. QED
    BY <1>1, <2>1, <2>2 DEF Used
<1>7. CASE Ack(s)
  BY <1>1, <1>7 DEF Ack, Become, Used
<1>8. CASE Nack(s)
  BY <1>1, <1>8 DEF Nack, Used
<1>9. QED
  BY <1>2, <1>3, <1>4, <1>5, <1>6, <1>7, <1>8 DEF Handle

\* A delivery or the passing of time keeps every copy live.
LEMMA KeepLive ==
    ASSUME TypeOK, NEW s \in Slot, NEW new, copy[s].phase # "free",
           copy' = [copy EXCEPT ![s] = new], new.id = copy[s].id,
           new.phase \notin {"free", "acking"},
           NEW m, Live(m)
    PROVE  Live(m)'
<1>1. PICK u \in Used : copy[u].id = m /\ copy[u].phase # "acking"
  BY DEF Live
<1>2. copy'[s] = new /\ \A t \in Slot \ {s} : copy'[t] = copy[t]
  BY DEF TypeOK
<1>3. CASE u = s
  BY <1>1, <1>2, <1>3 DEF Live, Used
<1>4. CASE u # s
  BY <1>1, <1>2, <1>4 DEF Live, Used
<1>5. QED
  BY <1>3, <1>4

\* A live message stays live unless it gets an outcome.
LEMMA LiveStep ==
    ASSUME ExecutorAssumption, TypeOK, Next, NEW m, Live(m)
    PROVE  m \in done' \cup discarded' \/ Live(m)'
<1>0. PICK u \in Used : copy[u].id = m /\ copy[u].phase # "acking"
  BY DEF Live
<1>1. ASSUME NEW n \in Msg, Submit(n)
      PROVE  Live(m)'
  <2>1. PICK s \in Slot \ Used : \A t \in Slot \ {s} : copy'[t] = copy[t]
    BY <1>1 DEF Submit, TypeOK
  <2>2. QED
    BY <1>0, <2>1 DEF Live, Used
<1>2. ASSUME NEW s \in Slot, NEW c \in Consumer, Deliver(s, c)
      PROVE  Live(m)'
  <2>1. copy[s].phase = "ready" /\ copy[s] \in Copy
    BY <1>2, InSlot DEF Deliver, DeliverWork, DeliverRetry, DeliverDead, Ready
  <2>2. PICK p \in {"executing", "burying", "waiting", "resuming", "reviving"} : Receive(s, c, p)
    BY <1>2 DEF Deliver, DeliverWork, DeliverRetry, DeliverDead
  <2> DEFINE new == [copy[s] EXCEPT !.phase = p, !.owner = c]
  <2>3. new.phase = p /\ new.id = copy[s].id
    BY <2>1 DEF Copy
  <2>4. copy' = [copy EXCEPT ![s] = new]
    BY <2>2 DEF Receive
  <2>5. QED
    BY <2>1, <2>3, <2>4, KeepLive
<1>3. ASSUME NEW s \in Slot, Handle(s)
      PROVE  m \in done' \cup discarded' \/ Live(m)'
  <2>1. CASE u = s
    BY <1>0, <1>3, <2>1, HandleEffect DEF Live, Used
  <2>2. CASE u # s
    BY <1>0, <1>3, <2>2, HandleEffect DEF Live, Used
  <2>3. QED
    BY <2>1, <2>2
<1>4. ASSUME NEW s \in Slot, Ripen(s)
      PROVE  Live(m)'
  <2>1. copy[s].phase \in {"ready", "waiting"} /\ copy[s] \in Copy
    BY <1>4, InSlot DEF Ripen
  <2> DEFINE new == [copy[s] EXCEPT !.ripe = TRUE]
  <2>2. new.phase = copy[s].phase /\ new.id = copy[s].id
    BY <2>1 DEF Copy
  <2>3. copy' = [copy EXCEPT ![s] = new]
    BY <1>4 DEF Ripen
  <2>4. QED
    BY <2>1, <2>2, <2>3, KeepLive
<1>5. ASSUME NEW c \in Consumer, startDeadRecovery(c)
      PROVE  Live(m)'
  BY <1>0, <1>5 DEF startDeadRecovery, Live, Used
<1>6. ASSUME NEW c \in Consumer, Crash(c)
      PROVE  Live(m)'
  <2> DEFINE new == [copy[u] EXCEPT !.phase = "ready", !.owner = "broker"]
  <2>1. copy[u] \in Copy
    BY InSlot DEF Used
  <2>2. new.phase = "ready" /\ new.id = copy[u].id
    BY <2>1 DEF Copy
  <2>3. copy'[u] \in {copy[u], new}
    BY <1>6 DEF Crash, Used
  <2>4. QED
    BY <1>0, <2>2, <2>3 DEF Live, Used
<1>7. QED
  BY <1>1, <1>2, <1>3, <1>4, <1>5, <1>6 DEF Next

\* A submission leaves a live copy of what it submits.
LEMMA SubmitLive ==
    ASSUME ExecutorAssumption, TypeOK, NEW m \in Msg, Submit(m)
    PROVE  Live(m)'
<1> DEFINE new == [ExecutorMessage(m, WorkQueue) EXCEPT !.maxRetries = Declared[m]]
<1>1. PICK s \in Slot \ Used : copy' = [copy EXCEPT ![s] = new]
  BY DEF Submit
<1>2. copy'[s] = new
  BY <1>1 DEF TypeOK
<1>3. new.id = m /\ new.phase = "ready"
  BY SubmittedType
<1>4. QED
  BY <1>2, <1>3 DEF Live, Used

LEMMA NoSilentLossStep ==
    ASSUME ExecutorAssumption, TypeOK, NoSilentLoss, [Next]_vars
    PROVE  NoSilentLoss'
<1>1. SUFFICES ASSUME NEW m \in submitted'
               PROVE  m \in done' \cup discarded' \/ Live(m)'
  BY DEF NoSilentLoss
<1>2. CASE UNCHANGED vars
  BY <1>2 DEF vars, NoSilentLoss, Live, Used
<1>3. CASE Next /\ m \in submitted
  BY <1>3, LiveStep, OutcomesGrow DEF NoSilentLoss
<1>4. CASE Next /\ m \notin submitted
  <2>1. m \in Msg /\ Submit(m)
    BY <1>4 DEF Next, Submit, Deliver, DeliverWork, DeliverRetry, DeliverDead, Receive,
                Handle, ExecuteOk, ExecuteFail, ExecuteDirectToDead, PublishOk,
                PublishRejected, Ack, Nack, Become, Ripen, startDeadRecovery, Crash
  <2>2. QED
    BY <2>1, SubmitLive
<1>5. QED
  BY <1>2, <1>3, <1>4

\* NothingLostSilently: whatever crashes, a submitted message was completed, was
\* discarded by a nack, or has a live copy.
THEOREM NothingLostSilently == Spec => []NoSilentLoss
<1>1. Init => NoSilentLoss
  BY DEF Init, NoSilentLoss
<1>2. TypeOK /\ NoSilentLoss /\ [Next]_vars => NoSilentLoss'
  BY ExecutorAssumption, NoSilentLossStep
<1>3. QED
  BY <1>1, <1>2, TypeCorrect, PTL DEF Spec

-----------------------------------------------------------------------------
(* Bookkeeping the promise depends on: copies exist of submitted messages only, *)
(* and with reliable publications no handler ever comes to a nack.             *)
Accounted ==
    /\ \A s \in Used : copy[s].id \in submitted
    /\ ReliablePublish =>
          /\ discarded = {}
          /\ \A s \in Used : copy[s].phase # "nacking"

\* Moving one copy along, to a phase other than nacking.
LEMMA AccountedMove ==
    ASSUME TypeOK, Accounted, NEW s \in Slot, NEW new, copy[s].phase # "free",
           copy' = [copy EXCEPT ![s] = new], new.id = copy[s].id,
           new.phase = "nacking" => ~ReliablePublish,
           discarded' = discarded, submitted' = submitted
    PROVE  Accounted'
<1>1. copy'[s] = new /\ \A t \in Slot \ {s} : copy'[t] = copy[t]
  BY DEF TypeOK
<1>2. ReliablePublish' <=> ReliablePublish
  BY DEF ReliablePublish
<1>3. QED
  BY <1>1, <1>2 DEF Accounted, Used

\* Freeing one slot.
LEMMA AccountedFree ==
    ASSUME TypeOK, Accounted, NEW s \in Slot, copy' = [copy EXCEPT ![s] = NoCopy],
           ReliablePublish => discarded' = {}, submitted' = submitted
    PROVE  Accounted'
<1>1. copy'[s] = NoCopy /\ \A t \in Slot \ {s} : copy'[t] = copy[t]
  BY DEF TypeOK
<1>2. ReliablePublish' <=> ReliablePublish
  BY DEF ReliablePublish
<1>3. QED
  BY <1>1, <1>2 DEF Accounted, Used, NoCopy

LEMMA AccountedHandle ==
    ASSUME ExecutorAssumption, TypeOK, Accounted, NEW s \in Slot, Handle(s)
    PROVE  Accounted'
<1>1. copy[s].phase # "free" /\ copy[s] \in Copy
  BY InSlot DEF Handle, ExecuteOk, ExecuteFail, ExecuteDirectToDead, PublishOk,
                PublishRejected, Ack, Nack, Publishing
<1>2. CASE ExecuteOk(s)
  <2>1. LET new == [copy[s] EXCEPT !.phase = "acking"]
        IN  new.id = copy[s].id /\ new.phase = "acking"
    BY <1>1 DEF Copy
  <2>2. QED
    BY <1>1, <1>2, <2>1, AccountedMove DEF ExecuteOk, Become
<1>3. CASE ExecuteFail(s)
  <2>1. LET new == [copy[s] EXCEPT !.phase = "retrying", !.tries = @ + 1]
        IN  new.id = copy[s].id /\ new.phase = "retrying"
    BY <1>1 DEF Copy
  <2>2. QED
    BY <1>1, <1>3, <2>1, AccountedMove DEF ExecuteFail, Become
<1>4. CASE ExecuteDirectToDead(s)
  <2>1. LET new == [copy[s] EXCEPT !.phase = "burying", !.tries = @ + 1, !.direct = TRUE]
        IN  new.id = copy[s].id /\ new.phase = "burying"
    BY <1>1 DEF Copy
  <2>2. QED
    BY <1>1, <1>4, <2>1, AccountedMove DEF ExecuteDirectToDead, Become
<1>5. CASE PublishOk(s)
  <2> DEFINE new == Republished(copy[s])
  <2> DEFINE old == [copy[s] EXCEPT !.phase = "acking"]
  <2>1. PICK t \in Slot \ Used : copy' = [copy EXCEPT ![t] = new, ![s].phase = "acking"]
    BY <1>5 DEF PublishOk
  <2>2. s # t
    BY <1>1 DEF Used
  <2>3. /\ copy'[t] = new /\ copy'[s] = old
        /\ \A u \in Slot \ {s, t} : copy'[u] = copy[u]
    BY <2>1, <2>2 DEF TypeOK
  <2>4. new.phase = "ready" /\ new.id = copy[s].id
    BY <1>1, <1>5, RepublishedType DEF PublishOk
  <2>5. old.phase = "acking" /\ old.id = copy[s].id
    BY <1>1 DEF Copy
  <2>6. submitted' = submitted /\ discarded' = discarded /\ (ReliablePublish' <=> ReliablePublish)
    BY <1>5 DEF PublishOk, ReliablePublish
  <2>7. ASSUME NEW u \in Slot, copy'[u].phase # "free"
        PROVE  \E v \in Used : /\ copy'[u].id = copy[v].id
                               /\ copy'[u].phase \in {"ready", "acking", copy[v].phase}
    <3>1. CASE u \in {s, t}
      BY <1>1, <2>3, <2>4, <2>5, <3>1 DEF Used
    <3>2. CASE u \notin {s, t}
      BY <2>3, <2>7, <3>2 DEF Used
    <3>3. QED
      BY <3>1, <3>2
  <2>8. QED
    BY <2>6, <2>7 DEF Accounted, Used
<1>6. CASE PublishRejected(s)
  <2>1. LET new == [copy[s] EXCEPT !.phase = "nacking"]
        IN  new.id = copy[s].id /\ new.phase = "nacking"
    BY <1>1 DEF Copy
  <2>2. ~ReliablePublish
    BY <1>6 DEF PublishRejected, ReliablePublish
  <2>3. QED
    BY <1>1, <1>6, <2>1, <2>2, AccountedMove DEF PublishRejected, Become
<1>7. CASE Ack(s)
  BY <1>7, AccountedFree DEF Ack, Become, Accounted
<1>8. CASE Nack(s)
  <2>1. ~ReliablePublish
    BY <1>1, <1>8 DEF Nack, Accounted, Used
  <2>2. QED
    BY <1>8, <2>1, AccountedFree DEF Nack
<1>9. QED
  BY <1>2, <1>3, <1>4, <1>5, <1>6, <1>7, <1>8 DEF Handle

LEMMA AccountedStep ==
    ASSUME ExecutorAssumption, TypeOK, Accounted, [Next]_vars
    PROVE  Accounted'
<1>0. CASE UNCHANGED vars
  BY <1>0 DEF vars, Accounted, Used, ReliablePublish
<1>1. ASSUME NEW n \in Msg, Submit(n)
      PROVE  Accounted'
  <2> DEFINE new == [ExecutorMessage(n, WorkQueue) EXCEPT !.maxRetries = Declared[n]]
  <2>1. PICK s \in Slot \ Used : copy' = [copy EXCEPT ![s] = new]
    BY <1>1 DEF Submit
  <2>2. copy'[s] = new /\ \A t \in Slot \ {s} : copy'[t] = copy[t]
    BY <2>1 DEF TypeOK
  <2>3. new.id = n /\ new.phase = "ready"
    BY SubmittedType
  <2>4. submitted' = submitted \cup {n} /\ discarded' = discarded
        /\ (ReliablePublish' <=> ReliablePublish)
    BY <1>1 DEF Submit, ReliablePublish
  <2>5. QED
    BY <2>2, <2>3, <2>4 DEF Accounted, Used
<1>2. ASSUME NEW s \in Slot, NEW c \in Consumer, Deliver(s, c)
      PROVE  Accounted'
  <2>1. copy[s].phase = "ready" /\ copy[s] \in Copy
    BY <1>2, InSlot DEF Deliver, DeliverWork, DeliverRetry, DeliverDead, Ready
  <2>2. PICK p \in {"executing", "burying", "waiting", "resuming", "reviving"} : Receive(s, c, p)
    BY <1>2 DEF Deliver, DeliverWork, DeliverRetry, DeliverDead
  <2> DEFINE new == [copy[s] EXCEPT !.phase = p, !.owner = c]
  <2>3. new.phase = p /\ new.id = copy[s].id
    BY <2>1 DEF Copy
  <2>4. copy' = [copy EXCEPT ![s] = new] /\ submitted' = submitted /\ discarded' = discarded
    BY <2>2 DEF Receive
  <2>5. QED
    BY <2>1, <2>3, <2>4, AccountedMove
<1>3. ASSUME NEW s \in Slot, Handle(s)
      PROVE  Accounted'
  BY <1>3, AccountedHandle
<1>4. ASSUME NEW s \in Slot, Ripen(s)
      PROVE  Accounted'
  <2>1. copy[s].phase \in {"ready", "waiting"} /\ copy[s] \in Copy
    BY <1>4, InSlot DEF Ripen
  <2> DEFINE new == [copy[s] EXCEPT !.ripe = TRUE]
  <2>2. new.phase = copy[s].phase /\ new.id = copy[s].id
    BY <2>1 DEF Copy
  <2>3. copy' = [copy EXCEPT ![s] = new] /\ submitted' = submitted /\ discarded' = discarded
    BY <1>4 DEF Ripen
  <2>4. QED
    BY <2>1, <2>2, <2>3, AccountedMove
<1>5. ASSUME NEW c \in Consumer, startDeadRecovery(c)
      PROVE  Accounted'
  BY <1>5 DEF startDeadRecovery, Accounted, Used, ReliablePublish
<1>6. ASSUME NEW c \in Consumer, Crash(c)
      PROVE  Accounted'
  <2>1. ASSUME NEW u \in Slot, copy'[u].phase # "free"
        PROVE  /\ u \in Used /\ copy'[u].id = copy[u].id
               /\ copy'[u].phase \in {"ready", copy[u].phase}
    <3> DEFINE new == [copy[u] EXCEPT !.phase = "ready", !.owner = "broker"]
    <3>1. CASE u \notin Used
      BY <1>6, <2>1, <3>1 DEF Crash, Used
    <3>2. CASE u \in Used
      <4>1. copy[u] \in Copy
        BY <3>2, InSlot DEF Used
      <4>2. new.phase = "ready" /\ new.id = copy[u].id
        BY <4>1 DEF Copy
      <4>3. copy'[u] \in {copy[u], new}
        BY <1>6 DEF Crash
      <4>4. QED
        BY <3>2, <4>2, <4>3
    <3>3. QED
      BY <3>1, <3>2
  <2>2. submitted' = submitted /\ discarded' = discarded /\ (ReliablePublish' <=> ReliablePublish)
    BY <1>6 DEF Crash, ReliablePublish
  <2>3. QED
    BY <2>1, <2>2 DEF Accounted, Used
<1>7. QED
  BY <1>0, <1>1, <1>2, <1>3, <1>4, <1>5, <1>6 DEF Next

THEOREM AccountedAlways == Spec => []Accounted
<1>1. Init => Accounted
  BY DEF Init, Accounted, Used, NoCopy
<1>2. TypeOK /\ Accounted /\ [Next]_vars => Accounted'
  BY ExecutorAssumption, AccountedStep
<1>3. QED
  BY <1>1, <1>2, TypeCorrect, PTL DEF Spec

\* NothingLost: when the topology declares every name the executor publishes to
\* and publications do not fail, a submitted message that no execution completed
\* is still held by the broker.
THEOREM NothingLost ==
    ASSUME ReliablePublish
    PROVE  Spec => []NoLoss
<1>1. Accounted /\ NoSilentLoss => NoLoss
  BY DEF Accounted, NoSilentLoss, NoLoss
<1>2. QED
  BY <1>1, AccountedAlways, NothingLostSilently, PTL

\* The way back to the worker is named after the queue, so that it exists only for
\* the two subscriptions whose queue has the subscription's own name.
LEMMA DirectDeclared ==
    ASSUME NEW c \in Subscription
    PROVE  PublicationDeclared(AddDirectPubPrefix(c)) <=> c \in {"save_token", "save_wallet"}
<1> DEFINE direct == {AddDirectPubPrefix(SubscriptionQueue[n].base) : n \in DeadAndRetrySubs}
<1>1. \A s \in Subscription : /\ AddRetryPrefix(s) \in DeadAndRetrySubs
                              /\ SubscriptionQueue[AddRetryPrefix(s)].base = SubscribedQueue[s]
  <2>1. ASSUME NEW s \in Subscription
        PROVE  /\ AddRetryPrefix(s) \in DeadAndRetrySubs
               /\ SubscriptionQueue[AddRetryPrefix(s)] = AddRetryPrefix(SubscribedQueue[s])
    BY SubscriptionQueueType DEF DeadAndRetrySubs
  <2>2. \A x : AddRetryPrefix(x).base = x
    BY DEF AddRetryPrefix
  <2> QED
    BY <2>1, <2>2
<1>2. ASSUME NEW n \in DeadAndRetrySubs
      PROVE  \E s \in Subscription : SubscriptionQueue[n].base = SubscribedQueue[s]
  <2>1. PICK s \in Subscription : n = AddRetryPrefix(s) \/ n = AddDeadPrefix(s)
    BY DEF DeadAndRetrySubs
  <2>2. \/ SubscriptionQueue[n] = AddRetryPrefix(SubscribedQueue[s])
        \/ SubscriptionQueue[n] = AddDeadPrefix(SubscribedQueue[s])
    BY <2>1, SubscriptionQueueType
  <2> QED
    BY <2>2 DEF AddRetryPrefix, AddDeadPrefix
<1>3. direct = {AddDirectPubPrefix(SubscribedQueue[s]) : s \in Subscription}
  BY <1>1, <1>2
<1>4. \A n \in DeadAndRetrySubs : n.prefix \in {"_retry_", "_dead_"}
  BY DEF DeadAndRetrySubs, AddRetryPrefix, AddDeadPrefix
<1>5. AddDirectPubPrefix(c).prefix = "_direct_"
  BY DEF AddDirectPubPrefix
<1>6. PublicationDeclared(AddDirectPubPrefix(c)) <=> AddDirectPubPrefix(c) \in direct
  BY <1>4, <1>5 DEF PublicationDeclared, QueuePublication
<1>7. AddDirectPubPrefix(c) \in direct <=> \E s \in Subscription : SubscribedQueue[s] = c
  BY <1>3 DEF AddDirectPubPrefix
<1>8. (\E s \in Subscription : SubscribedQueue[s] = c) <=> c \in {"save_token", "save_wallet"}
  BY DEF Subscription, SubscribedQueue
<1> QED
  BY <1>6, <1>7, <1>8

\* The hypothesis of NothingLost is what the code has for two of its subscriptions.
LEMMA ReliableSubscriptions ==
    ASSUME ExecutorAssumption, ~PublishMayFail
    PROVE  ReliablePublish <=> Channel \in {"save_token", "save_wallet"}
<1>1. /\ retryChannel \in DeadAndRetrySubs /\ deadChannel \in DeadAndRetrySubs
      /\ Channel \in Subscription
  BY DEF ExecutorAssumption, DeadAndRetrySubs, retryChannel, deadChannel
<1>2. PublicationDeclared(retryChannel) /\ PublicationDeclared(deadChannel)
  BY <1>1 DEF PublicationDeclared, QueuePublication
<1>3. PublicationDeclared(processChannel) <=> Channel \in {"save_token", "save_wallet"}
  BY <1>1, DirectDeclared DEF processChannel
<1>4. ReliablePublish <=> \A p \in Publishing : PublicationDeclared(TargetChannel[p])
  BY DEF ReliablePublish
<1>5. (\A p \in Publishing : PublicationDeclared(TargetChannel[p]))
         <=> PublicationDeclared(processChannel)
  BY <1>2 DEF Publishing, TargetChannel
<1> QED
  BY <1>3, <1>4, <1>5

\* TokensAndWalletsKept: TokenDiscovered and WalletDiscovered messages are never
\* lost while publications succeed: the names of their queues are right.
THEOREM TokensAndWalletsKept ==
    ASSUME Channel \in {"save_token", "save_wallet"}, ~PublishMayFail
    PROVE  Spec => []NoLoss
BY ExecutorAssumption, ReliableSubscriptions, NothingLost

\* DiscardNeedsFailure: a copy is nacked only if an execution of its message has
\* failed.  For TxDiscovered and TxProcessed messages, whose direct publication does
\* not exist, this is the one way to get lost (modules TxPipeline's Discard).
DiscardNeedsFailure == \A s \in Used : copy[s].phase = "nacking" => copy[s].tries > 0

THEOREM DiscardedAfterFailure == Spec => []DiscardNeedsFailure
<1>1. CopiesOK => DiscardNeedsFailure
  BY DEF CopiesOK, CopyOK, DiscardNeedsFailure
<1> QED
  BY <1>1, CopiesCorrect, PTL

-----------------------------------------------------------------------------
(* Exactly once: what is inductive is ExactlyOnce with two facts about messages *)
(* that were never submitted: they have neither copies nor an outcome.          *)
OutcomesSubmitted == done \cup discarded \subseteq submitted

OnceInv == TypeOK /\ Accounted /\ OutcomesSubmitted /\ ExactlyOnce

\* A step after which every copy is one of an earlier copy, live ones of live
\* ones, and no two of the same; what got an outcome has no live copy left.
LEMMA OnceFrom ==
    ASSUME OnceInv, TypeOK', Accounted', NEW from,
           submitted \subseteq submitted', unacked \subseteq unacked',
           done' \cup discarded' \subseteq submitted',
           \A s \in Used' : /\ from[s] \in Used /\ copy'[s].id = copy[from[s]].id
                            /\ copy'[s].phase # "acking" /\ copy'[s].id \notin unacked'
                               => /\ copy[from[s]].phase # "acking"
                                  /\ copy'[s].id \notin (done' \cup discarded') \ (done \cup discarded),
           \A s, u \in Used' : from[s] = from[u] => s = u \/ copy'[s].phase = "acking"
                                                       \/ copy'[u].phase = "acking"
    PROVE  OnceInv'
<1>1. ASSUME NEW s \in Used', NEW u \in Used',
             copy'[s].phase # "acking", copy'[u].id = copy'[s].id, copy'[s].id \notin unacked'
      PROVE  /\ copy'[s].id \notin done' \cup discarded'
             /\ s # u => copy'[u].phase = "acking"
  <2> DEFINE f == from[s]
             g == from[u]
  <2>1. /\ f \in Used /\ copy'[s].id = copy[f].id /\ copy[f].phase # "acking"
        /\ g \in Used /\ copy'[u].id = copy[g].id
        /\ copy'[s].id \notin (done' \cup discarded') \ (done \cup discarded)
    BY <1>1
  <2>2. copy[f].id \notin unacked
    BY <1>1, <2>1
  <2>3. copy[f].id \notin done \cup discarded /\ (f # g => copy[g].phase = "acking")
    BY <1>1, <2>1, <2>2 DEF OnceInv, ExactlyOnce
  <2>4. copy'[s].id \notin done' \cup discarded'
    BY <2>1, <2>3
  <2>5. ASSUME s # u, copy'[u].phase # "acking" PROVE FALSE
    <3>1. copy[g].phase # "acking"
      BY <1>1, <2>5
    <3>2. f = g
      BY <2>3, <3>1
    <3> QED
      BY <1>1, <2>5, <3>2
  <2> QED
    BY <2>4, <2>5
<1>2. ExactlyOnce'
  BY <1>1 DEF ExactlyOnce
<1> QED
  BY <1>2 DEF OnceInv, OutcomesSubmitted

\* One copy moves on; a live one may come to its ack, which settles its message.
LEMMA OnceMove ==
    ASSUME OnceInv, TypeOK', Accounted', NEW s \in Used, NEW new,
           copy' = [copy EXCEPT ![s] = new], new.id = copy[s].id,
           copy[s].phase = "acking" => new.phase = "acking",
           UNCHANGED <<submitted, discarded, unacked>>,
           \/ done' = done
           \/ /\ copy[s].phase # "acking" /\ new.phase = "acking"
              /\ done' = done \cup {copy[s].id}
    PROVE  OnceInv'
<1> DEFINE from == [u \in Slot |-> u]
<1>1. copy'[s] = new /\ \A u \in Slot \ {s} : copy'[u] = copy[u]
  BY DEF OnceInv, TypeOK, Used
<1>2. s \in Slot /\ copy[s].id \in submitted
  BY DEF OnceInv, Accounted, Used
<1>3. done' \cup discarded' \subseteq submitted'
  BY <1>2 DEF OnceInv, OutcomesSubmitted
<1>4. ASSUME NEW u \in Used'
      PROVE  /\ u \in Used /\ copy'[u].id = copy[u].id
             /\ copy'[u].phase # "acking" /\ copy'[u].id \notin unacked'
                => /\ copy[u].phase # "acking"
                   /\ copy'[u].id \notin (done' \cup discarded') \ (done \cup discarded)
  <2>1. u \in Used /\ copy'[u].id = copy[u].id
    BY <1>1 DEF Used
  <2>2. CASE done' = done
    BY <1>1, <2>1, <2>2
  <2>3. CASE copy[s].phase # "acking" /\ new.phase = "acking" /\ done' = done \cup {copy[s].id}
    <3>1. ASSUME copy'[u].phase # "acking", copy'[u].id \notin unacked', copy[u].id = copy[s].id
          PROVE  FALSE
      <4>1. u # s /\ copy[u].phase # "acking"
        BY <1>1, <2>3, <3>1 DEF Used
      <4> QED
        BY <2>1, <2>3, <3>1, <4>1 DEF OnceInv, ExactlyOnce
    <3> QED
      BY <1>1, <2>1, <2>3, <3>1
  <2> QED
    BY <2>1, <2>2, <2>3
<1>5. \A u \in Used' : from[u] = u
  BY DEF Used
<1> HIDE DEF from
<1> QED
  BY <1>3, <1>4, <1>5, OnceFrom

\* A copy goes away; a live one that does is discarded.
LEMMA OnceFree ==
    ASSUME OnceInv, TypeOK', Accounted', NEW s \in Used,
           copy' = [copy EXCEPT ![s] = NoCopy],
           UNCHANGED <<submitted, done, unacked>>,
           \/ discarded' = discarded
           \/ copy[s].phase # "acking" /\ discarded' = discarded \cup {copy[s].id}
    PROVE  OnceInv'
<1> DEFINE from == [u \in Slot |-> u]
<1>1. copy'[s] = NoCopy /\ \A u \in Slot \ {s} : copy'[u] = copy[u]
  BY DEF OnceInv, TypeOK, Used
<1>2. s \notin Used' /\ \A u \in Used' : u \in Used /\ u # s /\ copy'[u] = copy[u]
  BY <1>1 DEF Used, NoCopy
<1>3. done' \cup discarded' \subseteq submitted'
  BY DEF OnceInv, OutcomesSubmitted, Accounted
<1>4. ASSUME NEW u \in Used'
      PROVE  /\ u \in Used /\ copy'[u].id = copy[u].id
             /\ copy'[u].phase # "acking" /\ copy'[u].id \notin unacked'
                => /\ copy[u].phase # "acking"
                   /\ copy'[u].id \notin (done' \cup discarded') \ (done \cup discarded)
  BY <1>2 DEF OnceInv, ExactlyOnce
<1>5. \A u \in Used' : from[u] = u
  BY DEF Used
<1> HIDE DEF from
<1> QED
  BY <1>3, <1>4, <1>5, OnceFrom

LEMMA OnceHandle ==
    ASSUME ExecutorAssumption, OnceInv, TypeOK', Accounted', NEW s \in Slot, Handle(s)
    PROVE  OnceInv'
<1>1. s \in Used /\ copy[s] \in Copy
  BY InSlot DEF OnceInv, Used, Handle, ExecuteOk, ExecuteFail, ExecuteDirectToDead,
                PublishOk, PublishRejected, Ack, Nack, Publishing
<1>2. CASE ExecuteOk(s)
  <2> DEFINE new == [copy[s] EXCEPT !.phase = "acking"]
  <2>1. new.id = copy[s].id /\ new.phase = "acking" /\ copy[s].phase # "acking"
    BY <1>1, <1>2 DEF Copy, ExecuteOk
  <2>2. /\ copy' = [copy EXCEPT ![s] = new] /\ done' = done \cup {copy[s].id}
        /\ UNCHANGED <<submitted, discarded, unacked>>
    BY <1>2 DEF ExecuteOk, Become
  <2> HIDE DEF new
  <2> QED
    BY <1>1, <2>1, <2>2, OnceMove
<1>3. CASE ExecuteFail(s) \/ ExecuteDirectToDead(s) \/ PublishRejected(s)
  <2>1. PICK new \in {[copy[s] EXCEPT !.phase = "retrying", !.tries = @ + 1],
                      [copy[s] EXCEPT !.phase = "burying", !.tries = @ + 1, !.direct = TRUE],
                      [copy[s] EXCEPT !.phase = "nacking"]} : Become(s, new)
    BY <1>3 DEF ExecuteFail, ExecuteDirectToDead, PublishRejected
  <2>2. new.id = copy[s].id
    BY <1>1, <2>1 DEF Copy
  <2>3. /\ copy' = [copy EXCEPT ![s] = new] /\ copy[s].phase # "acking"
        /\ UNCHANGED <<submitted, done, discarded, unacked>>
    BY <1>3, <2>1 DEF ExecuteFail, ExecuteDirectToDead, PublishRejected, Become, Publishing
  <2> QED
    BY <1>1, <2>2, <2>3, OnceMove
<1>4. CASE PublishOk(s)
  <2> DEFINE new == Republished(copy[s])
             old == [copy[s] EXCEPT !.phase = "acking"]
  <2>1. PICK t \in Slot \ Used : copy' = [copy EXCEPT ![t] = new, ![s].phase = "acking"]
    BY <1>4 DEF PublishOk
  <2>2. s # t
    BY <1>1
  <2>3. /\ copy'[t] = new /\ copy'[s] = old
        /\ \A u \in Slot \ {s, t} : copy'[u] = copy[u]
    BY <2>1, <2>2 DEF OnceInv, TypeOK
  <2>4. new.phase = "ready" /\ new.id = copy[s].id
    BY <1>1, <1>4, RepublishedType DEF PublishOk
  <2>5. old.phase = "acking" /\ old.id = copy[s].id
    BY <1>1 DEF Copy
  <2>6. copy[s].phase # "acking" /\ UNCHANGED <<submitted, done, discarded, unacked>>
    BY <1>4 DEF PublishOk, Publishing
  <2> DEFINE from == [u \in Slot |-> IF u = t THEN s ELSE u]
  <2>7. from[t] = s /\ \A u \in Slot \ {t} : from[u] = u
    OBVIOUS
  <2> HIDE DEF from, new, old
  <2>8. ASSUME NEW u \in Used'
        PROVE  /\ from[u] \in Used /\ copy'[u].id = copy[from[u]].id
               /\ copy'[u].phase # "acking" => copy[from[u]].phase # "acking"
    <3>1. CASE u = t
      BY <1>1, <2>3, <2>4, <2>6, <2>7, <3>1
    <3>2. CASE u = s
      BY <1>1, <2>2, <2>3, <2>5, <2>7, <3>2 DEF Used
    <3>3. CASE u \notin {s, t}
      BY <2>3, <2>7, <3>3 DEF Used
    <3> QED
      BY <3>1, <3>2, <3>3
  <2>9. ASSUME NEW u \in Used', NEW v \in Used', from[u] = from[v]
        PROVE  u = v \/ copy'[u].phase = "acking" \/ copy'[v].phase = "acking"
    <3>1. u \in Slot /\ v \in Slot
      BY DEF Used
    <3> QED
      BY <2>3, <2>5, <2>7, <2>9, <3>1
  <2>10. done' \cup discarded' \subseteq submitted'
    BY <2>6 DEF OnceInv, OutcomesSubmitted
  <2> QED
    BY <2>6, <2>8, <2>9, <2>10, OnceFrom
<1>5. CASE Ack(s)
  BY <1>1, <1>5, OnceFree DEF Ack, Become
<1>6. CASE Nack(s)
  BY <1>1, <1>6, OnceFree DEF Nack
<1> QED
  BY <1>2, <1>3, <1>4, <1>5, <1>6 DEF Handle

LEMMA OnceStep ==
    ASSUME ExecutorAssumption, OnceInv, CopiesOK, [Next]_vars
    PROVE  OnceInv'
<1>0. TypeOK' /\ Accounted'
  BY NextStep, AccountedStep DEF OnceInv
<1>1. CASE UNCHANGED vars
  BY <1>0, <1>1 DEF vars, OnceInv, OutcomesSubmitted, ExactlyOnce, Used
<1>2. ASSUME NEW n \in Msg, Submit(n)
      PROVE  OnceInv'
  <2> DEFINE new == [ExecutorMessage(n, WorkQueue) EXCEPT !.maxRetries = Declared[n]]
  <2>1. PICK s \in Slot \ Used : copy' = [copy EXCEPT ![s] = new]
    BY <1>2 DEF Submit
  <2>2. copy'[s] = new /\ \A t \in Slot \ {s} : copy'[t] = copy[t]
    BY <2>1 DEF OnceInv, TypeOK
  <2>3. new.id = n /\ new.phase = "ready"
    BY SubmittedType
  <2>4. /\ n \notin submitted /\ submitted' = submitted \cup {n}
        /\ UNCHANGED <<done, discarded, unacked>>
    BY <1>2 DEF Submit
  <2>5. /\ n \notin done \cup discarded
        /\ \A u \in Used : copy[u].id # n
    BY <2>4 DEF OnceInv, OutcomesSubmitted, Accounted
  <2> HIDE DEF new
  <2>6. Used' = Used \cup {s}
    BY <2>2, <2>3 DEF Used
  <2>7. ExactlyOnce'
    BY <2>1, <2>2, <2>3, <2>4, <2>5, <2>6 DEF OnceInv, ExactlyOnce, Used
  <2> QED
    BY <1>0, <2>4, <2>7 DEF OnceInv, OutcomesSubmitted
<1>3. ASSUME NEW s \in Slot, NEW c \in Consumer, Deliver(s, c)
      PROVE  OnceInv'
  <2>1. copy[s].phase = "ready" /\ copy[s] \in Copy /\ s \in Used
    BY <1>3, InSlot DEF OnceInv, Used, Deliver, DeliverWork, DeliverRetry, DeliverDead, Ready
  <2>2. PICK p \in {"executing", "burying", "waiting", "resuming", "reviving"} : Receive(s, c, p)
    BY <1>3 DEF Deliver, DeliverWork, DeliverRetry, DeliverDead
  <2> DEFINE new == [copy[s] EXCEPT !.phase = p, !.owner = c]
  <2>3. new.id = copy[s].id
    BY <2>1 DEF Copy
  <2>4. /\ copy' = [copy EXCEPT ![s] = new]
        /\ UNCHANGED <<submitted, done, discarded, unacked>>
    BY <2>2 DEF Receive
  <2> HIDE DEF new
  <2> QED
    BY <1>0, <2>1, <2>3, <2>4, OnceMove
<1>4. ASSUME NEW s \in Slot, Handle(s)
      PROVE  OnceInv'
  BY <1>0, <1>4, OnceHandle
<1>5. ASSUME NEW s \in Slot, Ripen(s)
      PROVE  OnceInv'
  <2>1. copy[s].phase \in {"ready", "waiting"} /\ copy[s] \in Copy /\ s \in Used
    BY <1>5, InSlot DEF OnceInv, Ripen, Used
  <2> DEFINE new == [copy[s] EXCEPT !.ripe = TRUE]
  <2>2. new.id = copy[s].id
    BY <2>1 DEF Copy
  <2>3. /\ copy' = [copy EXCEPT ![s] = new]
        /\ UNCHANGED <<submitted, done, discarded, unacked>>
    BY <1>5 DEF Ripen
  <2> HIDE DEF new
  <2> QED
    BY <1>0, <2>1, <2>2, <2>3, OnceMove
<1>6. ASSUME NEW c \in Consumer, startDeadRecovery(c)
      PROVE  OnceInv'
  BY <1>0, <1>6 DEF startDeadRecovery, OnceInv, OutcomesSubmitted, ExactlyOnce, Used
<1>7. ASSUME NEW c \in Consumer, Crash(c)
      PROVE  OnceInv'
  <2> DEFINE from == [u \in Slot |-> u]
  <2>1. ASSUME NEW u \in Used'
        PROVE  /\ u \in Used /\ copy'[u].id = copy[u].id
               /\ copy'[u].phase # "acking" /\ copy[u].phase = "acking"
                  => copy[u].id \in unacked'
    <3> DEFINE new == [copy[u] EXCEPT !.phase = "ready", !.owner = "broker"]
    <3>1. u \in Slot /\ copy'[u].phase # "free"
      BY DEF Used
    <3>2. u \in Used
      BY <1>7, <3>1 DEF Crash, Used
    <3>3. copy[u] \in Copy
      BY <3>2, InSlot DEF OnceInv, Used
    <3>4. new.id = copy[u].id
      BY <3>3 DEF Copy
    <3>5. copy'[u] = IF copy[u].owner = c THEN new ELSE copy[u]
      BY <1>7, <3>1, <3>2 DEF Crash
    <3> HIDE DEF new
    <3> QED
      BY <1>7, <3>2, <3>4, <3>5 DEF Crash
  <2>2. /\ UNCHANGED <<submitted, done, discarded>>
        /\ unacked \subseteq unacked'
    BY <1>7 DEF Crash
  <2>3. \A u \in Used' : from[u] = u
    BY DEF Used
  <2>4. done' \cup discarded' \subseteq submitted'
    BY <2>2 DEF OnceInv, OutcomesSubmitted
  <2> HIDE DEF from
  <2> QED
    BY <1>0, <2>1, <2>2, <2>3, <2>4, OnceFrom
<1> QED
  BY <1>1, <1>2, <1>3, <1>4, <1>5, <1>6, <1>7 DEF Next

\* DeliveredOnce: whatever fails, is retried, buried and revived, a message is not
\* executed again once it was completed or discarded, and is never executed twice
\* at a time, unless a consumer died when all that was left to do was its ack().
THEOREM DeliveredOnce == Spec => []ExactlyOnce
<1>1. Init => OnceInv
  BY ExecutorAssumption, InitOK DEF Init, OnceInv, OutcomesSubmitted, ExactlyOnce, Accounted, Used, NoCopy
<1>2. OnceInv /\ CopiesOK /\ [Next]_vars => OnceInv'
  BY ExecutorAssumption, OnceStep
<1>3. OnceInv => ExactlyOnce
  BY DEF OnceInv
<1>4. QED
  BY <1>1, <1>2, <1>3, CopiesCorrect, PTL DEF Spec
=============================================================================
