-------------------------- MODULE ExecutorRefinement --------------------------
(* The executor implements AtLeastOnce: the proof that every step of Executor  *)
(* is a step of the promise, or leaves what the promise talks about unchanged. *)
EXTENDS ExecutorDelivery

held == {m \in Msg : Held(m)}

\* A step that only moves handlers along: no slot is filled or freed, and every
\* copy keeps its message and its queue.
SameCopies ==
    \A u \in Slot : /\ copy'[u].phase = "free" <=> copy[u].phase = "free"
                    /\ copy[u].phase # "free" =>
                          copy'[u].id = copy[u].id /\ copy'[u].queue = copy[u].queue

LEMMA SameHeld ==
    ASSUME SameCopies
    PROVE  held' = held /\ parked' = parked
BY DEF SameCopies, held, Held, parked, Used, DeadQueue

\* The stuttering steps.
LEMMA MoveSame ==
    ASSUME TypeOK, NEW s \in Slot, NEW new, copy[s].phase # "free", new.phase # "free",
           new.id = copy[s].id, new.queue = copy[s].queue,
           copy' = [copy EXCEPT ![s] = new]
    PROVE  SameCopies
<1>1. copy'[s] = new /\ \A t \in Slot \ {s} : copy'[t] = copy[t]
  BY DEF TypeOK
<1>2. QED
  BY <1>1 DEF SameCopies

LEMMA DeliverSame ==
    ASSUME TypeOK, NEW s \in Slot, NEW c \in Consumer, Deliver(s, c)
    PROVE  SameCopies /\ UNCHANGED <<done, discarded>>
<1>1. copy[s].phase = "ready" /\ copy[s] \in Copy
  BY InSlot DEF Deliver, DeliverWork, DeliverRetry, DeliverDead, Ready
<1>2. PICK p \in {"executing", "burying", "waiting", "resuming", "reviving"} : Receive(s, c, p)
  BY DEF Deliver, DeliverWork, DeliverRetry, DeliverDead
<1> DEFINE new == [copy[s] EXCEPT !.phase = p, !.owner = c]
<1>3. new.phase = p /\ new.id = copy[s].id /\ new.queue = copy[s].queue
  BY <1>1 DEF Copy
<1>4. copy' = [copy EXCEPT ![s] = new] /\ UNCHANGED <<done, discarded>>
  BY <1>2 DEF Receive
<1>5. QED
  BY <1>1, <1>3, <1>4, MoveSame

LEMMA RipenSame ==
    ASSUME TypeOK, NEW s \in Slot, Ripen(s)
    PROVE  SameCopies /\ UNCHANGED <<done, discarded>>
<1>1. copy[s].phase \in {"ready", "waiting"} /\ copy[s] \in Copy
  BY InSlot DEF Ripen
<1> DEFINE new == [copy[s] EXCEPT !.ripe = TRUE]
<1>2. new.phase = copy[s].phase /\ new.id = copy[s].id /\ new.queue = copy[s].queue
  BY <1>1 DEF Copy
<1>3. copy' = [copy EXCEPT ![s] = new] /\ UNCHANGED <<done, discarded>>
  BY DEF Ripen
<1>4. QED
  BY <1>1, <1>2, <1>3, MoveSame

LEMMA CrashSame ==
    ASSUME TypeOK, NEW c \in Consumer, Crash(c)
    PROVE  SameCopies /\ UNCHANGED <<done, discarded>>
<1>1. ASSUME NEW u \in Slot
      PROVE  /\ copy'[u].phase = "free" <=> copy[u].phase = "free"
             /\ copy[u].phase # "free" =>
                   copy'[u].id = copy[u].id /\ copy'[u].queue = copy[u].queue
  <2> DEFINE new == [copy[u] EXCEPT !.phase = "ready", !.owner = "broker"]
  <2>1. CASE u \in Used
    <3>1. copy[u] \in Copy
      BY <2>1, InSlot DEF Used
    <3>2. new.phase = "ready" /\ new.id = copy[u].id /\ new.queue = copy[u].queue
      BY <3>1 DEF Copy
    <3>3. copy'[u] \in {copy[u], new}
      BY DEF Crash
    <3>4. QED
      BY <2>1, <3>2, <3>3 DEF Used
  <2>2. CASE u \notin Used
    BY <2>2 DEF Crash, Used
  <2>3. QED
    BY <2>1, <2>2
<1>2. QED
  BY <1>1 DEF SameCopies, Crash

-----------------------------------------------------------------------------
(* The steps of the promise. *)

LEMMA SubmitSends ==
    ASSUME ExecutorAssumption, TypeOK, NEW m \in Msg, Submit(m)
    PROVE  Promise!Send(m)
<1> DEFINE new == [ExecutorMessage(m, WorkQueue) EXCEPT !.maxRetries = Declared[m]]
<1>1. PICK s \in Slot \ Used : copy' = [copy EXCEPT ![s] = new]
  BY DEF Submit
<1>2. copy'[s] = new /\ \A t \in Slot \ {s} : copy'[t] = copy[t]
  BY <1>1 DEF TypeOK
<1>3. new.id = m /\ new.phase = "ready" /\ new.queue = WorkQueue
  BY DEF ExecutorMessage
<1>4. held' = held \cup {m}
  <2>1. ASSUME NEW n \in Msg, Held(n)'
        PROVE  Held(n) \/ n = m
    <3>1. PICK u \in Slot : copy'[u].phase # "free" /\ copy'[u].id = n
      BY <2>1 DEF Held, Used
    <3>2. QED
      BY <1>2, <1>3, <3>1 DEF Held, Used
  <2>2. ASSUME NEW n \in Msg, Held(n)
        PROVE  Held(n)'
    BY <1>1, <1>2, <2>2 DEF Held, Used
  <2>3. Held(m)'
    BY <1>2, <1>3 DEF Held, Used
  <2>4. QED
    BY <2>1, <2>2, <2>3 DEF held
<1>5. parked' = parked
  BY <1>1, <1>2, <1>3, QueuesDiffer DEF parked, Used, DeadQueue
<1>6. QED
  BY <1>4, <1>5 DEF Promise!Send, Submit, held

\* Freeing the slot of copy s takes at most its message out of held and parked.
LEMMA FreeEffect ==
    ASSUME TypeOK, NEW s \in Used, copy' = [copy EXCEPT ![s] = NoCopy],
           NEW m, m = copy[s].id
    PROVE  /\ held' \in {held, held \ {m}}
           /\ parked' \in {parked, parked \ {m}}
           /\ m \notin held' => m \notin parked'
           /\ m \in Msg /\ m \in held
           /\ m \notin held' => \A u \in Used \ {s} : copy[u].id # m
<1>1. copy'[s] = NoCopy /\ \A t \in Slot \ {s} : copy'[t] = copy[t]
  BY DEF TypeOK, Used
<1>2. m \in Msg
  BY InSlot, CopyFields DEF Used
<1>3. \A n \in Msg \ {m} : (n \in held' <=> n \in held) /\ (n \in parked' <=> n \in parked)
  BY <1>1 DEF held, Held, parked, Used, NoCopy, DeadQueue
<1>4. (m \in held' => m \in held) /\ (m \in parked' => m \in parked) /\ m \in held
  BY <1>1, <1>2 DEF held, Held, parked, Used, NoCopy, DeadQueue
<1>5. held \subseteq Msg /\ held' \subseteq Msg /\ parked \subseteq Msg /\ parked' \subseteq Msg
  BY DEF held, parked
<1>6. m \notin held' => m \notin parked'
  BY DEF held, Held, parked
<1>7. m \notin held' => \A u \in Used \ {s} : copy[u].id # m
  BY <1>1, <1>2 DEF held, Held, Used
<1>8. held' = held \/ held' = held \ {m}
  BY <1>3, <1>4, <1>5
<1>9. parked' = parked \/ parked' = parked \ {m}
  BY <1>3, <1>4, <1>5
<1>10. QED
  BY <1>2, <1>4, <1>6, <1>7, <1>8, <1>9

LEMMA HandleImplements ==
    ASSUME ExecutorAssumption, TypeOK, Accounted, NoSilentLoss, NEW s \in Slot, Handle(s)
    PROVE  [Promise!Next]_(Promise!vars)
<1> USE DEF Promise!vars, held
<1>1. s \in Used /\ copy[s] \in Copy /\ copy[s].id \in Msg
  BY InSlot, CopyFields DEF Handle, ExecuteOk, ExecuteFail, ExecuteDirectToDead, PublishOk,
                PublishRejected, Ack, Nack, Publishing, Used
<1>2. CASE ExecuteOk(s)
  <2> DEFINE new == [copy[s] EXCEPT !.phase = "acking"]
  <2>1. new.phase = "acking" /\ new.id = copy[s].id /\ new.queue = copy[s].queue
    BY <1>1 DEF Copy
  <2>2. SameCopies
    BY <1>1, <1>2, <2>1, MoveSame DEF ExecuteOk, Become, Used
  <2>3. held' = held /\ parked' = parked
    BY <2>2, SameHeld
  <2>4. copy[s].id \in held
    BY <1>1 DEF Held
  <2>5. Promise!Complete(copy[s].id)
    BY <1>2, <2>3, <2>4 DEF Promise!Complete, ExecuteOk, Become
  <2>6. QED
    BY <1>1, <2>5 DEF Promise!Next
<1>3. CASE ExecuteFail(s)
  <2> DEFINE new == [copy[s] EXCEPT !.phase = "retrying", !.tries = @ + 1]
  <2>1. new.phase = "retrying" /\ new.id = copy[s].id /\ new.queue = copy[s].queue
    BY <1>1 DEF Copy
  <2>2. SameCopies
    BY <1>1, <1>3, <2>1, MoveSame DEF ExecuteFail, Become, Used
  <2>3. QED
    BY <1>3, <2>2, SameHeld DEF ExecuteFail, Become
<1>4. CASE ExecuteDirectToDead(s)
  <2> DEFINE new == [copy[s] EXCEPT !.phase = "burying", !.tries = @ + 1, !.direct = TRUE]
  <2>1. new.phase = "burying" /\ new.id = copy[s].id /\ new.queue = copy[s].queue
    BY <1>1 DEF Copy
  <2>2. SameCopies
    BY <1>1, <1>4, <2>1, MoveSame DEF ExecuteDirectToDead, Become, Used
  <2>3. QED
    BY <1>4, <2>2, SameHeld DEF ExecuteDirectToDead, Become
<1>5. CASE PublishOk(s)
  <2> DEFINE new == Republished(copy[s])
  <2> DEFINE old == [copy[s] EXCEPT !.phase = "acking"]
  <2> DEFINE m == copy[s].id
  <2>1. PICK t \in Slot \ Used : copy' = [copy EXCEPT ![t] = new, ![s].phase = "acking"]
    BY <1>5 DEF PublishOk
  <2>2. s # t
    BY <1>1
  <2>3. /\ copy'[t] = new /\ copy'[s] = old
        /\ \A u \in Slot \ {s, t} : copy'[u] = copy[u]
    BY <2>1, <2>2 DEF TypeOK
  <2>4. new.phase = "ready" /\ new.id = m
    BY <1>1, <1>5, RepublishedType DEF PublishOk
  <2>5. old.phase = "acking" /\ old.id = m /\ old.queue = copy[s].queue
    BY <1>1 DEF Copy
  <2>6. \A n \in Msg : Held(n)' <=> Held(n)
    <3>1. ASSUME NEW n \in Msg, Held(n)
          PROVE  Held(n)'
      <4>1. PICK u \in Used : copy[u].id = n
        BY <3>1 DEF Held
      <4>2. copy'[u].phase # "free" /\ copy'[u].id = n
        BY <2>1, <2>3, <2>5, <4>1 DEF Used
      <4>3. QED
        BY <4>2 DEF Held, Used
    <3>2. ASSUME NEW n \in Msg, Held(n)'
          PROVE  Held(n)
      <4>1. PICK u \in Slot : copy'[u].phase # "free" /\ copy'[u].id = n
        BY <3>2 DEF Held, Used
      <4>2. CASE u \in {s, t}
        BY <1>1, <2>3, <2>4, <2>5, <4>1, <4>2 DEF Held
      <4>3. CASE u \notin {s, t}
        BY <2>3, <4>1, <4>3 DEF Held, Used
      <4>4. QED
        BY <4>2, <4>3
    <3>3. QED
      BY <3>1, <3>2
  <2>7. held' = held
    BY <2>6
  <2>8. parked' = parked \/ parked' = parked \cup {m}
    <3>1. \A n \in Msg : n # m => (n \in parked' <=> n \in parked)
      <4>1. ASSUME NEW n \in Msg, n # m, n \in parked'
            PROVE  n \in parked
        <5>1. PICK u \in Slot : copy'[u].phase # "free" /\ copy'[u].id = n
                                 /\ copy'[u].queue = DeadQueue
          BY <4>1 DEF parked, Used, DeadQueue
        <5>2. u \notin {s, t}
          BY <2>3, <2>4, <2>5, <4>1, <5>1
        <5>3. QED
          BY <2>3, <5>1, <5>2 DEF parked, Used
      <4>2. ASSUME NEW n \in Msg, n # m, n \in parked
            PROVE  n \in parked'
        <5>1. PICK u \in Used : copy[u].id = n /\ copy[u].queue = DeadQueue
          BY <4>2 DEF parked
        <5>2. copy'[u] = copy[u]
          BY <2>1, <2>3, <4>2, <5>1 DEF Used
        <5>3. QED
          BY <5>1, <5>2 DEF parked, Used, DeadQueue
      <4>3. QED
        BY <4>1, <4>2
    <3>2. m \in parked => m \in parked'
      BY <1>1, <2>1, <2>3, <2>5 DEF parked, Used, DeadQueue
    <3>3. QED
      BY <1>1, <3>1, <3>2 DEF parked
  <2>9. m \in held
    BY <1>1 DEF Held
  <2>10. UNCHANGED <<done, discarded>>
    BY <1>5 DEF PublishOk
  <2>11. CASE parked' = parked
    BY <2>7, <2>10, <2>11
  <2>12. CASE parked' = parked \cup {m}
    <3>1. Promise!Park(m)
      BY <2>7, <2>9, <2>10, <2>12 DEF Promise!Park
    <3>2. QED
      BY <1>1, <3>1 DEF Promise!Next
  <2>13. QED
    BY <2>8, <2>11, <2>12
<1>6. CASE PublishRejected(s)
  <2> DEFINE new == [copy[s] EXCEPT !.phase = "nacking"]
  <2>1. new.phase = "nacking" /\ new.id = copy[s].id /\ new.queue = copy[s].queue
    BY <1>1 DEF Copy
  <2>2. SameCopies
    BY <1>1, <1>6, <2>1, MoveSame DEF PublishRejected, Become, Used
  <2>3. QED
    BY <1>6, <2>2, SameHeld DEF PublishRejected, Become
<1>7. CASE Ack(s)
  <2> DEFINE m == copy[s].id
  <2>1. copy' = [copy EXCEPT ![s] = NoCopy] /\ UNCHANGED <<done, discarded>>
    BY <1>7 DEF Ack, Become
  <2>2. /\ held' \in {held, held \ {m}} /\ parked' \in {parked, parked \ {m}}
        /\ m \notin held' => m \notin parked'
        /\ m \notin held' => \A u \in Used \ {s} : copy[u].id # m
    BY <1>1, <2>1, FreeEffect
  <2>3. CASE held' = held
    <3>1. parked' = parked \/ Promise!Revive(m)
      BY <2>1, <2>2, <2>3 DEF Promise!Revive
    <3>2. QED
      BY <1>1, <2>1, <2>3, <3>1 DEF Promise!Next
  <2>4. CASE held' = held \ {m}
    <3>1. m \notin held'
      BY <2>4
    <3>2. ~Live(m)
      BY <1>7, <2>2, <3>1 DEF Live, Ack
    <3>3. m \in done \cup discarded
      BY <1>1, <3>2 DEF NoSilentLoss, Accounted
    <3>4. parked' = parked \ {m}
      BY <2>2, <3>1
    <3>5. Promise!Forget(m)
      BY <2>1, <2>4, <3>3, <3>4 DEF Promise!Forget
    <3>6. QED
      BY <1>1, <3>5 DEF Promise!Next
  <2>5. QED
    BY <2>2, <2>3, <2>4
<1>8. CASE Nack(s)
  <2> DEFINE m == copy[s].id
  <2>1. /\ copy' = [copy EXCEPT ![s] = NoCopy]
        /\ discarded' = discarded \cup {m} /\ done' = done
    BY <1>8 DEF Nack
  <2>2. /\ held' \in {held, held \ {m}} /\ parked' \in {parked, parked \ {m}}
        /\ m \in held
    BY <1>1, <2>1, FreeEffect
  <2>3. ~ReliablePublish
    BY <1>1, <1>8 DEF Nack, Accounted
  <2>4. parked' \subseteq held'
    BY DEF parked, Held
  <2>5. Promise!Drop(m)
    BY <2>1, <2>2, <2>3, <2>4 DEF Promise!Drop
  <2>6. QED
    BY <1>1, <2>5 DEF Promise!Next
<1>9. QED
  BY <1>2, <1>3, <1>4, <1>5, <1>6, <1>7, <1>8 DEF Handle

LEMMA StepImplements ==
    ASSUME ExecutorAssumption, TypeOK, Accounted, NoSilentLoss, [Next]_vars
    PROVE  [Promise!Next]_(Promise!vars)
<1> USE DEF held
<1>1. CASE UNCHANGED vars
  <2>1. SameCopies /\ UNCHANGED <<done, discarded>>
    BY <1>1 DEF vars, SameCopies
  <2>2. QED
    BY <2>1, SameHeld DEF Promise!vars
<1>2. ASSUME NEW m \in Msg, Submit(m)
      PROVE  [Promise!Next]_(Promise!vars)
  BY <1>2, SubmitSends DEF Promise!Next
<1>3. ASSUME NEW s \in Slot, NEW c \in Consumer, Deliver(s, c)
      PROVE  [Promise!Next]_(Promise!vars)
  BY <1>3, DeliverSame, SameHeld DEF Promise!vars
<1>4. ASSUME NEW s \in Slot, Handle(s)
      PROVE  [Promise!Next]_(Promise!vars)
  BY <1>4, HandleImplements
<1>5. ASSUME NEW s \in Slot, Ripen(s)
      PROVE  [Promise!Next]_(Promise!vars)
  BY <1>5, RipenSame, SameHeld DEF Promise!vars
<1>6. ASSUME NEW c \in Consumer, startDeadRecovery(c)
      PROVE  [Promise!Next]_(Promise!vars)
  <2>1. SameCopies /\ UNCHANGED <<done, discarded>>
    BY <1>6 DEF startDeadRecovery, SameCopies
  <2>2. QED
    BY <2>1, SameHeld DEF Promise!vars
<1>7. ASSUME NEW c \in Consumer, Crash(c)
      PROVE  [Promise!Next]_(Promise!vars)
  BY <1>7, CrashSame, SameHeld DEF Promise!vars
<1>8. QED
  BY <1>1, <1>2, <1>3, <1>4, <1>5, <1>6, <1>7 DEF Next

\* ImplementsPromise: the executor implements the safety part of AtLeastOnce:
\* whatever crashes, retries and recoveries happen, a message leaves the broker
\* only when it is completed, or dropped where publications can fail.
THEOREM ImplementsPromise == Spec => Implements
<1>1. Init => Promise!Init
  BY DEF Init, Promise!Init, Held, parked, Used, NoCopy
<1>2. TypeOK /\ Accounted /\ NoSilentLoss /\ [Next]_vars => [Promise!Next]_(Promise!vars)
  BY ExecutorAssumption, StepImplements
<1>3. QED
  BY <1>1, <1>2, TypeCorrect, AccountedAlways, NothingLostSilently, PTL
     DEF Spec, Implements, Promise!Spec

\* What the promise is good for: its steps forget only completed or dropped messages.
LEMMA PromiseStepKept ==
    ASSUME Promise!NeverDropped, [Promise!Next]_(Promise!vars)
    PROVE  /\ Promise!NeverDropped'
           /\ \A m \in held \ held' : m \in done \/ (~ReliablePublish /\ m \in discarded')
<1> USE DEF held
<1>0. ReliablePublish' <=> ReliablePublish
  BY DEF ReliablePublish
<1>1. CASE UNCHANGED Promise!vars
  BY <1>0, <1>1 DEF Promise!vars, Promise!NeverDropped
<1>2. CASE Promise!Next
  BY <1>0, <1>2 DEF Promise!Next, Promise!Send, Promise!Complete, Promise!Park,
                    Promise!Revive, Promise!Forget, Promise!Drop, Promise!NeverDropped
<1> QED
  BY <1>1, <1>2

\* MessagesKept: the last copy of a message leaves the broker only after an
\* execution completed it, or, if some name is not declared or a publication was
\* rejected, by the nack of RabbitMqClient.ts:102.
THEOREM MessagesKept == Spec => Promise!Kept
<1>1. Promise!Init => Promise!NeverDropped
  BY DEF Promise!Init, Promise!NeverDropped
<1>2. Promise!NeverDropped /\ [Promise!Next]_(Promise!vars)
      => /\ Promise!NeverDropped'
         /\ [\A m \in held \ held' :
               m \in done \/ (~ReliablePublish /\ m \in discarded')]_(Promise!vars)
  BY PromiseStepKept
<1> QED
  BY <1>1, <1>2, ImplementsPromise, PTL DEF Implements, Promise!Spec, Promise!Kept, held
=============================================================================
