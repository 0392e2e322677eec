--------------------------- MODULE TxPipelineProofs ---------------------------
(* Theorems about TxPipeline, for any transactions, wallets, processes,        *)
(* handlers, crashes and failures.                                             *)
EXTENDS TxPipeline, TLAPS

\* A handler that is not idle executes a message.
LEMMA BusyTyped ==
    ASSUME TypeOK, NEW h \in Handler, Busy(h)
    PROVE  /\ handler[h] \in HandlerState
           /\ handler[h].msg \in Message
           /\ TxOf(h) \in Tx
<1>1. handler[h] \in HandlerState \cup {Idle} /\ handler[h] # Idle
  BY DEF TypeOK, Busy, Idle
<1>2. handler[h].msg \in Message
  BY <1>1 DEF HandlerState
<1> QED BY <1>1, <1>2 DEF TxOf, Message

\* What a handler that goes on is afterwards.
LEMMA GoesTo ==
    ASSUME TypeOK, NEW h \in Handler, Busy(h), NEW p \in Phase,
           handler' = [handler EXCEPT ![h].phase = p]
    PROVE  /\ handler' \in [Handler -> HandlerState \cup {Idle}]
           /\ handler'[h] \in HandlerState
           /\ handler'[h].phase = p
           /\ handler'[h].msg = handler[h].msg
           /\ \A g \in Handler \ {h} : handler'[g] = handler[g]
<1>1. handler[h] \in HandlerState
  BY BusyTyped
<1>2. [handler[h] EXCEPT !.phase = p] \in HandlerState
  BY <1>1 DEF HandlerState
<1>3. handler \in [Handler -> HandlerState \cup {Idle}]
  BY DEF TypeOK
<1>4. handler'[h] = [handler[h] EXCEPT !.phase = p]
  BY <1>3
<1>5. handler'[h].phase = p /\ handler'[h].msg = handler[h].msg
  BY <1>1, <1>4 DEF HandlerState
<1> QED BY <1>2, <1>3, <1>4, <1>5

\* A handler that takes a message or becomes idle.
LEMMA SetsOne ==
    ASSUME TypeOK, NEW h \in Handler, NEW state \in HandlerState \cup {Idle},
           handler' = [handler EXCEPT ![h] = state]
    PROVE  /\ handler' \in [Handler -> HandlerState \cup {Idle}]
           /\ handler'[h] = state
           /\ \A g \in Handler \ {h} : handler'[g] = handler[g]
BY DEF TypeOK

\* The other variables keep their types.
OthersTyped ==
    /\ queue \subseteq Message
    /\ announced \subseteq Tx \X {"sender", "receiver"}
    /\ tokens \subseteq Tx \X Token
    /\ routers \subseteq Contract
    /\ creating \subseteq Address
    /\ wallets \subseteq Address
    /\ saved \subseteq Tx /\ known \subseteq Tx /\ overtaken \subseteq Tx
    /\ lost \subseteq Message
    /\ crashes \in Nat

LEMMA TypeSplit ==
    TypeOK <=> OthersTyped /\ handler \in [Handler -> HandlerState \cup {Idle}]
BY DEF TypeOK, OthersTyped

LEMMA TypeInit == Init => TypeOK
BY PipelineAssumption DEF Init, TypeOK, TxDiscovered, Message

\* Which handlers a step of Execute moves on, and where to.
Proceeds(h) ==
    \E p \in Phase : Goes(h, p)

LEMMA ExecuteProceeds ==
    ASSUME NEW h \in Handler, Execute(h), ~Ack(h), ~Discard(h)
    PROVE  Busy(h) /\ Proceeds(h)
BY DEF Execute, ProcessTx, FindKnown, FindUnknown, PublishSwapTokens, PublishSender,
       SaveRouter, PublishReceiver, SaveTx, CallFails, Proceeds, Phase, Busy, At

LEMMA ExecuteTyped ==
    ASSUME TypeOK, NEW h \in Handler, Execute(h)
    PROVE  TypeOK'
<1> USE PipelineAssumption DEF messages, database, ghosts
<1>1. Busy(h)
  BY DEF Execute, ProcessTx, FindKnown, FindUnknown, PublishSwapTokens, PublishSender,
         SaveRouter, PublishReceiver, SaveTx, CallFails, Ack, Discard, Busy, At
<1>2. handler[h].msg \in Message /\ TxOf(h) \in Tx
  BY <1>1, BusyTyped
<1>3. handler' \in [Handler -> HandlerState \cup {Idle}]
  <2>1. CASE Ack(h) \/ Discard(h)
    BY <2>1, SetsOne DEF Ack, Discard
  <2>2. CASE ~Ack(h) /\ ~Discard(h)
    BY <1>1, <2>2, ExecuteProceeds, GoesTo DEF Proceeds, Goes
  <2> QED BY <2>1, <2>2
<1>4. OthersTyped'
  <2> USE DEF TypeOK, OthersTyped, Goes
  <2>1. CASE ProcessTx(h)
    <3>1. handler[h].msg.origin \in {"block", "history"}
      BY <1>2 DEF Message
    <3>2. {TxProcessed(t, handler[h].msg.origin) : t \in {TxOf(h)} \ Reverted} \subseteq Message
      BY <1>2, <3>1 DEF TxProcessed, Message
    <3> QED BY <2>1, <3>2 DEF ProcessTx
  <2>2. CASE FindKnown(h)
    BY <1>2, <2>2 DEF FindKnown
  <2>3. CASE FindUnknown(h)
    BY <1>2, <2>3 DEF FindUnknown
  <2>4. CASE PublishSwapTokens(h)
    <3>1. PICK some \in SUBSET Swapped[TxOf(h)] : tokens' = tokens \cup ({TxOf(h)} \X some)
      BY <2>4 DEF PublishSwapTokens
    <3>2. some \subseteq Token
      BY <1>2, <3>1
    <3>3. tokens' \subseteq Tx \X Token
      BY <1>2, <3>1, <3>2
    <3> QED BY <2>4, <3>3 DEF PublishSwapTokens
  <2>5. CASE PublishSender(h)
    BY <1>2, <2>5 DEF PublishSender
  <2>6. CASE SaveRouter(h)
    BY <1>2, <2>6 DEF SaveRouter
  <2>7. CASE PublishReceiver(h)
    BY <1>2, <2>7 DEF PublishReceiver
  <2>8. CASE SaveTx(h)
    BY <1>2, <2>8 DEF SaveTx
  <2>9. CASE CallFails(h)
    BY <2>9 DEF CallFails
  <2>10. CASE Ack(h)
    BY <2>10 DEF Ack
  <2>11. CASE Discard(h)
    BY <1>2, <2>11 DEF Discard
  <2> QED
    BY <2>1, <2>2, <2>3, <2>4, <2>5, <2>6, <2>7, <2>8, <2>9, <2>10, <2>11 DEF Execute
<1> QED BY <1>3, <1>4 DEF TypeOK, OthersTyped

LEMMA TypeNext == TypeOK /\ [Next]_vars => TypeOK'
<1> SUFFICES ASSUME TypeOK, [Next]_vars PROVE TypeOK'
  OBVIOUS
<1> USE PipelineAssumption DEF messages, database, ghosts
<1>1. ASSUME NEW h \in Handler, Execute(h) PROVE TypeOK'
  BY <1>1, ExecuteTyped
<1>2. ASSUME NEW h \in Handler, NEW m \in queue, Take(h, m) PROVE TypeOK'
  <2>1. m \in Message
    BY DEF TypeOK
  <2>2. [phase |-> IF m.channel = "tx_processed" THEN "finding" ELSE "processing",
         msg |-> m] \in HandlerState
    BY <2>1 DEF HandlerState, Phase
  <2>3. handler' \in [Handler -> HandlerState \cup {Idle}]
    BY <1>2, <2>2, SetsOne DEF Take
  <2> QED BY <1>2, <2>3 DEF Take, TypeOK
<1>3. ASSUME NEW a \in Address, PublishHistory(a) PROVE TypeOK'
  <2>1. {TxDiscovered(t, "history") : t \in OldTxs(a)} \subseteq Message
    BY DEF OldTxs, TxDiscovered, Message
  <2> QED BY <1>3, <2>1 DEF PublishHistory, TypeOK
<1>4. ASSUME NEW a \in Address, CreateWallet(a) PROVE TypeOK'
  BY <1>4 DEF CreateWallet, TypeOK
<1>5. ASSUME NEW a \in Address, CreationInterrupted(a) PROVE TypeOK'
  BY <1>5 DEF CreationInterrupted, TypeOK
<1>6. ASSUME NEW p \in Process, Crash(p) PROVE TypeOK'
  <2> DEFINE busy == {h \in Handler : Home[h] = p /\ Busy(h)}
  <2>1. {handler[h].msg : h \in busy} \subseteq Message
    BY BusyTyped
  <2>2. queue' \subseteq Message
    BY <1>6, <2>1 DEF Crash, TypeOK
  <2>3. handler' \in [Handler -> HandlerState \cup {Idle}]
    BY <1>6 DEF Crash, TypeOK
  <2> QED BY <1>6, <2>2, <2>3 DEF Crash, TypeOK
<1>7. ASSUME NEW a \in Address, HistoryInterrupted(a) PROVE TypeOK'
  <2>1. PICK some \in SUBSET OldTxs(a) :
          queue' = queue \cup {TxDiscovered(t, "history") : t \in some}
    BY <1>7 DEF HistoryInterrupted
  <2>2. {TxDiscovered(t, "history") : t \in some} \subseteq Message
    BY DEF OldTxs, TxDiscovered, Message
  <2> QED BY <1>7, <2>1, <2>2 DEF HistoryInterrupted, TypeOK
<1>8. CASE UNCHANGED vars
  BY <1>8 DEF vars, TypeOK
<1> QED BY <1>1, <1>2, <1>3, <1>4, <1>5, <1>6, <1>7, <1>8 DEF Next

\* Every variable of the pipeline keeps its type.
THEOREM PipelineTypes == Spec => []TypeOK
<1>1. Init => TypeOK
  BY TypeInit
<1>2. TypeOK /\ [Next]_vars => TypeOK'
  BY TypeNext
<1> QED BY <1>1, <1>2, PTL DEF Spec
-----------------------------------------------------------------------------
\* Side effects are never undone.
Grows ==
    /\ announced \subseteq announced' /\ tokens \subseteq tokens'
    /\ routers \subseteq routers' /\ known \subseteq known'

LEMMA EffectsGrow ==
    ASSUME Grows, NEW t \in Tx, SideEffectsDone(t)
    PROVE  SideEffectsDone(t)'
BY DEF Grows, SideEffectsDone

LEMMA StepsGrow == [Next]_vars => Grows
<1> USE DEF Grows, messages, database, ghosts
<1>1. ASSUME NEW h \in Handler, Execute(h) PROVE Grows
  <2>1. CASE ProcessTx(h) \/ FindKnown(h) \/ FindUnknown(h)
    BY <2>1 DEF ProcessTx, FindKnown, FindUnknown
  <2>2. CASE PublishSwapTokens(h) \/ PublishSender(h) \/ SaveRouter(h) \/ PublishReceiver(h)
    BY <2>2 DEF PublishSwapTokens, PublishSender, SaveRouter, PublishReceiver
  <2>3. CASE SaveTx(h) \/ CallFails(h) \/ Ack(h) \/ Discard(h)
    BY <2>3 DEF SaveTx, CallFails, Ack, Discard
  <2> QED BY <1>1, <2>1, <2>2, <2>3 DEF Execute
<1>2. ASSUME NEW h \in Handler, NEW m \in queue, Take(h, m) PROVE Grows
  BY <1>2 DEF Take
<1>3. ASSUME NEW a \in Address, PublishHistory(a) \/ HistoryInterrupted(a)
                                      \/ CreateWallet(a) \/ CreationInterrupted(a)
      PROVE  Grows
  BY <1>3 DEF PublishHistory, HistoryInterrupted, CreateWallet, CreationInterrupted
<1>4. ASSUME NEW p \in Process, Crash(p) PROVE Grows
  BY <1>4 DEF Crash
<1>5. CASE UNCHANGED vars
  BY <1>5 DEF vars
<1> QED BY <1>1, <1>2, <1>3, <1>4, <1>5 DEF Next

\* A handler that does not move keeps what its phase says.
LEMMA StillOK ==
    ASSUME Grows, TypeOK, NEW g \in Handler, HandlerOK(g), handler'[g] = handler[g]
    PROVE  HandlerOK(g)'
<1>1. TxOf(g)' = TxOf(g)
  BY DEF TxOf
<1>2. CASE At(g, "saving")
  <2>1. Busy(g)
    BY <1>2 DEF At, Busy
  <2>2. TxOf(g) \in Tx
    BY <2>1, BusyTyped
  <2>3. \A t \in Tx : SideEffectsDone(t) => SideEffectsDone(t)'
    BY EffectsGrow
  <2>4. (TxOf(g) \in known \/ SideEffectsDone(TxOf(g)))'
    BY <1>1, <1>2, <2>2, <2>3 DEF HandlerOK, Grows, SideEffectsDone
  <2> QED BY <1>2, <2>4 DEF HandlerOK, At
<1>3. CASE ~At(g, "saving")
  BY <1>1, <1>3 DEF HandlerOK, Grows, At
<1> QED BY <1>2, <1>3

\* A handler that becomes idle or takes a message has nothing to show yet.
LEMMA FreshOK ==
    ASSUME NEW g \in Handler,
           handler'[g].phase \notin {"tokens", "sender", "router", "receiver", "saving"}
    PROVE  HandlerOK(g)'
BY DEF HandlerOK, At

\* The step of a handler establishes what its next phase says.
LEMMA StepOK ==
    ASSUME TypeOK, NEW h \in Handler, HandlerOK(h), Grows, Execute(h)
    PROVE  HandlerOK(h)'
<1> DEFINE t == TxOf(h)
<1>1. Busy(h)
  BY DEF Execute, ProcessTx, FindKnown, FindUnknown, PublishSwapTokens, PublishSender,
         SaveRouter, PublishReceiver, SaveTx, CallFails, Ack, Discard, Busy, At
<1>2. t \in Tx
  BY <1>1, BusyTyped
<1>3. ASSUME NEW p \in Phase, Goes(h, p)
      PROVE  handler'[h].phase = p /\ TxOf(h)' = t
  BY <1>1, <1>3, GoesTo DEF Goes, TxOf
<1>4. CASE FindKnown(h)
  <2>1. Goes(h, "saving") /\ t \in known'
    BY <1>4 DEF FindKnown
  <2> QED BY <1>3, <2>1 DEF HandlerOK, At, Phase
<1>5. CASE FindUnknown(h)
  <2>1. CASE Goes(h, "acking")
    BY <1>3, <2>1, FreshOK DEF Phase
  <2>2. CASE Goes(h, IF Kind[t] = "swap" THEN "tokens" ELSE "sender")
    <3>1. CASE Kind[t] = "swap"
      <4>1. Goes(h, "tokens")
        BY <2>2, <3>1
      <4>2. handler'[h].phase = "tokens" /\ TxOf(h)' = t
        BY <4>1, <1>3 DEF Phase
      <4> QED BY <3>1, <4>2 DEF HandlerOK, At
    <3>2. CASE Kind[t] # "swap"
      <4>1. Goes(h, "sender")
        BY <2>2, <3>2
      <4>2. handler'[h].phase = "sender" /\ TxOf(h)' = t
        BY <4>1, <1>3 DEF Phase
      <4> QED BY <3>2, <4>2 DEF HandlerOK, At
    <3> QED BY <3>1, <3>2
  <2> QED BY <1>5, <2>1, <2>2 DEF FindUnknown
<1>6. CASE PublishSwapTokens(h)
  <2>1. CASE Goes(h, "failing")
    BY <1>3, <2>1, FreshOK DEF Phase
  <2>2. CASE ~Goes(h, "failing")
    <3>1. Goes(h, "sender") /\ {t} \X Swapped[t] \subseteq tokens'
      BY <1>6, <2>2 DEF PublishSwapTokens
    <3>2. handler'[h].phase = "sender" /\ TxOf(h)' = t
      BY <3>1, <1>3 DEF Phase
    <3> QED BY <3>1, <3>2 DEF HandlerOK, At
  <2> QED BY <2>1, <2>2
<1>7. CASE PublishSender(h)
  <2>1. <<t, "sender">> \in announced' /\ At(h, "sender")
    BY <1>7 DEF PublishSender
  <2>2. CASE Kind[t] = "swap"
    <3>1. Goes(h, "router")
      BY <1>7, <2>2 DEF PublishSender
    <3>2. handler'[h].phase = "router" /\ TxOf(h)' = t
      BY <3>1, <1>3 DEF Phase
    <3>3. {t} \X Swapped[t] \subseteq tokens'
      BY <2>1, <2>2 DEF HandlerOK, Grows, At
    <3> QED BY <2>1, <2>2, <3>2, <3>3 DEF HandlerOK, At
  <2>3. CASE Kind[t] # "swap"
    <3>1. Goes(h, "saving")
      BY <1>7, <2>3 DEF PublishSender
    <3>2. handler'[h].phase = "saving" /\ TxOf(h)' = t
      BY <3>1, <1>3 DEF Phase
    <3> QED BY <2>1, <2>3, <3>2 DEF HandlerOK, At, SideEffectsDone
  <2> QED BY <2>2, <2>3
<1>8. CASE SaveRouter(h)
  <2>1. /\ Router[t] \in routers' /\ Kind[t] = "swap"
        /\ {t} \X Swapped[t] \subseteq tokens' /\ <<t, "sender">> \in announced'
    BY <1>8 DEF SaveRouter, HandlerOK, At, Grows
  <2>2. CASE Sender[t] = Receiver[t]
    <3>1. Goes(h, "receiver")
      BY <1>8, <2>2 DEF SaveRouter, swapOutAddressIsNotSender
    <3>2. handler'[h].phase = "receiver" /\ TxOf(h)' = t
      BY <3>1, <1>3 DEF Phase
    <3> QED BY <2>1, <3>2 DEF HandlerOK, At
  <2>3. CASE Sender[t] # Receiver[t]
    <3>1. Goes(h, "saving")
      BY <1>8, <2>3 DEF SaveRouter, swapOutAddressIsNotSender
    <3>2. handler'[h].phase = "saving" /\ TxOf(h)' = t
      BY <3>1, <1>3 DEF Phase
    <3> QED BY <2>1, <2>3, <3>2 DEF HandlerOK, At, SideEffectsDone
  <2> QED BY <2>2, <2>3
<1>9. CASE PublishReceiver(h)
  <2>1. /\ Router[t] \in routers' /\ Kind[t] = "swap" /\ <<t, "receiver">> \in announced'
        /\ {t} \X Swapped[t] \subseteq tokens' /\ <<t, "sender">> \in announced'
    BY <1>9 DEF PublishReceiver, HandlerOK, At, Grows
  <2>2. handler'[h].phase = "saving" /\ TxOf(h)' = t
    BY <1>9, <1>3 DEF PublishReceiver, Phase
  <2> QED BY <2>1, <2>2 DEF HandlerOK, At, SideEffectsDone
<1>10. CASE ProcessTx(h) \/ SaveTx(h) \/ CallFails(h)
  <2>1. Goes(h, "acking") \/ Goes(h, "failing")
    BY <1>10 DEF ProcessTx, SaveTx, CallFails
  <2> QED BY <1>3, <2>1, FreshOK DEF Phase
<1>11. CASE Ack(h) \/ Discard(h)
  <2>1. handler'[h] = Idle
    BY <1>11, SetsOne DEF Ack, Discard
  <2> QED BY <2>1, FreshOK DEF Idle
<1> QED
  BY <1>4, <1>5, <1>6, <1>7, <1>8, <1>9, <1>10, <1>11 DEF Execute

\* The other handlers do not move with it.
LEMMA OthersStay ==
    ASSUME TypeOK, NEW h \in Handler, Execute(h)
    PROVE  \A g \in Handler \ {h} : handler'[g] = handler[g]
<1>1. CASE Ack(h) \/ Discard(h)
  BY <1>1, SetsOne DEF Ack, Discard
<1>2. CASE ~Ack(h) /\ ~Discard(h)
  BY <1>2, ExecuteProceeds, GoesTo DEF Proceeds, Goes
<1> QED BY <1>1, <1>2

LEMMA HandlersNext == TypeOK /\ HandlersOK /\ [Next]_vars => HandlersOK'
<1> SUFFICES ASSUME TypeOK, HandlersOK, [Next]_vars, NEW g \in Handler
             PROVE  HandlerOK(g)'
  BY DEF HandlersOK
<1>0. Grows /\ HandlerOK(g)
  BY StepsGrow DEF HandlersOK
<1>1. ASSUME NEW h \in Handler, Execute(h) PROVE HandlerOK(g)'
  BY <1>0, <1>1, StepOK, OthersStay, StillOK
<1>2. ASSUME NEW h \in Handler, NEW m \in queue, Take(h, m) PROVE HandlerOK(g)'
  <2>1. CASE g = h
    <3>1. handler'[g].phase \in {"finding", "processing"}
      BY <1>2, <2>1 DEF Take, TypeOK
    <3> QED BY <3>1, FreshOK
  <2>2. CASE g # h
    <3>1. handler'[g] = handler[g]
      BY <1>2, <2>2 DEF Take, TypeOK
    <3> QED BY <1>0, <3>1, StillOK
  <2> QED BY <2>1, <2>2
<1>3. ASSUME NEW a \in Address, PublishHistory(a) \/ HistoryInterrupted(a)
                                      \/ CreateWallet(a) \/ CreationInterrupted(a)
      PROVE  HandlerOK(g)'
  <2>1. handler' = handler
    BY <1>3 DEF PublishHistory, HistoryInterrupted, CreateWallet, CreationInterrupted
  <2> QED BY <1>0, <2>1, StillOK
<1>4. ASSUME NEW p \in Process, Crash(p) PROVE HandlerOK(g)'
  <2>1. handler'[g] \in {Idle, handler[g]}
    BY <1>4 DEF Crash
  <2> QED BY <1>0, <2>1, StillOK, FreshOK DEF Idle
<1>5. CASE UNCHANGED vars
  BY <1>0, <1>5, StillOK DEF vars
<1> QED BY <1>1, <1>2, <1>3, <1>4, <1>5 DEF Next

\* Only SaveTx adds to the saved transactions.
LEMMA SavedNext ==
    ASSUME [Next]_vars
    PROVE  saved' = saved \/ \E h \in Handler : At(h, "saving") /\ saved' = saved \cup {TxOf(h)}
<1> USE DEF messages, database
<1>1. ASSUME NEW h \in Handler, Execute(h), ~SaveTx(h) PROVE saved' = saved
  <2>1. CASE ProcessTx(h) \/ FindKnown(h) \/ FindUnknown(h)
    BY <2>1 DEF ProcessTx, FindKnown, FindUnknown
  <2>2. CASE PublishSwapTokens(h) \/ PublishSender(h) \/ SaveRouter(h) \/ PublishReceiver(h)
    BY <2>2 DEF PublishSwapTokens, PublishSender, SaveRouter, PublishReceiver
  <2>3. CASE CallFails(h) \/ Ack(h) \/ Discard(h)
    BY <2>3 DEF CallFails, Ack, Discard
  <2> QED BY <1>1, <2>1, <2>2, <2>3 DEF Execute
<1>2. ASSUME NEW h \in Handler, SaveTx(h)
      PROVE  At(h, "saving") /\ saved' = saved \cup {TxOf(h)}
  BY <1>2 DEF SaveTx
<1>3. ASSUME NEW h \in Handler, NEW m \in queue, Take(h, m) PROVE saved' = saved
  BY <1>3 DEF Take
<1>4. ASSUME NEW a \in Address, PublishHistory(a) \/ HistoryInterrupted(a)
                                      \/ CreateWallet(a) \/ CreationInterrupted(a)
      PROVE  saved' = saved
  BY <1>4 DEF PublishHistory, HistoryInterrupted, CreateWallet, CreationInterrupted
<1>5. ASSUME NEW p \in Process, Crash(p) PROVE saved' = saved
  BY <1>5 DEF Crash
<1>6. CASE UNCHANGED vars
  BY <1>6 DEF vars
<1> QED BY <1>1, <1>2, <1>3, <1>4, <1>5, <1>6 DEF Next

LEMMA EffectsNext ==
    TypeOK /\ HandlersOK /\ EffectsFirst /\ [Next]_vars => EffectsFirst'
<1> SUFFICES ASSUME TypeOK, HandlersOK, EffectsFirst, [Next]_vars,
                    NEW t \in saved', t \notin known'
             PROVE  SideEffectsDone(t)'
  BY DEF EffectsFirst
<1>1. Grows
  BY StepsGrow
<1>2. CASE t \in saved
  <2>1. t \in Tx /\ SideEffectsDone(t)
    BY <1>1, <1>2 DEF EffectsFirst, Grows, TypeOK
  <2> QED BY <1>1, <2>1, EffectsGrow
<1>3. CASE t \notin saved
  <2>1. PICK h \in Handler : At(h, "saving") /\ t = TxOf(h)
    BY <1>3, SavedNext
  <2>2. t \in Tx
    BY <2>1, BusyTyped DEF At, Busy
  <2>3. SideEffectsDone(t)
    BY <1>1, <2>1 DEF HandlersOK, HandlerOK, Grows
  <2> QED BY <1>1, <2>2, <2>3, EffectsGrow
<1> QED BY <1>2, <1>3

\* What each phase of a handler says of its transaction always holds, so a
\* transaction saved for a sender nobody knew has had all its side effects.
THEOREM EffectsCorrect == Spec => [](HandlersOK /\ EffectsFirst)
<1> DEFINE Inv == TypeOK /\ HandlersOK /\ EffectsFirst
<1>1. Init => Inv
  BY TypeInit, FreshOK DEF Init, HandlersOK, HandlerOK, EffectsFirst, Idle, At
<1>2. Inv /\ [Next]_vars => Inv'
  BY TypeNext, HandlersNext, EffectsNext
<1> QED BY <1>1, <1>2, PTL DEF Spec

\* HandlersCorrect: the part of it about the handlers: how far a handler has come
\* says which side effects are behind it, whoever else works on its transaction.
THEOREM HandlersCorrect == Spec => []HandlersOK
BY EffectsCorrect, PTL
-----------------------------------------------------------------------------
\* A handler that has a copy of t that came with its block, or from a history.
Carries(h, t, o) ==
    Busy(h) /\ ~At(h, "acking") /\ TxOf(h) = t /\ handler[h].msg.origin = o

Queued(t, o) == TxDiscovered(t, o) \in queue \/ TxProcessed(t, o) \in queue

\* What has become of the copy, and whether SaveTxOfInterest does not drop it as a
\* stranger's (or drops it only while its wallet is being created).
Overtaken(t, o) == o = "history" /\ t \in overtaken
Explained(t, o) == t \in saved \/ Overtaken(t, o) \/ OnItsWay(t, o) \/ Discarded(t, o)
Wanted(t, o) ==
    \/ OfInterest(t) \/ Sender[t] \in wallets
    \/ o = "history" /\ Sender[t] \in creating

LEMMA OnItsWaySplit ==
    ASSUME NEW t \in Tx, NEW o
    PROVE  OnItsWay(t, o) <=> Queued(t, o) \/ \E h \in Handler : Carries(h, t, o)
BY DEF OnItsWay, Queued, Carries

\* Such a copy is one of two messages.
LEMMA CarriedMessage ==
    ASSUME TypeOK, NEW h \in Handler, NEW t \in Tx, NEW o, Carries(h, t, o)
    PROVE  handler[h].msg \in {TxDiscovered(t, o), TxProcessed(t, o)}
<1>1. handler[h].msg \in Message /\ handler[h].msg.tx = t
  BY BusyTyped DEF Carries, TxOf
<1>2. handler[h].msg.origin = o
  BY DEF Carries
<1> QED BY <1>1, <1>2 DEF Message, TxDiscovered, TxProcessed

\* The step of a handler leaves what is saved, overtaken, discarded and queued.
LEMMA ExecuteGrows ==
    ASSUME NEW h \in Handler, Execute(h)
    PROVE  /\ saved \subseteq saved' /\ overtaken \subseteq overtaken'
           /\ lost \subseteq lost' /\ queue \subseteq queue'
           /\ UNCHANGED <<creating, wallets>>
<1> USE DEF messages, database, ghosts, Goes
<1>1. CASE ProcessTx(h) \/ FindKnown(h) \/ FindUnknown(h)
  BY <1>1 DEF ProcessTx, FindKnown, FindUnknown
<1>2. CASE PublishSwapTokens(h) \/ PublishSender(h) \/ SaveRouter(h) \/ PublishReceiver(h)
  BY <1>2 DEF PublishSwapTokens, PublishSender, SaveRouter, PublishReceiver
<1>3. CASE SaveTx(h) \/ CallFails(h) \/ Ack(h) \/ Discard(h)
  BY <1>3 DEF SaveTx, CallFails, Ack, Discard
<1> QED BY <1>1, <1>2, <1>3 DEF Execute

\* A handler that carries t and goes on to any phase but the last still does.
LEMMA CarriesOn ==
    ASSUME TypeOK, NEW h \in Handler, NEW t \in Tx, NEW o, Carries(h, t, o),
           NEW p \in Phase, Goes(h, p), p # "acking"
    PROVE  Carries(h, t, o)'
<1>1. handler'[h].phase = p /\ handler'[h].msg = handler[h].msg
  BY GoesTo DEF Goes, Carries
<1> QED BY <1>1 DEF Carries, Busy, At, TxOf, Phase

\* A handler that does not move carries what it carried.
LEMMA StillCarries ==
    ASSUME NEW h \in Handler, NEW t, NEW o, Carries(h, t, o), handler'[h] = handler[h]
    PROVE  Explained(t, o)'
<1>1. Carries(h, t, o)'
  BY DEF Carries, Busy, At, TxOf
<1> QED BY <1>1 DEF Explained, OnItsWay, Carries

\* Nor is a copy lost that is waiting, has been saved or is given up.
LEMMA StillExplained ==
    ASSUME NEW t, NEW o, queue \subseteq queue', saved \subseteq saved',
           overtaken \subseteq overtaken', lost \subseteq lost',
           t \in saved \/ Overtaken(t, o) \/ Queued(t, o) \/ Discarded(t, o)
    PROVE  Explained(t, o)'
BY DEF Explained, Overtaken, OnItsWay, Queued, Discarded, TxDiscovered, TxProcessed

\* The step of the handler that carries a wanted copy does not lose sight of it.
LEMMA CarrierStep ==
    ASSUME TypeOK, NEW h \in Handler, Execute(h), NEW t \in Tx \ Reverted, NEW o,
           Carries(h, t, o), Wanted(t, o)
    PROVE  Explained(t, o)'
<1>1. TxOf(h) = t /\ handler[h].msg.origin = o
  BY DEF Carries
<1>2. ASSUME NEW p \in Phase, Goes(h, p), p # "acking" PROVE Explained(t, o)'
  <2>1. Carries(h, t, o)'
    BY <1>2, CarriesOn
  <2> QED BY <2>1 DEF Explained, OnItsWay, Carries
<1>3. CASE ProcessTx(h)
  <2>1. TxProcessed(t, o) \in queue'
    BY <1>1, <1>3 DEF ProcessTx
  <2> QED BY <2>1 DEF Explained, OnItsWay, TxProcessed
<1>4. CASE FindKnown(h)
  BY <1>2, <1>4 DEF FindKnown, Phase
<1>5. CASE FindUnknown(h)
  <2>1. CASE OfInterest(t)
    <3>1. PICK p \in {"tokens", "sender"} : Goes(h, p)
      BY <1>1, <1>5, <2>1 DEF FindUnknown
    <3> QED BY <1>2, <3>1 DEF Phase
  <2>2. CASE ~OfInterest(t)
    <3>1. o = "history" /\ t \in overtaken'
      BY <1>1, <1>5, <2>2 DEF FindUnknown, Wanted
    <3> QED BY <3>1 DEF Explained, Overtaken
  <2> QED BY <2>1, <2>2
<1>6. CASE PublishSwapTokens(h)
  BY <1>2, <1>6 DEF PublishSwapTokens, Phase
<1>7. CASE PublishSender(h)
  <2>1. PICK p \in {"router", "saving"} : Goes(h, p)
    BY <1>7 DEF PublishSender
  <2> QED BY <1>2, <2>1 DEF Phase
<1>8. CASE SaveRouter(h)
  <2>1. PICK p \in {"receiver", "saving"} : Goes(h, p)
    BY <1>8 DEF SaveRouter
  <2> QED BY <1>2, <2>1 DEF Phase
<1>9. CASE PublishReceiver(h)
  BY <1>2, <1>9 DEF PublishReceiver, Phase
<1>10. CASE SaveTx(h)
  <2>1. t \in saved'
    BY <1>1, <1>10 DEF SaveTx
  <2> QED BY <2>1 DEF Explained
<1>11. CASE CallFails(h)
  BY <1>2, <1>11 DEF CallFails, Phase
<1>12. CASE Ack(h)
  BY <1>12 DEF Ack, Carries
<1>13. CASE Discard(h)
  <2>1. handler[h].msg \in lost'
    BY <1>13 DEF Discard
  <2>2. TxDiscovered(t, o) \in lost' \/ TxProcessed(t, o) \in lost'
    BY <2>1, CarriedMessage
  <2> QED BY <2>2 DEF Explained, Discarded, TxDiscovered, TxProcessed
<1> QED
  BY <1>3, <1>4, <1>5, <1>6, <1>7, <1>8, <1>9, <1>10, <1>11, <1>12, <1>13 DEF Execute

\* What has become of a wanted copy stays explained, whatever step is taken.
LEMMA ExplainedNext ==
    ASSUME TypeOK, [Next]_vars, NEW t \in Tx \ Reverted, NEW o,
           Explained(t, o), Wanted(t, o)
    PROVE  Explained(t, o)'
<1> DEFINE Settled == t \in saved \/ Overtaken(t, o) \/ Discarded(t, o)
<1>0. Settled \/ Queued(t, o) \/ \E g \in Handler : Carries(g, t, o)
  BY OnItsWaySplit DEF Explained
<1> USE DEF messages, database, ghosts
<1>1. ASSUME NEW h \in Handler, Execute(h) PROVE Explained(t, o)'
  <2>1. CASE Settled \/ Queued(t, o)
    BY <1>1, <2>1, ExecuteGrows, StillExplained
  <2>2. ASSUME NEW g \in Handler, Carries(g, t, o) PROVE Explained(t, o)'
    <3>1. CASE g = h
      BY <1>1, <2>2, <3>1, CarrierStep
    <3>2. CASE g # h
      BY <1>1, <2>2, <3>2, OthersStay, StillCarries
    <3> QED BY <3>1, <3>2
  <2> QED BY <1>0, <2>1, <2>2
<1>2. ASSUME NEW h \in Handler, NEW m \in queue, Take(h, m) PROVE Explained(t, o)'
  <2>1. UNCHANGED <<saved, overtaken, lost>> /\ queue' = queue \ {m}
    BY <1>2 DEF Take
  <2>2. CASE Settled
    BY <2>1, <2>2 DEF Explained, Overtaken, Discarded, TxDiscovered, TxProcessed
  <2>3. handler'[h].msg = m /\ handler'[h].phase \in {"finding", "processing"}
    BY <1>2 DEF Take, TypeOK
  <2>4. CASE Queued(t, o)
    <3>1. CASE m \in {TxDiscovered(t, o), TxProcessed(t, o)}
      <4>1. m.tx = t /\ m.origin = o
        BY <3>1 DEF TxDiscovered, TxProcessed
      <4>2. Carries(h, t, o)'
        BY <2>3, <4>1 DEF Carries, Busy, At, TxOf
      <4> QED BY <4>2 DEF Explained, OnItsWay, Carries
    <3>2. CASE m \notin {TxDiscovered(t, o), TxProcessed(t, o)}
      <4>1. Queued(t, o)'
        BY <2>1, <2>4, <3>2 DEF Queued, TxDiscovered, TxProcessed
      <4> QED BY <4>1 DEF Explained, OnItsWay, Queued
    <3> QED BY <3>1, <3>2
  <2>5. ASSUME NEW g \in Handler, Carries(g, t, o) PROVE Explained(t, o)'
    <3>1. g # h
      BY <1>2, <2>5 DEF Take, Carries
    <3>2. handler'[g] = handler[g]
      BY <1>2, <3>1 DEF Take, TypeOK
    <3> QED BY <2>5, <3>2, StillCarries
  <2> QED BY <1>0, <2>2, <2>4, <2>5
<1>3. ASSUME NEW a \in Address, PublishHistory(a) \/ HistoryInterrupted(a)
                                      \/ CreateWallet(a) \/ CreationInterrupted(a)
      PROVE  Explained(t, o)'
  <2>1. queue \subseteq queue' /\ UNCHANGED <<handler, saved, overtaken, lost>>
    BY <1>3 DEF PublishHistory, HistoryInterrupted, CreateWallet, CreationInterrupted
  <2>2. CASE Settled \/ Queued(t, o)
    BY <2>1, <2>2, StillExplained
  <2>3. ASSUME NEW g \in Handler, Carries(g, t, o) PROVE Explained(t, o)'
    BY <2>1, <2>3, StillCarries
  <2> QED BY <1>0, <2>2, <2>3
<1>4. ASSUME NEW p \in Process, Crash(p) PROVE Explained(t, o)'
  <2>1. queue \subseteq queue' /\ UNCHANGED <<saved, overtaken, lost>>
    BY <1>4 DEF Crash
  <2>2. CASE Settled \/ Queued(t, o)
    BY <2>1, <2>2, StillExplained
  <2>3. ASSUME NEW g \in Handler, Carries(g, t, o) PROVE Explained(t, o)'
    <3>1. CASE Home[g] = p
      <4>1. handler[g].msg \in queue'
        BY <1>4, <2>3, <3>1 DEF Crash, Carries
      <4>2. Queued(t, o)'
        BY <2>3, <4>1, CarriedMessage DEF Queued, TxDiscovered, TxProcessed
      <4> QED BY <4>2 DEF Explained, OnItsWay, Queued
    <3>2. CASE Home[g] # p
      <4>1. handler'[g] = handler[g]
        BY <1>4, <3>2 DEF Crash
      <4> QED BY <2>3, <4>1, StillCarries
    <3> QED BY <3>1, <3>2
  <2> QED BY <1>0, <2>2, <2>3
<1>5. CASE UNCHANGED vars
  BY <1>5 DEF vars, Explained, Overtaken, OnItsWay, Discarded, Busy, At, TxOf,
              TxDiscovered, TxProcessed
<1> QED BY <1>1, <1>2, <1>3, <1>4, <1>5 DEF Next

\* Who is a wallet remains one, and whose wallet is being created gets it or must
\* have its history published anew; only that publication begins a creation.
LEMMA WalletsNext ==
    ASSUME [Next]_vars
    PROVE  /\ wallets \subseteq wallets'
           /\ \/ creating' \cup wallets' \subseteq creating \cup wallets
              \/ \E a \in Address : /\ PublishHistory(a)
                                    /\ creating' \cup wallets' = creating \cup wallets \cup {a}
<1> USE DEF messages, database, ghosts
<1>1. ASSUME NEW h \in Handler, Execute(h) PROVE UNCHANGED <<creating, wallets>>
  BY <1>1, ExecuteGrows
<1>2. ASSUME NEW h \in Handler, NEW m \in queue, Take(h, m)
      PROVE  UNCHANGED <<creating, wallets>>
  BY <1>2 DEF Take
<1>3. ASSUME NEW a \in Address, PublishHistory(a)
      PROVE  wallets' = wallets /\ creating' = creating \cup {a}
  BY <1>3 DEF PublishHistory
<1>4. ASSUME NEW a \in Address, HistoryInterrupted(a) \/ CreateWallet(a) \/ CreationInterrupted(a)
      PROVE  /\ wallets \subseteq wallets'
             /\ creating' \cup wallets' \subseteq creating \cup wallets
  BY <1>4 DEF HistoryInterrupted, CreateWallet, CreationInterrupted
<1>5. ASSUME NEW p \in Process, Crash(p) PROVE UNCHANGED <<creating, wallets>>
  BY <1>5 DEF Crash
<1>6. CASE UNCHANGED vars
  BY <1>6 DEF vars
<1> QED BY <1>1, <1>2, <1>3, <1>4, <1>5, <1>6 DEF Next

LEMMA OldTxsNext == TypeOK /\ OldTxsExplained /\ [Next]_vars => OldTxsExplained'
<1> SUFFICES ASSUME TypeOK, OldTxsExplained, [Next]_vars, NEW t \in Tx \ Reverted,
                    Sender[t] \in (creating' \cup wallets') \ Followed
             PROVE  Explained(t, "history")'
  BY DEF OldTxsExplained, Explained, Overtaken, OnItsWay, Discarded
<1>1. CASE Sender[t] \in creating \cup wallets
  <2>1. Explained(t, "history") /\ Wanted(t, "history")
    BY <1>1 DEF OldTxsExplained, Explained, Overtaken, Wanted
  <2> QED BY <2>1, ExplainedNext
<1>2. CASE Sender[t] \notin creating \cup wallets
  <2>1. PublishHistory(Sender[t])
    BY <1>2, WalletsNext
  <2>2. TxDiscovered(t, "history") \in queue'
    BY <2>1 DEF PublishHistory, OldTxs
  <2> QED BY <2>2 DEF Explained, OnItsWay, TxDiscovered
<1> QED BY <1>1, <1>2

\* An old transaction of a wallet that was found is saved, on its way, discarded
\* after a failure, or was overtaken by the pipeline while the wallet was created.
THEOREM OldTxsCorrect == Spec => []OldTxsExplained
<1>1. Init => TypeOK /\ OldTxsExplained
  BY TypeInit DEF Init, OldTxsExplained
<1>2. TypeOK /\ OldTxsExplained /\ [Next]_vars => TypeOK' /\ OldTxsExplained'
  BY TypeNext, OldTxsNext
<1> QED BY <1>1, <1>2, PTL DEF Spec
-----------------------------------------------------------------------------
\* The wallets followed from the start are never removed.
StillFollowed == Followed \subseteq wallets

LEMMA AnnouncedNext ==
    TypeOK /\ StillFollowed /\ AnnouncedExplained /\ [Next]_vars
      => StillFollowed' /\ AnnouncedExplained'
<1> SUFFICES ASSUME TypeOK, StillFollowed, AnnouncedExplained, [Next]_vars
             PROVE  StillFollowed' /\ AnnouncedExplained'
  OBVIOUS
<1>1. StillFollowed'
  BY WalletsNext DEF StillFollowed
<1>2. ASSUME NEW t \in InBlocks \ Reverted, OfInterest(t) \/ Sender[t] \in Followed
      PROVE  Explained(t, "block")'
  <2>1. t \in Tx \ Reverted
    BY PipelineAssumption
  <2>2. Explained(t, "block") /\ Wanted(t, "block")
    BY <1>2 DEF AnnouncedExplained, StillFollowed, Explained, Wanted
  <2> QED BY <2>1, <2>2, ExplainedNext
<1>3. AnnouncedExplained'
  BY <1>2 DEF AnnouncedExplained, Explained, Overtaken, OfInterest, OnItsWay, Discarded
<1> QED BY <1>1, <1>3

\* A transaction announced with its block that is large enough, or sent by a
\* followed wallet, is saved, on its way or discarded after a failure: processes
\* that exit, copies of it and new wallets make none disappear.
THEOREM AnnouncedCorrect == Spec => []AnnouncedExplained
<1>1. Init => TypeOK /\ StillFollowed /\ AnnouncedExplained
  BY TypeInit DEF Init, StillFollowed, AnnouncedExplained, OnItsWay
<1>2. TypeOK /\ StillFollowed /\ AnnouncedExplained /\ [Next]_vars
        => TypeOK' /\ StillFollowed' /\ AnnouncedExplained'
  BY TypeNext, AnnouncedNext
<1> QED BY <1>1, <1>2, PTL DEF Spec
-----------------------------------------------------------------------------
\* NoneDiscarded: no execution has failed, so that no message was discarded.
NoneDiscarded == lost = {} /\ \A h \in Handler : ~At(h, "failing")

LEMMA NoneDiscardedNext ==
    ASSUME ~MayFail
    PROVE  TypeOK /\ NoneDiscarded /\ [Next]_vars => NoneDiscarded'
<1> SUFFICES ASSUME TypeOK, NoneDiscarded, [Next]_vars PROVE NoneDiscarded'
  OBVIOUS
<1> USE DEF messages, database, ghosts
<1>1. ASSUME NEW h \in Handler, Execute(h) PROVE NoneDiscarded'
  <2>1. ~Discard(h) /\ ~CallFails(h)
    BY DEF Discard, CallFails, NoneDiscarded
  <2>2. CASE Ack(h)
    <3>1. handler'[h] = Idle /\ lost' = lost
      BY <2>2, SetsOne DEF Ack
    <3>2. \A g \in Handler \ {h} : handler'[g] = handler[g]
      BY <1>1, OthersStay
    <3> QED BY <3>1, <3>2 DEF NoneDiscarded, At, Idle
  <2>3. CASE ~Ack(h)
    <3>1. PICK p \in Phase \ {"failing"} : Goes(h, p)
      <4>1. CASE ProcessTx(h) \/ FindKnown(h)
        BY <4>1 DEF ProcessTx, FindKnown, Phase
      <4>2. CASE FindUnknown(h)
        <5>1. \E p \in {"tokens", "sender", "acking"} : Goes(h, p)
          BY <4>2 DEF FindUnknown
        <5> QED BY <5>1 DEF Phase
      <4>3. CASE PublishSwapTokens(h) \/ PublishReceiver(h) \/ SaveTx(h)
        BY <4>3 DEF PublishSwapTokens, PublishReceiver, SaveTx, Phase
      <4>4. CASE PublishSender(h) \/ SaveRouter(h)
        <5>1. \E p \in {"router", "receiver", "saving"} : Goes(h, p)
          BY <4>4 DEF PublishSender, SaveRouter
        <5> QED BY <5>1 DEF Phase
      <4> QED BY <1>1, <2>1, <2>3, <4>1, <4>2, <4>3, <4>4 DEF Execute
    <3>2. Busy(h)
      BY <1>1, <2>1, <2>3, ExecuteProceeds
    <3>3. handler'[h].phase = p /\ \A g \in Handler \ {h} : handler'[g] = handler[g]
      BY <3>1, <3>2, GoesTo DEF Goes
    <3>4. lost' = lost
      BY <3>1 DEF Goes
    <3> QED BY <3>3, <3>4 DEF NoneDiscarded, At
  <2> QED BY <2>2, <2>3
<1>2. ASSUME NEW h \in Handler, NEW m \in queue, Take(h, m) PROVE NoneDiscarded'
  <2>1. /\ handler'[h].phase \in {"finding", "processing"}
        /\ \A g \in Handler \ {h} : handler'[g] = handler[g]
        /\ lost' = lost
    BY <1>2 DEF Take, TypeOK
  <2> QED BY <2>1 DEF NoneDiscarded, At
<1>3. ASSUME NEW a \in Address, PublishHistory(a) \/ HistoryInterrupted(a)
                                      \/ CreateWallet(a) \/ CreationInterrupted(a)
      PROVE  NoneDiscarded'
  BY <1>3 DEF PublishHistory, HistoryInterrupted, CreateWallet, CreationInterrupted,
              NoneDiscarded, At
<1>4. ASSUME NEW p \in Process, Crash(p) PROVE NoneDiscarded'
  <2>1. lost' = lost /\ \A g \in Handler : handler'[g] \in {Idle, handler[g]}
    BY <1>4 DEF Crash
  <2> QED BY <2>1 DEF NoneDiscarded, At, Idle
<1>5. CASE UNCHANGED vars
  BY <1>5 DEF vars, NoneDiscarded, At
<1> QED BY <1>1, <1>2, <1>3, <1>4, <1>5 DEF Next

\* Without failing calls, whatever exits, a transaction announced with its block
\* that is large enough, or sent by a followed wallet, is saved or on its way: no
\* path through the pipeline but a failed execution discards one.
THEOREM NoneLostWithoutFailure ==
    ASSUME ~MayFail
    PROVE  Spec => [](\A t \in InBlocks \ Reverted :
                         OfInterest(t) \/ Sender[t] \in Followed
                           => t \in saved \/ OnItsWay(t, "block"))
<1>1. Init => NoneDiscarded
  BY DEF Init, NoneDiscarded, At, Idle
<1>2. Spec => []NoneDiscarded
  BY <1>1, NoneDiscardedNext, PipelineTypes, PTL DEF Spec
<1>3. AnnouncedExplained /\ NoneDiscarded
        => \A t \in InBlocks \ Reverted : OfInterest(t) \/ Sender[t] \in Followed
              => t \in saved \/ OnItsWay(t, "block")
  BY DEF AnnouncedExplained, NoneDiscarded, Discarded
<1> QED BY <1>2, <1>3, AnnouncedCorrect, PTL
-----------------------------------------------------------------------------
\* The publication that would bring a failed message back to its handlers is named
\* after their queue, and so does not exist under the name the executor uses.
THEOREM NeverBroughtBack ==
    \A m \in Message : ~PublicationDeclared(AddDirectPubPrefix(m.channel))
<1> SUFFICES ASSUME NEW c \in {"discovered_tx_to_process", "tx_processed"}
             PROVE  ~PublicationDeclared(AddDirectPubPrefix(c))
  BY DEF Message
<1> DEFINE direct == {AddDirectPubPrefix(SubscriptionQueue[n].base) : n \in DeadAndRetrySubs}
<1>1. \A x : AddDirectPubPrefix(x).prefix = "_direct_" /\ AddDirectPubPrefix(x).base = x
  BY DEF AddDirectPubPrefix
<1>2. ASSUME NEW n \in DeadAndRetrySubs
      PROVE  /\ n.prefix \in {"_retry_", "_dead_"}
             /\ SubscriptionQueue[n].base \in {"process_tx", "save_tx_of_interest",
                                               "save_token", "save_wallet"}
  <2>1. PICK s \in Subscription : n = AddRetryPrefix(s) \/ n = AddDeadPrefix(s)
    BY DEF DeadAndRetrySubs
  <2>2. n.prefix \in {"_retry_", "_dead_"} /\ n.base = s
    BY <2>1 DEF AddRetryPrefix, AddDeadPrefix
  <2>3. SubscriptionQueue[n] = [prefix |-> n.prefix, base |-> SubscribedQueue[n.base]]
    BY DEF SubscriptionQueue
  <2>4. SubscribedQueue[s] \in {"process_tx", "save_tx_of_interest",
                                "save_token", "save_wallet"}
    BY DEF SubscribedQueue, Subscription
  <2> QED BY <2>2, <2>3, <2>4
<1>3. DOMAIN QueuePublication = DeadAndRetrySubs \cup direct
  BY DEF QueuePublication
<1>4. AddDirectPubPrefix(c) \notin DeadAndRetrySubs
  BY <1>1, <1>2
<1>5. AddDirectPubPrefix(c) \notin direct
  BY <1>1, <1>2
<1>6. AddDirectPubPrefix(c).prefix # ""
  BY <1>1
<1> QED BY <1>3, <1>4, <1>5, <1>6 DEF PublicationDeclared
=============================================================================
