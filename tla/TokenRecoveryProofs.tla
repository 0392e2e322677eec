-------------------------- MODULE TokenRecoveryProofs -------------------------
(* Theorems about TokenRecovery, for any number of tokens, handlers, processes, *)
(* retries, crashes and failures.                                              *)
EXTENDS TokenRecovery, TLAPS

LEMMA TokensInit == Init => TypeOK /\ CopiesOK
BY TokenAssumption DEF Init, TypeOK, CopiesOK, At, Idle, Holding

\* A handler that is not idle is executing a message.
LEMMA BusyHandler ==
    ASSUME TypeOK, NEW h \in Handler, Busy(h)
    PROVE  /\ handler[h] \in HandlerState
           /\ TokenOf(h) \in Token
           /\ handler[h].retries \in 0..MaxRetries
<1>1. handler[h] \in HandlerState
  BY DEF TypeOK, Busy, At, Idle
<1> QED
  BY <1>1 DEF HandlerState, TokenOf

\* The states a step of its own brings a busy handler to.
LEMMA HandlerStates ==
    ASSUME TypeOK, NEW h \in Handler, Busy(h)
    PROVE  /\ \A p \in Phase : [handler[h] EXCEPT !.phase = p] \in HandlerState
           /\ \A p \in Phase : Over(h, p) \in HandlerState
           /\ \A p \in Phase, s \in Source, m \in BOOLEAN :
                 [handler[h] EXCEPT !.phase = p, !.source = s, !.mark = m,
                                    !.overlapped = FALSE] \in HandlerState
           /\ [handler[h] EXCEPT !.phase = "saving", !.source = "cache"] \in HandlerState
<1>1. /\ handler[h] \in HandlerState /\ TokenOf(h) \in Token
      /\ handler[h].retries \in 0..MaxRetries
  BY BusyHandler
<1> QED
  BY <1>1 DEF HandlerState, Phase, Source, Over

\* A write overtakes handlers, and changes nothing else about them.
LEMMA OvertakeTypes ==
    ASSUME TypeOK, NEW t
    PROVE  Overtake(t) \in [Handler -> HandlerState \cup {Idle}]
<1>1. ASSUME NEW g \in Handler, handler[g].phase \in Holding
      PROVE  [handler[g] EXCEPT !.overlapped = TRUE] \in HandlerState
  <2>1. handler[g] \in HandlerState
    BY <1>1 DEF TypeOK, Idle, Holding
  <2> QED
    BY <2>1 DEF HandlerState
<1>2. \A g \in Handler : handler[g] \in HandlerState \cup {Idle}
  BY DEF TypeOK
<1> QED
  BY <1>1, <1>2 DEF Overtake
-----------------------------------------------------------------------------
LEMMA TokensExecute ==
    ASSUME TypeOK, CopiesOK, NEW h \in Handler, Execute(h)
    PROVE  TypeOK' /\ CopiesOK'
<1>1. Busy(h)
  BY DEF Execute, FindCached, FindStored, FindNothing, CacheCopy, FetchToken, Save,
         SaveRefused, CallFails, Ack, Retry, Busy, At
<1>2. /\ handler[h] \in HandlerState /\ TokenOf(h) \in Token
      /\ handler[h].retries \in 0..MaxRetries
  BY <1>1, BusyHandler
<1>p. /\ {"finding", "caching", "fetching", "saving", "acking", "failing"} \subseteq Phase
      /\ {"cache", "database", "chain"} \subseteq Source
  BY DEF Phase, Source
<1>3. CASE FindCached(h)
  <2>1. [handler[h] EXCEPT !.phase = "saving", !.source = "cache"] \in HandlerState
    BY <1>1, HandlerStates
  <2>2. TypeOK'
    BY <1>3, <2>1 DEF FindCached, Becomes, TypeOK, documents, requeuing
  <2>3. CopiesOK'
    BY <1>2, <1>3 DEF FindCached, Becomes, TypeOK, CopiesOK, At, TokenOf, HandlerState,
                      documents, requeuing
  <2> QED
    BY <2>2, <2>3
<1>4. CASE FindStored(h)
  <2> DEFINE state == [handler[h] EXCEPT !.phase = "caching", !.source = "database",
                                         !.mark = TokenOf(h) \in marked, !.overlapped = FALSE]
  <2>1. state \in HandlerState
    <3>1. \A m \in BOOLEAN : [handler[h] EXCEPT !.phase = "caching", !.source = "database",
                                                !.mark = m, !.overlapped = FALSE] \in HandlerState
      BY <1>1, <1>p, HandlerStates
    <3>2. (TokenOf(h) \in marked) \in BOOLEAN
      OBVIOUS
    <3> QED
      BY ONLY <3>1, <3>2
  <2>2. Becomes(h, state) /\ UNCHANGED cached /\ TokenOf(h) \in stored
    BY <1>4 DEF FindStored, Holds
  <2>3. TypeOK'
    BY <2>1, <2>2 DEF Becomes, TypeOK, documents, requeuing
  <2>4. /\ state.phase = "caching" /\ state.token = TokenOf(h)
        /\ state.mark = (TokenOf(h) \in marked)
    BY <1>2 DEF HandlerState, TokenOf
  <2>5. CopiesOK'
    <3> HIDE DEF state
    <3> QED
      BY <2>2, <2>4 DEF Becomes, TypeOK, CopiesOK, At, TokenOf, documents, requeuing
  <2> QED
    BY <2>3, <2>5
<1>5. CASE FindNothing(h)
  <2> DEFINE state == [handler[h] EXCEPT !.phase = "fetching", !.source = "chain",
                                         !.mark = FALSE, !.overlapped = FALSE]
  <2>1. state \in HandlerState
    BY <1>1, <1>p, HandlerStates
  <2>2. Becomes(h, state) /\ UNCHANGED cached /\ TokenOf(h) \notin marked
    BY <1>5 DEF FindNothing, Holds, TypeOK
  <2>3. TypeOK'
    BY <2>1, <2>2 DEF Becomes, TypeOK, documents, requeuing
  <2>4. state.phase = "fetching" /\ state.token = TokenOf(h) /\ state.mark = FALSE
    BY <1>2 DEF HandlerState, TokenOf
  <2>5. CopiesOK'
    <3> HIDE DEF state
    <3> QED
      BY <2>2, <2>4 DEF Becomes, TypeOK, CopiesOK, At, TokenOf, documents, requeuing
  <2> QED
    BY <2>3, <2>5
<1>6. CASE CacheCopy(h) \/ FetchToken(h)
  <2> DEFINE state == [handler[h] EXCEPT !.phase = "saving"]
  <2>1. state \in HandlerState
    BY <1>1, <1>p, HandlerStates
  <2>2. Becomes(h, state) /\ handler[h].phase \in Holding
    BY <1>6 DEF CacheCopy, FetchToken, Goes, At, Holding
  <2>3. cached' \subseteq stored
    BY <1>6 DEF CacheCopy, FetchToken, TypeOK, CopiesOK, At, TokenOf
  <2>4. TypeOK'
    BY <2>1, <2>2, <2>3 DEF Becomes, TypeOK, documents, requeuing
  <2>5. /\ state.phase = "saving" /\ state.token = handler[h].token
        /\ state.mark = handler[h].mark /\ state.source = handler[h].source
        /\ state.overlapped = handler[h].overlapped
    BY <1>2 DEF HandlerState
  <2>6. CopiesOK'
    <3> HIDE DEF state
    <3> QED
      BY <2>2, <2>5 DEF Becomes, TypeOK, CopiesOK, At, TokenOf, documents, requeuing
  <2> QED
    BY <2>4, <2>6
<1>7. CASE SaveRefused(h) \/ CallFails(h)
  <2>1. Over(h, "failing") \in HandlerState
    BY <1>1, <1>p, HandlerStates
  <2>2. Becomes(h, Over(h, "failing")) /\ UNCHANGED cached
    BY <1>7 DEF SaveRefused, CallFails
  <2>3. TypeOK'
    BY <2>1, <2>2 DEF Becomes, TypeOK, documents, requeuing
  <2>4. Over(h, "failing").phase = "failing"
    BY DEF Over
  <2>5. CopiesOK'
    BY <2>2, <2>4 DEF Becomes, TypeOK, CopiesOK, At, TokenOf, Holding, documents, requeuing
  <2> QED
    BY <2>3, <2>5
<1>8. CASE Save(h)
  <2>1. PICK next \in {"acking", "failing"} :
             handler' = [Overtake(TokenOf(h)) EXCEPT ![h] = Over(h, next)]
    BY <1>8 DEF Save
  <2>2. /\ Over(h, next) \in HandlerState
        /\ Overtake(TokenOf(h)) \in [Handler -> HandlerState \cup {Idle}]
    BY <1>1, <1>p, HandlerStates, OvertakeTypes
  <2>3. TypeOK'
    BY <1>2, <1>8, <2>1, <2>2 DEF Save, TypeOK, requeuing
  <2>4. ASSUME NEW g \in Handler \ {h}
        PROVE  /\ At(g, "caching")' => TokenOf(g)' \in stored'
               /\ (handler[g].phase \in Holding)' /\ (handler[g].source # "cache")'
                  /\ (~handler[g].overlapped)'
                  => (handler[g].mark <=> TokenOf(g) \in marked)'
    <3>1. handler'[g] = Overtake(TokenOf(h))[g]
      BY <2>1, <2>2
    <3>2. CASE handler[g].phase \in Holding /\ TokenOf(g) = TokenOf(h)
      <4>1. handler'[g] = [handler[g] EXCEPT !.overlapped = TRUE]
        BY <3>1, <3>2 DEF Overtake
      <4>2. handler[g] \in HandlerState
        BY <3>2 DEF TypeOK, Holding, Idle
      <4>3. handler'[g].overlapped /\ handler'[g].token = handler[g].token
        BY <4>1, <4>2 DEF HandlerState
      <4> QED
        BY <1>8, <3>2, <4>3 DEF Save, At, TokenOf
    <3>3. CASE ~(handler[g].phase \in Holding /\ TokenOf(g) = TokenOf(h))
      <4>1. handler'[g] = handler[g]
        BY <3>1, <3>3 DEF Overtake
      <4> QED
        BY <1>8, <3>3, <4>1 DEF Save, CopiesOK, At, TokenOf, Holding
    <3> QED
      BY <3>2, <3>3
  <2>5. handler'[h].phase = next
    BY <2>1, <2>2 DEF Over
  <2>6. CopiesOK'
    BY <2>4, <2>5 DEF CopiesOK, At, Holding
  <2> QED
    BY <2>3, <2>6
<1>9. CASE Ack(h) \/ Retry(h)
  <2>1. handler' = [handler EXCEPT ![h] = Idle] /\ UNCHANGED <<documents, cached, requeuing, swapTokens, crashes>>
    BY <1>9 DEF Ack, Retry
  <2>2. queue' \subseteq Token \X (0..MaxRetries)
    <3>1. CASE Ack(h)
      BY <3>1 DEF Ack, TypeOK
    <3>2. CASE Retry(h) /\ UNCHANGED queue
      BY <3>2 DEF TypeOK
    <3>3. CASE Retry(h) /\ MayRetry(handler[h].retries + 1)
      <4>1. handler[h].retries + 1 \in 0..MaxRetries
        BY <1>2, <3>3, TokenAssumption DEF MayRetry
      <4> QED
        BY <1>2, <3>3, <4>1 DEF Retry, TypeOK
    <3> QED
      BY <1>9, <3>1, <3>2, <3>3 DEF Retry
  <2>3. givenUp' \subseteq Token
    BY <1>2, <1>9 DEF Ack, Retry, TypeOK
  <2>4. TypeOK'
    BY <2>1, <2>2, <2>3 DEF TypeOK, documents, requeuing
  <2>5. CopiesOK'
    BY <2>1 DEF TypeOK, CopiesOK, At, TokenOf, Idle, Holding, documents, requeuing
  <2> QED
    BY <2>4, <2>5
<1> QED
  BY <1>3, <1>4, <1>5, <1>6, <1>7, <1>8, <1>9 DEF Execute

LEMMA TokensTake ==
    ASSUME TypeOK, CopiesOK, NEW h \in Handler, NEW m \in queue, Take(h, m)
    PROVE  TypeOK' /\ CopiesOK'
<1> DEFINE state == [phase |-> "finding", token |-> m[1], retries |-> m[2],
                     source |-> "none", mark |-> FALSE, overlapped |-> FALSE]
<1>1. state \in HandlerState
  BY DEF TypeOK, HandlerState, Phase, Source
<1>2. /\ handler' = [handler EXCEPT ![h] = state] /\ queue' \subseteq queue
      /\ UNCHANGED <<documents, cached, requeuing, swapTokens, givenUp, crashes>>
  BY DEF Take
<1>3. state.phase = "finding"
  OBVIOUS
<1> HIDE DEF state
<1>4. TypeOK'
  BY <1>1, <1>2 DEF TypeOK, documents, requeuing
<1>5. CopiesOK'
  BY <1>2, <1>3 DEF TypeOK, CopiesOK, At, TokenOf, Holding, documents
<1> QED
  BY <1>4, <1>5

\* The loop publishes tokens of recorded swaps, and touches no handler.
LEMMA TokensLoop ==
    ASSUME TypeOK, CopiesOK, Loop \/ Restart
    PROVE  TypeOK' /\ CopiesOK'
<1>1. UNCHANGED <<handler, documents, cached, swapTokens, givenUp>>
  BY DEF Loop, QuerySwaps, RequeueMissing, RequeuePartly, Requeue, NextRound, RoundFails, Restart
<1>2. CASE RequeueMissing \/ RequeuePartly
  <2>1. PICK tokens \in SUBSET addresses : Requeue(tokens)
    BY <1>2 DEF RequeueMissing, RequeuePartly
  <2>2. queue' \subseteq Token \X (0..MaxRetries)
    BY <2>1, TokenAssumption DEF Requeue, TypeOK
  <2> QED
    BY <1>1, <2>1, <2>2 DEF Requeue, TypeOK, CopiesOK, At, TokenOf, documents
<1>3. CASE QuerySwaps \/ NextRound \/ RoundFails \/ Restart
  BY <1>1, <1>3 DEF QuerySwaps, NextRound, RoundFails, Restart, TypeOK, CopiesOK, At,
                    TokenOf, documents
<1> QED
  BY <1>2, <1>3 DEF Loop

LEMMA TokensConfigure ==
    ASSUME TypeOK, CopiesOK, NEW t \in Token, Configure(t)
    PROVE  TypeOK' /\ CopiesOK'
<1>1. handler' = Overtake(t) /\ Overtake(t) \in [Handler -> HandlerState \cup {Idle}]
  BY OvertakeTypes DEF Configure
<1>2. TypeOK'
  BY <1>1 DEF Configure, TypeOK, requeuing
<1>3. ASSUME NEW g \in Handler
      PROVE  /\ At(g, "caching")' => TokenOf(g)' \in stored'
             /\ (handler[g].phase \in Holding)' /\ (handler[g].source # "cache")'
                /\ (~handler[g].overlapped)'
                => (handler[g].mark <=> TokenOf(g) \in marked)'
  <2>1. CASE handler[g].phase \in Holding /\ TokenOf(g) = t
    <3>1. handler'[g] = [handler[g] EXCEPT !.overlapped = TRUE]
      BY <1>1, <2>1 DEF Overtake
    <3>2. handler[g] \in HandlerState
      BY <2>1 DEF TypeOK, Holding, Idle
    <3>3. handler'[g].overlapped /\ handler'[g].token = handler[g].token
      BY <3>1, <3>2 DEF HandlerState
    <3> QED
      BY <2>1, <3>3 DEF Configure, At, TokenOf
  <2>2. CASE ~(handler[g].phase \in Holding /\ TokenOf(g) = t)
    <3>1. handler'[g] = handler[g]
      BY <1>1, <2>2 DEF Overtake
    <3> QED
      BY <2>2, <3>1 DEF Configure, CopiesOK, At, TokenOf, Holding
  <2> QED
    BY <2>1, <2>2
<1>4. CopiesOK'
  BY <1>3 DEF CopiesOK
<1> QED
  BY <1>2, <1>4

LEMMA TokensRest ==
    ASSUME TypeOK, CopiesOK,
           \/ \E t \in Token : RecordSwap(t) \/ Discover(t) \/ Expire(t)
           \/ UNCHANGED vars
    PROVE  TypeOK' /\ CopiesOK'
BY TokenAssumption
   DEF RecordSwap, Discover, Expire, vars, TypeOK, CopiesOK, At, TokenOf, documents, requeuing

LEMMA TokensCrash ==
    ASSUME TypeOK, CopiesOK, NEW p \in Process, Crash(p)
    PROVE  TypeOK' /\ CopiesOK'
<1>1. \A h \in Handler : Busy(h) => <<TokenOf(h), handler[h].retries>> \in Token \X (0..MaxRetries)
  BY BusyHandler
<1>2. queue' \subseteq Token \X (0..MaxRetries)
  BY <1>1 DEF Crash, TypeOK
<1>3. \A h \in Handler : handler'[h] = Idle \/ handler'[h] = handler[h]
  BY DEF Crash
<1>4. TypeOK'
  BY <1>2 DEF Crash, TypeOK, documents, requeuing
<1>5. CopiesOK'
  BY <1>3 DEF Crash, CopiesOK, At, TokenOf, Idle, Holding, documents
<1> QED
  BY <1>4, <1>5
-----------------------------------------------------------------------------
LEMMA TokensStep ==
    ASSUME TypeOK, CopiesOK, [Next]_vars
    PROVE  TypeOK' /\ CopiesOK'
BY TokensExecute, TokensTake, TokensLoop, TokensConfigure, TokensRest, TokensCrash DEF Next

LEMMA TokensInvariant == Spec => [](TypeOK /\ CopiesOK)
<1>1. Init => TypeOK /\ CopiesOK
  BY TokensInit
<1>2. (TypeOK /\ CopiesOK) /\ [Next]_vars => (TypeOK /\ CopiesOK)'
  BY TokensStep
<1> QED
  BY <1>1, <1>2, PTL DEF Spec

\* TokenTypes: every variable keeps its type, an operator's mark is on a document
\* that exists, and a cached copy is one of such a document.
THEOREM TokenTypes == Spec => []TypeOK
BY TokensInvariant, PTL

\* CopiesCorrect: what SaveToken read and nobody overtook is what the document says.
THEOREM CopiesCorrect == Spec => []CopiesOK
BY TokensInvariant, PTL

\* Only the writes of Save and Configure touch a document, and Configure marks it.
LEMMA MarksStep ==
    ASSUME TypeOK, CopiesOK, [Next]_vars, NEW t \in marked \ marked'
    PROVE  \E h \in Handler : At(h, "saving") /\ TokenOf(h) = t /\ handler[h].overlapped
<1>1. PICK h \in Handler : Save(h)
  BY DEF Next, Execute, Take, FindCached, FindStored, FindNothing, CacheCopy, FetchToken,
         SaveRefused, CallFails, Ack, Retry, Becomes, Goes, Holds, Loop, QuerySwaps,
         RequeueMissing, RequeuePartly, Requeue, NextRound, RoundFails, RecordSwap, Discover,
         Configure, Expire, Crash, Restart, vars, documents
<1>2. /\ At(h, "saving") /\ handler[h].source # "cache"
      /\ TokenOf(h) = t /\ ~handler[h].mark
  BY <1>1 DEF Save
<1>3. handler[h].overlapped
  BY <1>2 DEF CopiesOK, At, Holding
<1> QED
  BY <1>2, <1>3

\* MarksCorrect: SaveToken undoes an operator's setting only when somebody wrote the
\* token between its read and its write.
THEOREM MarksCorrect == Spec => MarksNeedOverlap
<1>1. TypeOK /\ CopiesOK /\ [Next]_vars
      => [\A t \in marked \ marked' :
            \E h \in Handler : At(h, "saving") /\ TokenOf(h) = t /\ handler[h].overlapped]_vars
  BY MarksStep
<1> QED
  BY <1>1, TokensInvariant, PTL DEF Spec, MarksNeedOverlap
-----------------------------------------------------------------------------
(* No token that was asked for is forgotten.                                   *)

\* What an acknowledgement of a message rests on.
AckedStored == \A h \in Handler : At(h, "acking") => TokenOf(h) \in stored

\* What a step does to the tokens asked for, and to what is about to be acknowledged.
Keeps ==
    /\ AckedStored'
    /\ \A t \in Pending \ Pending' : t \in stored' \cup givenUp'

LEMMA StoredGrows == [Next]_vars => stored \subseteq stored'
BY DEF Next, Execute, Take, FindCached, FindStored, FindNothing, CacheCopy, FetchToken, Save,
       SaveRefused, CallFails, Ack, Retry, Becomes, Goes, Holds, Loop, QuerySwaps,
       RequeueMissing, RequeuePartly, Requeue, NextRound, RoundFails, RecordSwap, Discover,
       Configure, Expire, Crash, Restart, vars, documents

\* A step that takes no message out of the queue and leaves every handler that is busy
\* busy with its token keeps all that is asked for.
LEMMA StillPending ==
    ASSUME AckedStored, stored \subseteq stored', queue \subseteq queue',
           \A g \in Handler : Busy(g) => Busy(g)' /\ TokenOf(g)' = TokenOf(g),
           \A g \in Handler : At(g, "acking")' => At(g, "acking") \/ TokenOf(g)' \in stored'
    PROVE  Keeps
<1>1. Pending \subseteq Pending'
  BY DEF Pending
<1>2. AckedStored'
  BY DEF AckedStored, Busy, At
<1> QED
  BY <1>1, <1>2 DEF Keeps

\* An execution that goes on keeps its token.
LEMMA BecomesPending ==
    ASSUME TypeOK, AckedStored, NEW h \in Handler, Busy(h), NEW state, Becomes(h, state),
           state.token = TokenOf(h), state.phase \notin {"idle", "acking"}
    PROVE  Keeps
<1>1. handler'[h] = state /\ \A g \in Handler : g # h => handler'[g] = handler[g]
  BY DEF Becomes, TypeOK
<1>2. UNCHANGED <<queue, stored>>
  BY DEF Becomes, documents
<1>3. \A g \in Handler : Busy(g) => Busy(g)' /\ TokenOf(g)' = TokenOf(g)
  BY <1>1 DEF Busy, At, TokenOf
<1>4. \A g \in Handler : At(g, "acking")' => At(g, "acking")
  BY <1>1 DEF At
<1> QED
  BY <1>2, <1>3, <1>4, StillPending

\* Overtaking somebody changes neither its phase nor its token.
LEMMA OvertakeKeeps ==
    ASSUME TypeOK, NEW t, NEW g \in Handler
    PROVE  Overtake(t)[g].phase = handler[g].phase /\ Overtake(t)[g].token = handler[g].token
<1>1. CASE handler[g].phase \in Holding /\ TokenOf(g) = t
  <2>1. handler[g] \in HandlerState
    BY <1>1 DEF TypeOK, Holding, Idle
  <2>2. Overtake(t)[g] = [handler[g] EXCEPT !.overlapped = TRUE]
    BY <1>1 DEF Overtake
  <2> QED
    BY <2>1, <2>2 DEF HandlerState
<1>2. CASE ~(handler[g].phase \in Holding /\ TokenOf(g) = t)
  BY <1>2 DEF Overtake
<1> QED
  BY <1>1, <1>2

LEMMA ExecuteKeeps ==
    ASSUME TypeOK, AckedStored, NEW h \in Handler, Execute(h)
    PROVE  Keeps
<1>1. Busy(h)
  BY DEF Execute, FindCached, FindStored, FindNothing, CacheCopy, FetchToken, Save,
         SaveRefused, CallFails, Ack, Retry, Busy, At
<1>2. handler[h] \in HandlerState /\ TokenOf(h) \in Token
  BY <1>1, BusyHandler
<1>3. CASE ~Save(h) /\ ~Ack(h) /\ ~Retry(h)
  <2>1. PICK state : /\ Becomes(h, state) /\ state.token = TokenOf(h)
                     /\ state.phase \notin {"idle", "acking"}
    <3>1. CASE FindCached(h)
      <4> DEFINE state == [handler[h] EXCEPT !.phase = "saving", !.source = "cache"]
      <4>1. Becomes(h, state) /\ state.token = TokenOf(h) /\ state.phase = "saving"
        BY <1>2, <3>1 DEF FindCached, HandlerState, TokenOf
      <4> QED
        BY <4>1
    <3>2. CASE FindStored(h) \/ FindNothing(h)
      <4>0. PICK p \in {"caching", "fetching"}, s \in Source : \E m : Holds(h, p, s, m)
        BY <3>2 DEF FindStored, FindNothing, Source
      <4>1. PICK m : Holds(h, p, s, m)
        BY <4>0
      <4> DEFINE state == [handler[h] EXCEPT !.phase = p, !.source = s, !.mark = m,
                                             !.overlapped = FALSE]
      <4>2. Becomes(h, state) /\ state.token = TokenOf(h) /\ state.phase = p
        BY <1>2, <4>1 DEF Holds, HandlerState, TokenOf
      <4> QED
        BY <4>2
    <3>3. CASE CacheCopy(h) \/ FetchToken(h)
      <4> DEFINE state == [handler[h] EXCEPT !.phase = "saving"]
      <4>1. Becomes(h, state) /\ state.token = TokenOf(h) /\ state.phase = "saving"
        BY <1>2, <3>3 DEF CacheCopy, FetchToken, Goes, HandlerState, TokenOf
      <4> QED
        BY <4>1
    <3>4. CASE SaveRefused(h) \/ CallFails(h)
      BY <3>4 DEF SaveRefused, CallFails, Over
    <3> QED
      BY <1>3, <3>1, <3>2, <3>3, <3>4 DEF Execute
  <2> QED
    BY <1>1, <2>1, BecomesPending
<1>4. CASE Save(h)
  <2>1. PICK next \in {"acking", "failing"} :
             handler' = [Overtake(TokenOf(h)) EXCEPT ![h] = Over(h, next)]
    BY <1>4 DEF Save
  <2>2. Overtake(TokenOf(h)) \in [Handler -> HandlerState \cup {Idle}]
    BY OvertakeTypes
  <2>3. /\ handler'[h] = Over(h, next)
        /\ \A g \in Handler : g # h => handler'[g] = Overtake(TokenOf(h))[g]
    BY <2>1, <2>2
  <2>4. /\ handler'[h].phase = next /\ handler'[h].token = TokenOf(h)
        /\ \A g \in Handler : g # h => /\ handler'[g].phase = handler[g].phase
                                       /\ handler'[g].token = handler[g].token
    BY <2>3, OvertakeKeeps DEF Over
  <2>5. queue' = queue /\ stored' = stored \cup {TokenOf(h)}
    BY <1>4 DEF Save
  <2>6. \A g \in Handler : Busy(g) => Busy(g)' /\ TokenOf(g)' = TokenOf(g)
    BY <2>4 DEF Busy, At, TokenOf
  <2>7. \A g \in Handler : At(g, "acking")' => At(g, "acking") \/ TokenOf(g)' \in stored'
    BY <2>4, <2>5 DEF At, TokenOf
  <2> QED
    BY <2>5, <2>6, <2>7, StillPending
<1>5. CASE Ack(h) \/ Retry(h)
  <2>1. handler'[h] = Idle /\ \A g \in Handler : g # h => handler'[g] = handler[g]
    BY <1>5 DEF Ack, Retry, TypeOK
  <2>2. stored' = stored /\ queue \subseteq queue' /\ givenUp \subseteq givenUp'
    BY <1>5 DEF Ack, Retry, documents
  <2>3. AckedStored'
    BY <2>1, <2>2 DEF AckedStored, At, TokenOf, Idle
  <2>4. Pending \ {TokenOf(h)} \subseteq Pending'
    BY <2>1, <2>2 DEF Pending, Busy, At, TokenOf
  <2>5. TokenOf(h) \in Pending' \cup stored' \cup givenUp'
    <3>1. CASE Ack(h)
      BY <2>2, <3>1 DEF Ack, AckedStored
    <3>2. CASE Retry(h)
      <4>1. CASE queue' = queue \cup {<<TokenOf(h), handler[h].retries + 1>>}
        <5> DEFINE again == <<TokenOf(h), handler[h].retries + 1>>
        <5>1. again \in queue' /\ again[1] = TokenOf(h)
          BY <4>1
        <5> QED
          BY <5>1 DEF Pending
      <4>2. CASE givenUp' = givenUp \cup {TokenOf(h)}
        BY <4>2
      <4>3. \/ queue' = queue \cup {<<TokenOf(h), handler[h].retries + 1>>}
            \/ givenUp' = givenUp \cup {TokenOf(h)}
        BY <3>2 DEF Retry
      <4> QED
        BY <4>1, <4>2, <4>3
    <3> QED
      BY <1>5, <3>1, <3>2
  <2> QED
    BY <2>3, <2>4, <2>5 DEF Keeps
<1> QED
  BY <1>3, <1>4, <1>5

LEMMA NextKeeps == TypeOK /\ AckedStored /\ [Next]_vars => Keeps
<1> SUFFICES ASSUME TypeOK, AckedStored, [Next]_vars PROVE Keeps
  OBVIOUS
<1>1. ASSUME NEW h \in Handler, Execute(h) PROVE Keeps
  BY <1>1, ExecuteKeeps
<1>2. ASSUME NEW h \in Handler, NEW m \in queue, Take(h, m) PROVE Keeps
  <2> DEFINE state == [phase |-> "finding", token |-> m[1], retries |-> m[2],
                       source |-> "none", mark |-> FALSE, overlapped |-> FALSE]
  <2>1. state.phase = "finding" /\ state.token = m[1]
    OBVIOUS
  <2>2. /\ handler'[h] = state /\ \A g \in Handler : g # h => handler'[g] = handler[g]
        /\ queue' = queue \ {m} /\ ~Busy(h) /\ stored' = stored
    BY <1>2 DEF Take, TypeOK, documents
  <2> HIDE DEF state
  <2>3. m[1] \in Pending'
    BY <2>1, <2>2 DEF Pending, Busy, At, TokenOf
  <2>4. Pending \ {m[1]} \subseteq Pending'
    BY <2>2 DEF Pending, Busy, At, TokenOf
  <2>5. AckedStored'
    BY <2>1, <2>2 DEF AckedStored, At, TokenOf
  <2> QED
    BY <2>3, <2>4, <2>5 DEF Keeps
<1>3. ASSUME UNCHANGED handler, queue \subseteq queue' PROVE Keeps
  <2>1. \A g \in Handler : Busy(g)' = Busy(g) /\ TokenOf(g)' = TokenOf(g)
    BY <1>3 DEF Busy, At, TokenOf
  <2>2. \A g \in Handler : At(g, "acking")' => At(g, "acking")
    BY <1>3 DEF At
  <2> QED
    BY <1>3, <2>1, <2>2, StoredGrows, StillPending
<1>4. CASE Loop \/ Restart
  BY <1>3, <1>4 DEF Loop, QuerySwaps, RequeueMissing, RequeuePartly, Requeue, NextRound,
                    RoundFails, Restart
<1>5. ASSUME NEW t \in Token, RecordSwap(t) \/ Discover(t) \/ Expire(t) PROVE Keeps
  BY <1>3, <1>5 DEF RecordSwap, Discover, Expire
<1>6. ASSUME NEW t \in Token, Configure(t) PROVE Keeps
  <2>1. handler' = Overtake(t) /\ queue' = queue
    BY <1>6 DEF Configure
  <2>2. \A g \in Handler : handler'[g].phase = handler[g].phase /\ handler'[g].token = handler[g].token
    BY <2>1, OvertakeKeeps
  <2>3. \A g \in Handler : Busy(g)' = Busy(g) /\ TokenOf(g)' = TokenOf(g)
    BY <2>2 DEF Busy, At, TokenOf
  <2>4. \A g \in Handler : At(g, "acking")' => At(g, "acking")
    BY <2>2 DEF At
  <2> QED
    BY <2>1, <2>3, <2>4, StoredGrows, StillPending
<1>7. ASSUME NEW p \in Process, Crash(p) PROVE Keeps
  <2> DEFINE busy == {h \in Handler : Home[h] = p /\ Busy(h)}
             back == {<<TokenOf(h), handler[h].retries>> : h \in busy}
  <2>1. /\ \A g \in Handler : handler'[g] = IF g \in busy THEN Idle ELSE handler[g]
        /\ queue' = queue \cup back /\ stored' = stored
    BY <1>7 DEF Crash, documents
  <2>2. ASSUME NEW t \in Pending PROVE t \in Pending'
    <3>1. CASE \E m \in queue : t = m[1]
      BY <2>1, <3>1 DEF Pending
    <3>2. CASE \E h \in busy : t = TokenOf(h)
      <4>1. PICK h \in busy : t = TokenOf(h)
        BY <3>2
      <4>2. <<TokenOf(h), handler[h].retries>> \in queue'
        BY <2>1
      <4>3. <<TokenOf(h), handler[h].retries>>[1] = t
        BY <4>1
      <4> QED
        BY <4>2, <4>3 DEF Pending
    <3>3. CASE \E h \in Handler \ busy : Busy(h) /\ t = TokenOf(h)
      BY <2>1, <3>3 DEF Pending, Busy, At, TokenOf
    <3> QED
      BY <3>1, <3>2, <3>3 DEF Pending
  <2>3. AckedStored'
    BY <2>1 DEF AckedStored, At, TokenOf, Idle
  <2> QED
    BY <2>2, <2>3 DEF Keeps
<1>8. CASE UNCHANGED vars
  BY <1>3, <1>8 DEF vars
<1> QED
  BY <1>1, <1>2, <1>4, <1>5, <1>6, <1>7, <1>8 DEF Next

\* RequestsCorrect: whatever fails or exits, a token somebody asked for stays with a
\* message until it has a document or a message of it is given up.
THEOREM RequestsCorrect == Spec => RequestsKept
<1>1. Init => AckedStored
  BY DEF Init, AckedStored, At, Idle
<1>2. TypeOK /\ AckedStored /\ [Next]_vars
      => AckedStored' /\ [\A t \in Pending \ Pending' : t \in stored' \cup givenUp']_vars
  BY NextKeeps DEF Keeps
<1> QED
  BY <1>1, <1>2, TokenTypes, PTL DEF Spec, RequestsKept
=============================================================================
