------------------------- MODULE BlockListenerProofs -------------------------
(* Theorems about BlockListener, for every chain, every bound and every choice *)
(* of failures.                                                                *)
EXTENDS BlockListener, TLAPS

\* The record names announced blocks only.
RecordAnnounced == saving \cup saved \subseteq attempted

\* With a configured start block the announced blocks have no hole below them.
NoHole ==
    \A h \in attempted :
        h > StartBlock /\ \A k \in StartBlock + 1 .. h : k \in attempted

\* The blocks below a running listener are announced.
BehindAnnounced ==
    pc # "down" =>
        next > StartBlock /\ \A h \in StartBlock + 1 .. next - 1 : h \in attempted

\* What holds of every start, and what a configured start block adds.
Inv      == TypeOK /\ RecordAnnounced
StartInv == Inv /\ NoHole /\ BehindAnnounced /\ LossNeedsRecord
-----------------------------------------------------------------------------
\* The actions that change neither the record nor what is announced.
Quiet ==
    /\ UNCHANGED <<attempted, publishing, published, rejected, saving, saved, next>>
    /\ (pc' = "down" <=> pc = "down")

LEMMA QuietSteps ==
    ASSUME (\E from, to \in {"fetching", "waiting", "preparing"} : Moves(from, to))
              \/ NewBlock \/ Consume \/ UNCHANGED vars
    PROVE  Quiet
<1>1. CASE \E from, to \in {"fetching", "waiting", "preparing"} : Moves(from, to)
  BY <1>1 DEF Moves, Quiet
<1>2. CASE NewBlock
  BY <1>2 DEF NewBlock, Quiet
<1>3. CASE Consume
  BY <1>3 DEF Consume, Quiet
<1>4. CASE UNCHANGED vars
  BY <1>4 DEF vars, Quiet
<1> QED BY <1>1, <1>2, <1>3, <1>4

\* The steps of the loop that are not Dispatch only move the program counter.
LEMMA LoopMoves ==
    ASSUME FetchBlock \/ FetchNothing \/ NextRound \/ PrepareFail
    PROVE  \E from, to \in {"fetching", "waiting", "preparing"} : Moves(from, to)
BY DEF FetchBlock, FetchNothing, NextRound, PrepareFail

LEMMA InvInit == Init => Inv
BY BlockListenerAssumption DEF Init, Inv, TypeOK, RecordAnnounced, Tx

LEMMA InvNext == Inv /\ [Next]_vars => Inv'
<1> SUFFICES ASSUME Inv, [Next]_vars PROVE Inv'
  OBVIOUS
<1> USE BlockListenerAssumption DEF bootstrap
<1>1. ASSUME Start PROVE Inv'
  <2>1. PICK b \in saved \cup {StartBlock, head} : next' = b + 1
    BY <1>1 DEF Start
  <2>2. b \in Nat
    BY <2>1 DEF Inv, TypeOK
  <2> QED
    BY <1>1, <2>1, <2>2 DEF Start, createBrokerConnection, Inv, TypeOK, RecordAnnounced
<1>2. ASSUME NEW from \in {"fetching", "waiting", "preparing"},
             NEW to \in {"fetching", "waiting", "preparing"}, Moves(from, to)
      PROVE  Inv'
  BY <1>2 DEF Moves, Inv, TypeOK, RecordAnnounced
<1>3. ASSUME Dispatch PROVE Inv'
  <2>1. next \in Nat /\ next + 1 \in Nat /\ Txs(next) \subseteq Tx
    BY DEF Inv, TypeOK, Txs, Tx
  <2>2. publishing' \subseteq Tx /\ UNCHANGED <<head, published, rejected, saved, pending, crashes, client, refusals>>
    BY <1>3, <2>1 DEF Dispatch, Announce, Inv, TypeOK
  <2>3. /\ next' \in Nat /\ pc' = "fetching"
        /\ attempted' \subseteq Nat /\ saving' \subseteq Nat /\ RecordAnnounced'
    BY <1>3, <2>1 DEF Dispatch, Announce, Inv, TypeOK, RecordAnnounced
  <2>4. {publishing, published, rejected}' \subseteq SUBSET Tx
    BY <2>2 DEF Inv, TypeOK, Tx
  <2>5. {saving, saved}' \subseteq SUBSET Nat
    BY <2>2, <2>3 DEF Inv, TypeOK
  <2>6. /\ head' \in Nat /\ pending' \in Nat /\ crashes' \in Nat
        /\ client' \in {"connected", "undefined"} /\ refusals' \in Nat
    BY <2>2 DEF Inv, TypeOK
  <2> QED
    BY <2>3, <2>4, <2>5, <2>6 DEF Inv, TypeOK
<1>4. ASSUME NEW t \in publishing, PublishOk(t) \/ PublishRejected(t) PROVE Inv'
  <2>1. publishing \subseteq Tx /\ published \subseteq Tx /\ rejected \subseteq Tx
    BY DEF Inv, TypeOK
  <2>2. publishing' \subseteq Tx /\ published' \subseteq Tx /\ rejected' \subseteq Tx
    BY <1>4, <2>1 DEF PublishOk, PublishRejected
  <2>3. pending' \in Nat
        /\ UNCHANGED <<pc, head, next, attempted, saving, saved, crashes, client, refusals>>
    BY <1>4 DEF PublishOk, PublishRejected, Inv, TypeOK
  <2> QED
    BY <2>2, <2>3 DEF Inv, TypeOK, RecordAnnounced
<1>5. ASSUME NEW h \in saving, SaveOk(h) \/ SaveRejected(h) PROVE Inv'
  BY <1>5 DEF SaveOk, SaveRejected, Inv, TypeOK, RecordAnnounced
<1>6. CASE Crash
  BY <1>6 DEF Crash, Inv, TypeOK, RecordAnnounced
<1>7. CASE NewBlock
  BY <1>7 DEF NewBlock, Inv, TypeOK, RecordAnnounced
<1>8. CASE Consume
  BY <1>8 DEF Consume, Inv, TypeOK, RecordAnnounced
<1>9. CASE UNCHANGED vars
  BY <1>9 DEF vars, Inv, TypeOK, RecordAnnounced
<1> QED
  BY <1>1, <1>2, <1>3, <1>4, <1>5, <1>6, <1>7, <1>8, <1>9, LoopMoves DEF Next, Loop

LEMMA InvAlways == Spec => []Inv
BY InvInit, InvNext, PTL DEF Spec

\* Every variable keeps its type, the block counter and the record included.
THEOREM ListenerTypes == Spec => []TypeOK
BY InvAlways, PTL DEF Inv

\* A restart that finds a record resumes right behind an announced block,
\* whatever the configured start (getStartBlock, lines 198-209).
THEOREM RestartCorrect == Spec => RestartNeverSkips
<1>1. Inv /\ [Next]_vars
        => [pc = "down" /\ pc' # "down" /\ saved # {} => next' - 1 \in attempted]_vars
  <2> SUFFICES ASSUME Inv, Next, pc = "down", pc' # "down", saved # {}
               PROVE  next' - 1 \in attempted
    BY DEF vars
  <2>1. CASE Start
    <3>1. PICK b \in saved \cup {StartBlock, head} : getStartBlock(b) /\ next' = b + 1
      BY <2>1 DEF Start
    <3>2. b \in saved
      BY <3>1 DEF getStartBlock, IsLatest
    <3>3. b \in Nat /\ b \in attempted
      BY <3>2 DEF Inv, TypeOK, RecordAnnounced
    <3> QED
      BY <3>1, <3>3
  <2>2. ~Loop
    BY DEF Loop, FetchBlock, FetchNothing, NextRound, PrepareFail, Dispatch, Announce, Moves
  <2>3. ~Crash /\ ~NewBlock /\ ~Consume
    BY DEF Crash, NewBlock, Consume
  <2>4. \A t \in publishing : ~PublishOk(t) /\ ~PublishRejected(t)
    BY DEF PublishOk, PublishRejected
  <2>5. \A h \in saving : ~SaveOk(h) /\ ~SaveRejected(h)
    BY DEF SaveOk, SaveRejected
  <2> QED
    BY <2>1, <2>2, <2>3, <2>4, <2>5 DEF Next
<1> QED
  BY <1>1, InvAlways, PTL DEF Spec, RestartNeverSkips
-----------------------------------------------------------------------------
LEMMA StartInvInit == Init => StartInv
BY InvInit DEF Init, StartInv, NoHole, BehindAnnounced, LossNeedsRecord

\* A quiet step keeps what a configured start block adds.
LEMMA QuietKeeps ==
    ASSUME Quiet, NoHole /\ BehindAnnounced /\ LossNeedsRecord
    PROVE  (NoHole /\ BehindAnnounced /\ LossNeedsRecord)'
<1>1. NoHole' /\ BehindAnnounced'
  BY DEF Quiet, NoHole, BehindAnnounced
<1>2. LossNeedsRecord'
  BY DEF Quiet, LossNeedsRecord, Lost
<1> QED BY <1>1, <1>2

LEMMA StartInvNext ==
    ASSUME ~StartAtLatest
    PROVE  StartInv /\ [Next]_vars => StartInv'
<1> SUFFICES ASSUME StartInv, [Next]_vars, Inv'
             PROVE  NoHole' /\ BehindAnnounced' /\ LossNeedsRecord'
  BY InvNext DEF StartInv
<1> USE BlockListenerAssumption
<1>t. next \in Nat /\ attempted \subseteq Nat /\ saved \subseteq Nat /\ StartBlock \in Nat
      /\ saving \subseteq Nat
  BY DEF StartInv, Inv, TypeOK
<1>1. CASE Start
  <2>1. PICK b \in saved \cup {StartBlock, head} : getStartBlock(b) /\ next' = b + 1
    BY <1>1 DEF Start
  <2>2. b \in saved \/ (b = StartBlock /\ saved = {})
    BY <2>1 DEF getStartBlock, IsLatest
  <2>3. b \in Nat
    BY <2>2, <1>t
  <2>4. b \in attempted \/ (b = StartBlock /\ saved = {})
    BY <2>2 DEF StartInv, Inv, RecordAnnounced
  <2>5. NoHole' /\ UNCHANGED <<attempted, publishing, published, rejected, saved>>
    BY <1>1 DEF Start, NoHole, StartInv
  <2>6. b >= StartBlock
    BY <2>3, <2>4, <1>t DEF StartInv, NoHole
  <2>7. BehindAnnounced'
    <3>1. next' > StartBlock /\ next' - 1 = b
      BY <2>1, <2>3, <2>6, <1>t
    <3>2. ASSUME NEW h \in StartBlock + 1 .. b PROVE h \in attempted
      BY <2>3, <2>4, <1>t DEF StartInv, NoHole
    <3> QED BY <3>1, <3>2, <2>5 DEF BehindAnnounced
  <2>8. LossNeedsRecord'
    <3> SUFFICES ASSUME NEW h \in attempted, ~(next' <= h)
                 PROVE  \E g \in saved : g >= h
      BY <2>5 DEF LossNeedsRecord, Lost
    <3>1. h \in Nat /\ h <= b /\ h > StartBlock
      BY <2>1, <2>3, <1>t DEF StartInv, NoHole
    <3>2. b \in saved
      BY <2>2, <2>3, <3>1, <1>t
    <3> QED BY <3>1, <3>2
  <2> QED BY <2>5, <2>7, <2>8
<1>2. CASE FetchBlock \/ FetchNothing \/ NextRound \/ PrepareFail
  BY <1>2, LoopMoves, QuietSteps, QuietKeeps DEF StartInv
<1>3. CASE Dispatch
  <2>1. /\ pc # "down" /\ pc' # "down"
        /\ next' = next + 1
        /\ attempted' = attempted \cup {next}
        /\ publishing' = publishing \cup Txs(next)
        /\ UNCHANGED <<published, rejected, saved>>
    BY <1>3 DEF Dispatch, Announce
  <2>2. next > StartBlock /\ \A h \in StartBlock + 1 .. next - 1 : h \in attempted
    BY <2>1 DEF StartInv, BehindAnnounced
  <2>3. \A h \in StartBlock + 1 .. next : h \in attempted'
    BY <2>1, <2>2, <1>t
  <2>4. NoHole'
    BY <2>1, <2>2, <2>3, <1>t DEF StartInv, NoHole
  <2>5. BehindAnnounced'
    BY <2>1, <2>2, <2>3, <1>t DEF BehindAnnounced
  <2>6. LossNeedsRecord'
    <3> SUFFICES ASSUME NEW h \in attempted', NEW t \in Txs(h), Lost(t)', ~(next' <= h)
                 PROVE  t \in rejected' \/ \E g \in saved' : g >= h
      BY DEF LossNeedsRecord
    <3>1. t \notin Txs(next) /\ t \notin published \cup publishing
      BY <2>1 DEF Lost
    <3>2. h # next /\ h \in attempted
      BY <3>1, <2>1
    <3>3. ~(next <= h)
      BY <3>2, <2>1, <1>t
    <3> QED BY <3>1, <3>2, <3>3, <2>1 DEF StartInv, LossNeedsRecord, Lost
  <2> QED BY <2>4, <2>5, <2>6
<1>4. ASSUME NEW t \in publishing, PublishOk(t) \/ PublishRejected(t)
      PROVE  NoHole' /\ BehindAnnounced' /\ LossNeedsRecord'
  <2>1. /\ UNCHANGED <<pc, next, attempted, saved>>
        /\ publishing' = publishing \ {t}
        /\ \/ published' = published \cup {t} /\ rejected' = rejected
           \/ rejected' = rejected \cup {t} /\ published' = published
    BY <1>4 DEF PublishOk, PublishRejected
  <2>2. NoHole' /\ BehindAnnounced'
    BY <2>1 DEF StartInv, NoHole, BehindAnnounced
  <2>3. ASSUME NEW u, Lost(u)' PROVE Lost(u) \/ u \in rejected'
    BY <2>1, <2>3 DEF Lost
  <2>4. LossNeedsRecord'
    BY <2>1, <2>3 DEF StartInv, LossNeedsRecord
  <2> QED BY <2>2, <2>4
<1>5. ASSUME NEW h \in saving, SaveOk(h) \/ SaveRejected(h)
      PROVE  NoHole' /\ BehindAnnounced' /\ LossNeedsRecord'
  <2>1. /\ UNCHANGED <<pc, next, attempted, publishing, published, rejected>>
        /\ saved \subseteq saved'
    BY <1>5 DEF SaveOk, SaveRejected
  <2> QED BY <2>1 DEF StartInv, NoHole, BehindAnnounced, LossNeedsRecord, Lost
<1>6. CASE Crash
  BY <1>6 DEF Crash, StartInv, NoHole, BehindAnnounced, LossNeedsRecord
<1>7. CASE NewBlock \/ Consume \/ UNCHANGED vars
  BY <1>7, QuietSteps, QuietKeeps DEF StartInv
<1> QED
  BY <1>1, <1>2, <1>3, <1>4, <1>5, <1>6, <1>7 DEF Next, Loop

LEMMA StartInvAlways == ASSUME ~StartAtLatest PROVE Spec => []StartInv
BY StartInvInit, StartInvNext, PTL DEF Spec

\* With a configured start block no block is passed over, for every height
\* reached and every crash, failed save and order of saves.
THEOREM NoSkip == ASSUME ~StartAtLatest PROVE Spec => []NoBlockSkipped
<1>1. StartInv => NoBlockSkipped
  BY DEF StartInv, BehindAnnounced, NoBlockSkipped
<1> QED BY <1>1, StartInvAlways, PTL

\* With a configured start block a transaction of an announced block goes
\* missing only by a rejected publication, or behind a record of its block or of
\* a later one.
THEOREM LossExplained == ASSUME ~StartAtLatest PROVE Spec => []LossNeedsRecord
<1>1. StartInv => LossNeedsRecord
  BY DEF StartInv
<1> QED BY <1>1, StartInvAlways, PTL
-----------------------------------------------------------------------------
\* RepeatsNeedCrash: a block is announced a second time only by a process that was
\* started again (lines 53-100): no failed round, price, publication or save, and
\* no pause for a long queue makes the loop announce what it announced before.
RepeatsNeedCrash == pc # "down" /\ next \in attempted => crashes > 0

\* Until a process exits the announced blocks are those behind the listener, and
\* before it starts there are none.
FirstPass ==
    crashes = 0 => IF pc = "down" THEN attempted = {} ELSE \A h \in attempted : h < next

LEMMA FirstPassNext == Inv /\ FirstPass /\ [Next]_vars => FirstPass'
<1> SUFFICES ASSUME Inv, FirstPass, [Next]_vars, crashes' = 0
             PROVE  IF pc' = "down" THEN attempted' = {} ELSE \A h \in attempted' : h < next'
  BY DEF FirstPass
<1> USE BlockListenerAssumption
<1>t. next \in Nat /\ attempted \subseteq Nat /\ crashes \in Nat
  BY DEF Inv, TypeOK
<1>1. CASE Start
  <2>1. pc = "down" /\ pc' # "down" /\ attempted' = attempted /\ crashes' = crashes
    BY <1>1 DEF Start
  <2>2. attempted' = {}
    BY <2>1 DEF FirstPass
  <2> QED BY <2>1, <2>2
<1>2. CASE Dispatch
  <2>1. /\ pc = "preparing" /\ pc' = "fetching" /\ crashes' = crashes
        /\ attempted' = attempted \cup {next} /\ next' = next + 1
    BY <1>2 DEF Dispatch, Announce
  <2>2. \A h \in attempted : h < next
    BY <2>1 DEF FirstPass
  <2>3. \A h \in attempted' : h \in Nat /\ h <= next
    BY <2>1, <2>2, <1>t
  <2> QED BY <2>1, <2>3, <1>t
<1>3. CASE Crash
  BY <1>3, <1>t DEF Crash
<1>4. ASSUME UNCHANGED <<attempted, next, crashes>>, pc' = "down" <=> pc = "down"
      PROVE  IF pc' = "down" THEN attempted' = {} ELSE \A h \in attempted' : h < next'
  BY <1>4 DEF FirstPass
<1>5. CASE FetchBlock \/ FetchNothing \/ NextRound \/ PrepareFail
  <2>1. \E from, to \in {"fetching", "waiting", "preparing"} : Moves(from, to)
    BY <1>5, LoopMoves
  <2> QED BY <1>4, <2>1 DEF Moves
<1>6. CASE (\E t \in publishing : PublishOk(t) \/ PublishRejected(t))
             \/ (\E h \in saving : SaveOk(h) \/ SaveRejected(h))
  BY <1>4, <1>6 DEF PublishOk, PublishRejected, SaveOk, SaveRejected
<1>7. CASE NewBlock \/ Consume \/ UNCHANGED vars
  BY <1>4, <1>7 DEF NewBlock, Consume, vars
<1> QED
  BY <1>1, <1>2, <1>3, <1>5, <1>6, <1>7 DEF Next, Loop

LEMMA FirstPassAlways == Spec => []FirstPass
<1>1. Init => FirstPass
  BY DEF Init, FirstPass
<1> QED BY <1>1, FirstPassNext, InvAlways, PTL DEF Spec

\* Without a process that exits no block is announced twice, whatever the start,
\* and however many rounds, publications and saves fail.
THEOREM RepeatsCorrect == Spec => []RepeatsNeedCrash
<1>1. Inv /\ FirstPass => RepeatsNeedCrash
  <2> SUFFICES ASSUME Inv, FirstPass, pc # "down", next \in attempted, ~(crashes > 0)
               PROVE  FALSE
    BY DEF RepeatsNeedCrash
  <2>1. crashes = 0 /\ next \in Nat
    BY DEF Inv, TypeOK
  <2> QED BY <2>1 DEF FirstPass
<1> QED BY <1>1, InvAlways, FirstPassAlways, PTL
-----------------------------------------------------------------------------
\* While nothing interferes, what is announced is in flight or has been accepted by
\* the broker: every process has a client, and nothing is rejected or cut off.
Undisturbed ==
    /\ crashes = 0
    /\ \A h \in attempted : \A t \in Txs(h) : ~Lost(t)
    /\ pc # "down" => client = "connected"
    /\ pc = "down" => attempted = {} /\ publishing = {}

\* The documents' promise holds where nothing interferes: with a reliable broker,
\* a connection at every start and no process that exits, every transaction of an
\* announced block is published or being published, although nothing awaits the
\* publications.  Each of the three is needed: run listener_loss drops the last.
THEOREM NothingLostUndisturbed ==
    ASSUME MaxCrashes = 0, MaxRefusals = 0, ~PublishMayFail
    PROVE  Spec => []NothingLost
<1> USE BlockListenerAssumption
<1>1. Init => Undisturbed
  BY DEF Init, Undisturbed
<1>2. Inv /\ Undisturbed /\ [Next]_vars => Undisturbed'
  <2> SUFFICES ASSUME Inv, Undisturbed, [Next]_vars
               PROVE  Undisturbed'
    OBVIOUS
  <2>t. refusals \in Nat
    BY DEF Inv, TypeOK
  <2>1. CASE Start
    <3>1. /\ pc = "down" /\ pc' = "fetching" /\ createBrokerConnection
          /\ UNCHANGED <<attempted, publishing, published, rejected, crashes>>
      BY <2>1 DEF Start
    <3>2. client' = "connected"
      BY <3>1, <2>t DEF createBrokerConnection
    <3> QED BY <3>1, <3>2 DEF Undisturbed, Lost
  <2>2. CASE Dispatch
    <3>1. /\ pc = "preparing" /\ pc' = "fetching" /\ crashes' = crashes
          /\ attempted' = attempted \cup {next}
          /\ publishing' = publishing \cup Txs(next)
          /\ UNCHANGED <<published, rejected, client>>
      BY <2>2 DEF Dispatch, Announce, bootstrap
    <3>2. \A h \in attempted' : \A t \in Txs(h) : ~Lost(t)'
      BY <3>1 DEF Undisturbed, Lost
    <3> QED BY <3>1, <3>2 DEF Undisturbed
  <2>3. ~Crash
    BY DEF Crash, Undisturbed
  <2>4. ASSUME NEW t \in publishing, PublishOk(t) \/ PublishRejected(t) PROVE Undisturbed'
    <3>1. pc # "down" /\ client = "connected"
      BY DEF Undisturbed
    <3>2. /\ publishing' = publishing \ {t} /\ published' = published \cup {t}
          /\ UNCHANGED <<pc, attempted, rejected, crashes, client>>
      BY <2>4, <3>1 DEF PublishOk, PublishRejected, bootstrap
    <3> QED BY <3>1, <3>2 DEF Undisturbed, Lost
  <2>5. ASSUME UNCHANGED <<attempted, publishing, published, rejected, crashes, client>>,
               pc' = "down" <=> pc = "down"
        PROVE  Undisturbed'
    BY <2>5 DEF Undisturbed, Lost
  <2>6. CASE FetchBlock \/ FetchNothing \/ NextRound \/ PrepareFail
    <3>1. \E from, to \in {"fetching", "waiting", "preparing"} : Moves(from, to)
      BY <2>6, LoopMoves
    <3> QED BY <2>5, <3>1 DEF Moves, bootstrap
  <2>7. CASE (\E h \in saving : SaveOk(h) \/ SaveRejected(h)) \/ NewBlock \/ Consume
               \/ UNCHANGED vars
    BY <2>5, <2>7 DEF SaveOk, SaveRejected, NewBlock, Consume, vars, bootstrap
  <2> QED
    BY <2>1, <2>2, <2>3, <2>4, <2>6, <2>7 DEF Next, Loop
<1>3. Undisturbed => NothingLost
  BY DEF Undisturbed, NothingLost
<1> QED BY <1>1, <1>2, <1>3, InvAlways, PTL DEF Spec
=============================================================================
