--------------------------- MODULE SaveWalletProofs ---------------------------
(* Theorems about SaveWallet, for any number of wallets, messages, processes,  *)
(* handlers, crashes and failures.                                             *)
EXTENDS SaveWallet, TLAPS

\* A step that sets one handler to a state and leaves the other handlers.
Sets(h, state) == handler' = [handler EXCEPT ![h] = state]

LEMMA SetsOne ==
    ASSUME NEW h \in Handler, NEW state, TypeOK, Sets(h, state)
    PROVE  /\ handler'[h] = state
           /\ \A g \in Handler : g # h => handler'[g] = handler[g]
BY DEF Sets, TypeOK

\* A handler that is not idle is executing a message.
LEMMA Busy ==
    ASSUME NEW h \in Handler, TypeOK, ~At(h, "idle")
    PROVE  /\ handler[h] \in HandlerState
           /\ handler[h].msg \in Msg
           /\ WalletOf(h) \in Wallet
<1>1. handler[h] \in HandlerState \cup {Idle}
  BY DEF TypeOK
<1>2. handler[h] # Idle
  BY DEF At, Idle
<1>3. handler[h] \in HandlerState
  BY <1>1, <1>2
<1>4. handler[h].msg \in Msg
  BY <1>3 DEF HandlerState
<1> QED
  BY <1>3, <1>4, SaveWalletAssumption DEF WalletOf

LEMMA TypeInit == Init => TypeOK
BY SaveWalletAssumption DEF Init, TypeOK

\* A handler that moves on in Goes keeps every type but the cache's and that of
\* what is announced.
LEMMA TypeGoes ==
    ASSUME TypeOK, NEW h \in Handler, NEW state \in HandlerState, Goes(h, state),
           cached' \subseteq Wallet, cachedFacts' \in [Wallet -> SUBSET Fact],
           announced' \subseteq Wallet \X OldTx, UNCHANGED crashes
    PROVE  TypeOK'
BY DEF Goes, TypeOK, wallets, fates

\* Every state a busy handler moves to.
LEMMA HandlerStates ==
    ASSUME TypeOK, NEW h \in Handler, ~At(h, "idle")
    PROVE  /\ \A p \in Phase : [handler[h] EXCEPT !.phase = p] \in HandlerState
           /\ [handler[h] EXCEPT !.phase = "saving", !.source = "cache",
                                 !.copy = cachedFacts[WalletOf(h)]] \in HandlerState
           /\ [handler[h] EXCEPT !.phase = "caching", !.source = "database",
                                 !.copy = facts[WalletOf(h)], !.missed = {}] \in HandlerState
           /\ [handler[h] EXCEPT !.phase = "fetching", !.source = "new",
                                 !.copy = {}, !.missed = {}] \in HandlerState
           /\ \A txs \in SUBSET OldTx, blank \in BOOLEAN :
                 Answered(h, txs, blank) \in HandlerState
<1>1. handler[h] \in HandlerState /\ WalletOf(h) \in Wallet
  BY Busy
<1>2. facts[WalletOf(h)] \subseteq Fact /\ cachedFacts[WalletOf(h)] \subseteq Fact
  BY <1>1 DEF TypeOK
<1> QED
  BY <1>1, <1>2 DEF HandlerState, Phase, Source, Answered

LEMMA TypeExecute ==
    ASSUME TypeOK, NEW h \in Handler, Execute(h)
    PROVE  TypeOK'
<1>1. ~At(h, "idle")
  BY DEF Execute, At, FindCached, CacheMisses, Read, CacheCopy, FetchHistory, Announce,
         Save, SaveRefused, Complete, Ack, CallFails, Retry
<1>2. handler[h] \in HandlerState /\ handler[h].msg \in Msg /\ WalletOf(h) \in Wallet
  BY <1>1, Busy
<1>t. /\ cached \subseteq Wallet /\ cachedFacts \in [Wallet -> SUBSET Fact]
      /\ announced \subseteq Wallet \X OldTx
  BY DEF TypeOK
<1>p. {"reading", "saving", "failed", "reporting", "acking"} \subseteq Phase
  BY DEF Phase
<1>3. CASE FindCached(h) \/ CacheMisses(h) \/ Read(h) \/ SaveRefused(h) \/ CallFails(h)
  <2>1. PICK state \in HandlerState : Goes(h, state)
    BY <1>1, <1>3, <1>p, HandlerStates
       DEF FindCached, CacheMisses, Read, SaveRefused, CallFails
  <2>2. UNCHANGED <<cache, announced, crashes>>
    BY <1>3 DEF FindCached, CacheMisses, Read, SaveRefused, CallFails, Goes
  <2> QED BY <2>1, <2>2, <1>t, TypeGoes DEF cache
<1>4. CASE CacheCopy(h)
  <2>1. [handler[h] EXCEPT !.phase = "saving"] \in HandlerState
    BY <1>1, <1>p, HandlerStates
  <2>2. handler[h].copy \subseteq Fact
    BY <1>2 DEF HandlerState
  <2>3. cached' \subseteq Wallet /\ cachedFacts' \in [Wallet -> SUBSET Fact]
    BY <1>4, <1>2, <1>t, <2>2 DEF CacheCopy
  <2> QED BY <1>4, <2>1, <2>3, <1>t, TypeGoes DEF CacheCopy, Goes
<1>5. CASE FetchHistory(h)
  <2>1. PICK txs \in SUBSET OldTx, blank \in BOOLEAN : Goes(h, Answered(h, txs, blank))
    BY <1>5 DEF FetchHistory
  <2>2. Answered(h, txs, blank) \in HandlerState
    BY <1>1, HandlerStates
  <2> QED BY <1>5, <2>1, <2>2, <1>t, TypeGoes DEF FetchHistory, Goes, cache
<1>6. CASE Announce(h)
  <2>1. PICK txs \in SUBSET handler[h].history :
           /\ announced' = announced \cup ({WalletOf(h)} \X txs)
           /\ \E p \in {"saving", "failed"} :
                 Goes(h, [handler[h] EXCEPT !.phase = p])
    BY <1>6 DEF Announce
  <2>2. PICK p \in {"saving", "failed"} : Goes(h, [handler[h] EXCEPT !.phase = p])
    BY <2>1
  <2>3. [handler[h] EXCEPT !.phase = p] \in HandlerState
    BY <1>1, <1>p, HandlerStates
  <2>4. handler[h].history \subseteq OldTx
    BY <1>2 DEF HandlerState
  <2>5. announced' \subseteq Wallet \X OldTx
    BY <2>1, <2>4, <1>2, <1>t
  <2> QED BY <1>6, <2>2, <2>3, <2>5, <1>t, TypeGoes DEF Announce, Goes, cache
<1>7. CASE Save(h)
  <2>1. Merged(h) \subseteq Fact
    BY <1>2, SaveWalletAssumption DEF Merged, HandlerState
  <2>2. PICK next \in {"reporting", "failed"} :
          handler' = [g \in Handler |->
             IF g = h THEN [handler[h] EXCEPT !.phase = next]
             ELSE IF ~At(g, "idle") /\ WalletOf(g) = WalletOf(h)
             THEN [handler[g] EXCEPT !.missed = @ \cup Merged(h)]
             ELSE handler[g]]
    BY <1>7 DEF Save
  <2>3. ASSUME NEW g \in Handler PROVE handler'[g] \in HandlerState \cup {Idle}
    <3>1. CASE g = h
      BY <2>2, <3>1, <1>1, <1>p, HandlerStates
    <3>2. CASE g # h /\ ~At(g, "idle") /\ WalletOf(g) = WalletOf(h)
      <4>1. handler[g] \in HandlerState
        BY <3>2, Busy
      <4>2. [handler[g] EXCEPT !.missed = @ \cup Merged(h)] \in HandlerState
        BY <4>1, <2>1 DEF HandlerState
      <4> QED BY <2>2, <3>2, <4>2
    <3>3. CASE g # h /\ ~(~At(g, "idle") /\ WalletOf(g) = WalletOf(h))
      BY <2>2, <3>3 DEF TypeOK
    <3> QED BY <3>1, <3>2, <3>3
  <2>4. handler' \in [Handler -> HandlerState \cup {Idle}]
    BY <2>2, <2>3
  <2>5. recorded' \subseteq Wallet /\ facts' \in [Wallet -> SUBSET Fact]
    BY <1>7, <1>2, <2>1 DEF Save, TypeOK
  <2> QED BY <1>7, <2>4, <2>5 DEF Save, TypeOK, cache, fates
<1>8. CASE Complete(h)
  <2>1. handler' = [handler EXCEPT ![h] = [handler[h] EXCEPT !.phase = "acking"]]
    BY <1>8 DEF Complete
  <2>2. handler' \in [Handler -> HandlerState \cup {Idle}]
    BY <2>1, <1>1, <1>p, HandlerStates DEF TypeOK
  <2> QED BY <1>8, <1>2, <2>2 DEF Complete, TypeOK, wallets, cache, fates
<1>9. CASE Retry(h)
  <2>1. handler[h].retries \in Nat
    BY <1>2 DEF HandlerState
  <2>2. queue' \subseteq Msg \X Nat /\ dead' \subseteq Msg /\ discarded' \subseteq Msg
    BY <1>9, <2>1, <1>2 DEF Retry, TypeOK, fates
  <2>3. handler' \in [Handler -> HandlerState \cup {Idle}]
    BY <1>9 DEF Retry, TypeOK
  <2> QED BY <1>9, <2>2, <2>3 DEF Retry, TypeOK, wallets, cache
<1>10. CASE Ack(h)
  <2>1. handler' \in [Handler -> HandlerState \cup {Idle}]
    BY <1>10 DEF Ack, Goes, TypeOK
  <2> QED BY <1>10, <2>1 DEF Ack, Goes, TypeOK, wallets, cache, fates
<1> QED
  BY <1>3, <1>4, <1>5, <1>6, <1>7, <1>8, <1>9, <1>10 DEF Execute

LEMMA TypeNext == TypeOK /\ [Next]_vars => TypeOK'
<1> SUFFICES ASSUME TypeOK, [Next]_vars PROVE TypeOK'
  OBVIOUS
<1>1. ASSUME NEW h \in Handler, NEW e \in queue, Take(h, e[1], e[2]) PROVE TypeOK'
  <2>1. e[1] \in Msg /\ e[2] \in Nat
    BY DEF TypeOK
  <2>2. Taken(e[1], e[2]) \in HandlerState
    BY <2>1 DEF Taken, HandlerState, Phase, Source
  <2> QED BY <1>1, <2>2 DEF Take, TypeOK, wallets, cache, fates
<1>2. ASSUME NEW w \in Wallet, Expire(w) PROVE TypeOK'
  BY <1>2 DEF Expire, TypeOK, wallets, cache, fates
<1>4. ASSUME NEW p \in Process, Crash(p) PROVE TypeOK'
  <2> DEFINE busy == {h \in Handler : Home[h] = p /\ ~At(h, "idle")}
  <2>1. \A h \in busy : handler[h].msg \in Msg /\ handler[h].retries \in Nat
    BY Busy DEF HandlerState
  <2>2. queue' \subseteq Msg \X Nat
    BY <1>4, <2>1 DEF Crash, TypeOK
  <2>3. handler' \in [Handler -> HandlerState \cup {Idle}]
    BY <1>4 DEF Crash, TypeOK
  <2> QED BY <1>4, <2>2, <2>3 DEF Crash, TypeOK, wallets, cache, fates
<1>5. CASE UNCHANGED vars
  BY <1>5 DEF vars, wallets, cache, fates, TypeOK
<1> QED
  BY <1>1, <1>2, <1>4, <1>5, TypeExecute DEF Next, Consume

\* Every variable keeps its type, the handlers' records included.
THEOREM WalletTypes == Spec => []TypeOK
BY TypeInit, TypeNext, PTL DEF Spec
-----------------------------------------------------------------------------
\* Cached copies are of recorded wallets; a wallet without a document has no facts.
CacheBacked ==
    /\ cached \subseteq recorded
    /\ \A w \in Wallet \ recorded : facts[w] = {}

\* Where the copy of a handler comes from, by the phase it is in.
SourceOK(h) ==
    /\ At(h, "caching") => handler[h].source = "database" /\ WalletOf(h) \in recorded
    /\ At(h, "fetching") \/ At(h, "announcing") => handler[h].source = "new"
    /\ At(h, "saving") => handler[h].source # "none"

\* A copy read from the database, with what was missed since, covers the document.
Holding == {"caching", "fetching", "announcing", "saving"}

UpToDate(h) ==
    handler[h].phase \in Holding /\ handler[h].source # "cache"
        => facts[WalletOf(h)] \subseteq handler[h].copy \cup handler[h].missed

Inv == TypeOK /\ CacheBacked /\ \A h \in Handler : SourceOK(h) /\ UpToDate(h)

LEMMA InvInit == Init => Inv
<1> SUFFICES ASSUME Init PROVE Inv
  OBVIOUS
<1>1. TypeOK
  BY TypeInit
<1>2. \A h \in Handler : handler[h].phase = "idle"
  BY DEF Init, Idle
<1>3. \A h \in Handler : SourceOK(h) /\ UpToDate(h)
  BY <1>2 DEF SourceOK, UpToDate, At, Holding
<1>4. CacheBacked
  BY DEF Init, CacheBacked
<1> QED BY <1>1, <1>3, <1>4 DEF Inv

\* What a handler that moves must show: the others keep what they have.
LEMMA InvGoes ==
    ASSUME Inv, TypeOK', NEW h \in Handler, NEW state, Goes(h, state),
           cached' \subseteq recorded,
           SourceOK(h)', UpToDate(h)'
    PROVE  Inv'
<1>1. \A g \in Handler : g # h => handler'[g] = handler[g]
  BY SetsOne DEF Goes, Sets, Inv
<1>2. UNCHANGED <<recorded, facts>>
  BY DEF Goes, wallets
<1>3. ASSUME NEW g \in Handler PROVE SourceOK(g)' /\ UpToDate(g)'
  BY <1>1, <1>2 DEF Inv, SourceOK, UpToDate, At, WalletOf
<1>4. CacheBacked'
  BY <1>2 DEF Inv, CacheBacked
<1> QED BY <1>3, <1>4 DEF Inv

LEMMA InvExecute ==
    ASSUME Inv, NEW h \in Handler, Execute(h)
    PROVE  Inv'
<1>t. TypeOK /\ TypeOK'
  BY TypeExecute DEF Inv
<1>b. ~At(h, "idle")
  BY DEF Execute, At, FindCached, CacheMisses, Read, CacheCopy, FetchHistory, Announce,
         Save, SaveRefused, Complete, Ack, CallFails, Retry
<1>2. handler[h] \in HandlerState /\ WalletOf(h) \in Wallet
  BY <1>t, <1>b, Busy
<1>c. CacheBacked /\ SourceOK(h) /\ UpToDate(h)
  BY DEF Inv
<1>3. CASE FindCached(h)
  <2> DEFINE state == [handler[h] EXCEPT !.phase = "saving", !.source = "cache",
                                         !.copy = cachedFacts[WalletOf(h)]]
  <2>1. Goes(h, state) /\ UNCHANGED cached
    BY <1>3 DEF FindCached, cache
  <2>2. handler'[h] = state
    BY <2>1, <1>t, SetsOne DEF Goes, Sets
  <2>3. state.phase = "saving" /\ state.source = "cache"
    BY <1>2 DEF HandlerState
  <2>4. SourceOK(h)' /\ UpToDate(h)'
    BY <2>2, <2>3 DEF SourceOK, UpToDate, At, Holding
  <2> QED BY <2>1, <2>4, <1>t, <1>c, InvGoes DEF CacheBacked
<1>4. CASE CacheMisses(h) \/ SaveRefused(h) \/ CallFails(h)
  <2>1. PICK p \in {"reading", "failed"} : Goes(h, [handler[h] EXCEPT !.phase = p])
    BY <1>4 DEF CacheMisses, SaveRefused, CallFails
  <2>2. handler'[h] = [handler[h] EXCEPT !.phase = p] /\ UNCHANGED cached
    BY <2>1, <1>4, <1>t, SetsOne DEF Goes, Sets, CacheMisses, SaveRefused, CallFails, cache
  <2>3. handler'[h].phase \in {"reading", "failed"}
    BY <2>2, <1>2 DEF HandlerState
  <2>4. SourceOK(h)' /\ UpToDate(h)'
    BY <2>3 DEF SourceOK, UpToDate, At, Holding
  <2> QED BY <2>1, <2>2, <2>4, <1>t, <1>c, InvGoes DEF CacheBacked
<1>5. CASE Read(h) /\ WalletOf(h) \in recorded
  <2> DEFINE state == [handler[h] EXCEPT !.phase = "caching", !.source = "database",
                                         !.copy = facts[WalletOf(h)], !.missed = {}]
  <2>1. Goes(h, state) /\ UNCHANGED cached
    BY <1>5 DEF Read, cache
  <2>2. handler'[h] = state
    BY <2>1, <1>t, SetsOne DEF Goes, Sets
  <2>3. /\ state.phase = "caching" /\ state.source = "database"
        /\ state.copy = facts[WalletOf(h)] /\ state.msg = handler[h].msg
    BY <1>2 DEF HandlerState
  <2>4. WalletOf(h)' = WalletOf(h) /\ UNCHANGED <<recorded, facts>>
    BY <2>1, <2>2, <2>3 DEF WalletOf, Goes, wallets
  <2>5. SourceOK(h)' /\ UpToDate(h)'
    BY <2>2, <2>3, <2>4, <1>5 DEF SourceOK, UpToDate, At, Holding
  <2> QED BY <2>1, <2>5, <1>t, <1>c, InvGoes DEF CacheBacked
<1>6. CASE Read(h) /\ WalletOf(h) \notin recorded
  <2> DEFINE state == [handler[h] EXCEPT !.phase = "fetching", !.source = "new",
                                         !.copy = {}, !.missed = {}]
  <2>1. Goes(h, state) /\ UNCHANGED cached
    BY <1>6 DEF Read, cache
  <2>2. handler'[h] = state
    BY <2>1, <1>t, SetsOne DEF Goes, Sets
  <2>3. state.phase = "fetching" /\ state.source = "new" /\ state.msg = handler[h].msg
    BY <1>2 DEF HandlerState
  <2>4. WalletOf(h)' = WalletOf(h) /\ UNCHANGED <<recorded, facts>>
    BY <2>1, <2>2, <2>3 DEF WalletOf, Goes, wallets
  <2>5. facts[WalletOf(h)] = {}
    BY <1>6, <1>2, <1>c DEF CacheBacked
  <2>6. SourceOK(h)' /\ UpToDate(h)'
    BY <2>2, <2>3, <2>4, <2>5 DEF SourceOK, UpToDate, At, Holding
  <2> QED BY <2>1, <2>6, <1>t, <1>c, InvGoes DEF CacheBacked
<1>7. CASE CacheCopy(h) \/ Announce(h)
  <2>1. PICK p \in {"saving", "failed"} : Goes(h, [handler[h] EXCEPT !.phase = p])
    BY <1>7 DEF CacheCopy, Announce
  <2>2. handler'[h] = [handler[h] EXCEPT !.phase = p]
    BY <2>1, <1>t, SetsOne DEF Goes, Sets
  <2>3. /\ handler'[h].phase \in {"saving", "failed"}
        /\ handler'[h].source = handler[h].source /\ handler'[h].msg = handler[h].msg
        /\ handler'[h].copy = handler[h].copy /\ handler'[h].missed = handler[h].missed
    BY <2>2, <1>2 DEF HandlerState
  <2>4. WalletOf(h)' = WalletOf(h) /\ UNCHANGED <<recorded, facts>>
    BY <2>1, <2>3 DEF WalletOf, Goes, wallets
  <2>5. handler[h].source \in {"database", "new"} /\ handler[h].phase \in Holding
    BY <1>7, <1>c DEF CacheCopy, Announce, SourceOK, At, Holding
  <2>6. SourceOK(h)' /\ UpToDate(h)'
    BY <2>3, <2>4, <2>5, <1>c DEF SourceOK, UpToDate, At, Holding
  <2>7. cached' \subseteq recorded
    <3>1. CASE CacheCopy(h)
      BY <3>1, <1>c DEF CacheCopy, CacheBacked, SourceOK
    <3>2. CASE Announce(h)
      BY <3>2, <1>c DEF Announce, cache, CacheBacked
    <3> QED BY <1>7, <3>1, <3>2
  <2> QED BY <2>1, <2>6, <2>7, <1>t, InvGoes
<1>8. CASE FetchHistory(h)
  <2>1. PICK txs, blank : Goes(h, Answered(h, txs, blank))
    BY <1>8 DEF FetchHistory
  <2>2. handler'[h] = Answered(h, txs, blank)
    BY <2>1, <1>t, SetsOne DEF Goes, Sets
  <2>3. /\ handler'[h].phase = "announcing"
        /\ handler'[h].source = handler[h].source /\ handler'[h].msg = handler[h].msg
        /\ handler'[h].copy = handler[h].copy /\ handler'[h].missed = handler[h].missed
    BY <2>2, <1>2 DEF HandlerState, Answered
  <2>4. WalletOf(h)' = WalletOf(h) /\ UNCHANGED <<recorded, facts, cached>>
    BY <2>1, <2>3, <1>8 DEF WalletOf, Goes, wallets, FetchHistory, cache
  <2>5. handler[h].source = "new" /\ handler[h].phase \in Holding
    BY <1>8, <1>c DEF FetchHistory, SourceOK, At, Holding
  <2>6. SourceOK(h)' /\ UpToDate(h)'
    BY <2>3, <2>4, <2>5, <1>c DEF SourceOK, UpToDate, At, Holding
  <2> QED BY <2>1, <2>4, <2>6, <1>t, <1>c, InvGoes DEF CacheBacked
<1>9. CASE Save(h)
  <2> DEFINE told(g) == [handler[g] EXCEPT !.missed = @ \cup Merged(h)]
  <2>1. PICK next \in {"reporting", "failed"} :
          handler' = [g \in Handler |->
             IF g = h THEN [handler[h] EXCEPT !.phase = next]
             ELSE IF ~At(g, "idle") /\ WalletOf(g) = WalletOf(h) THEN told(g)
             ELSE handler[g]]
    BY <1>9 DEF Save
  <2>2. handler'[h].phase \in {"reporting", "failed"}
    BY <2>1, <1>2 DEF HandlerState
  <2>3. /\ recorded' = recorded \cup {WalletOf(h)}
        /\ facts' = [facts EXCEPT ![WalletOf(h)] = Merged(h)]
        /\ UNCHANGED cached
    BY <1>9 DEF Save, cache
  <2>4. facts'[WalletOf(h)] = Merged(h)
        /\ \A w \in Wallet : w # WalletOf(h) => facts'[w] = facts[w]
    BY <2>3, <1>2, <1>t DEF TypeOK
  <2>5. CacheBacked'
    BY <2>3, <2>4, <1>c DEF CacheBacked
  <2>6. ASSUME NEW g \in Handler PROVE SourceOK(g)' /\ UpToDate(g)'
    <3>1. CASE g = h
      BY <3>1, <2>2 DEF SourceOK, UpToDate, At, Holding
    <3>2. CASE g # h /\ ~At(g, "idle") /\ WalletOf(g) = WalletOf(h)
      <4>1. handler[g] \in HandlerState
        BY <3>2, <1>t, Busy
      <4>2. /\ handler'[g].phase = handler[g].phase /\ handler'[g].source = handler[g].source
            /\ handler'[g].msg = handler[g].msg /\ handler'[g].copy = handler[g].copy
            /\ handler'[g].missed = handler[g].missed \cup Merged(h)
        BY <2>1, <3>2, <4>1 DEF HandlerState
      <4>3. WalletOf(g)' = WalletOf(g) /\ facts'[WalletOf(g)] = Merged(h)
        BY <4>2, <2>4, <3>2 DEF WalletOf
      <4>4. SourceOK(g)
        BY DEF Inv
      <4> QED BY <4>2, <4>3, <4>4, <2>3 DEF SourceOK, UpToDate, At
    <3>3. CASE g # h /\ ~At(g, "idle") /\ WalletOf(g) # WalletOf(h)
      <4>1. handler'[g] = handler[g] /\ WalletOf(g) \in Wallet
        BY <2>1, <3>3, <1>t, Busy
      <4>2. WalletOf(g)' = WalletOf(g) /\ facts'[WalletOf(g)] = facts[WalletOf(g)]
        BY <4>1, <2>4, <3>3 DEF WalletOf
      <4>3. SourceOK(g) /\ UpToDate(g)
        BY DEF Inv
      <4> QED BY <4>1, <4>2, <4>3, <2>3 DEF SourceOK, UpToDate, At
    <3>4. CASE g # h /\ At(g, "idle")
      BY <2>1, <3>4 DEF SourceOK, UpToDate, At, Holding
    <3> QED BY <3>1, <3>2, <3>3, <3>4
  <2> QED BY <2>5, <2>6, <1>t DEF Inv
<1>10. CASE Complete(h) \/ Ack(h) \/ Retry(h)
  <2>1. PICK state \in {Idle, [handler[h] EXCEPT !.phase = "acking"]} :
           Sets(h, state) /\ UNCHANGED <<recorded, facts, cached>>
    BY <1>10 DEF Complete, Ack, Goes, Retry, Sets, wallets, cache
  <2>a. state.phase \in {"idle", "acking"}
    BY <1>2 DEF Idle, HandlerState
  <2>2. /\ handler'[h].phase \in {"idle", "acking"}
        /\ \A g \in Handler : g # h => handler'[g] = handler[g]
    BY <2>1, <2>a, <1>t, SetsOne
  <2>3. ASSUME NEW g \in Handler PROVE SourceOK(g)' /\ UpToDate(g)'
    BY <2>1, <2>2 DEF Inv, SourceOK, UpToDate, At, WalletOf, Holding
  <2>4. CacheBacked'
    BY <2>1, <1>c DEF CacheBacked
  <2> QED BY <2>3, <2>4, <1>t DEF Inv
<1> QED
  BY <1>3, <1>4, <1>5, <1>6, <1>7, <1>8, <1>9, <1>10 DEF Execute

\* The steps outside the handlers' executions.
LEMMA InvNext == Inv /\ [Next]_vars => Inv'
<1> SUFFICES ASSUME Inv, [Next]_vars PROVE Inv'
  OBVIOUS
<1>t. TypeOK /\ TypeOK'
  BY TypeNext DEF Inv
<1>1. ASSUME NEW h \in Handler, NEW e \in queue, Take(h, e[1], e[2]) PROVE Inv'
  <2>1. Sets(h, Taken(e[1], e[2])) /\ UNCHANGED <<recorded, facts, cached>>
    BY <1>1 DEF Take, Sets, wallets, cache
  <2>2. handler'[h].phase = "finding" /\ \A g \in Handler : g # h => handler'[g] = handler[g]
    BY <2>1, <1>t, SetsOne DEF Taken
  <2>3. ASSUME NEW g \in Handler PROVE SourceOK(g)' /\ UpToDate(g)'
    BY <2>1, <2>2 DEF Inv, SourceOK, UpToDate, At, WalletOf, Holding
  <2> QED BY <2>1, <2>3, <1>t DEF Inv, CacheBacked
<1>2. ASSUME NEW w \in Wallet, Expire(w) PROVE Inv'
  <2>1. UNCHANGED <<recorded, facts, handler>>
    BY <1>2 DEF Expire, wallets
  <2>2. CacheBacked'
    BY <1>2 DEF Expire, wallets, Inv, CacheBacked
  <2>3. ASSUME NEW g \in Handler PROVE SourceOK(g)' /\ UpToDate(g)'
    BY <2>1 DEF Inv, SourceOK, UpToDate, At, WalletOf
  <2> QED BY <2>2, <2>3, <1>t DEF Inv
<1>4. ASSUME NEW p \in Process, Crash(p) PROVE Inv'
  <2>1. UNCHANGED <<recorded, facts, cached>>
        /\ \A g \in Handler : handler'[g] = handler[g] \/ handler'[g].phase = "idle"
    BY <1>4 DEF Crash, wallets, cache, Idle
  <2>2. ASSUME NEW g \in Handler PROVE SourceOK(g)' /\ UpToDate(g)'
    BY <2>1 DEF Inv, SourceOK, UpToDate, At, WalletOf, Holding
  <2> QED BY <2>1, <2>2, <1>t DEF Inv, CacheBacked
<1>5. CASE UNCHANGED vars
  <2>1. UNCHANGED <<recorded, facts, cached, handler>>
    BY <1>5 DEF vars, wallets, cache
  <2>2. ASSUME NEW g \in Handler PROVE SourceOK(g)' /\ UpToDate(g)'
    BY <2>1 DEF Inv, SourceOK, UpToDate, At, WalletOf
  <2> QED BY <2>1, <2>2, <1>t DEF Inv, CacheBacked
<1> QED
  BY <1>1, <1>2, <1>4, <1>5, InvExecute DEF Next, Consume

LEMMA InvAlways == Spec => []Inv
BY InvInit, InvNext, PTL DEF Spec

\* Only a save changes the documents.
LEMMA OnlySaveWrites ==
    ASSUME [Next]_vars
    PROVE  UNCHANGED wallets \/ \E h \in Handler : Save(h)
<1>1. ASSUME NEW h \in Handler, Execute(h) PROVE UNCHANGED wallets \/ Save(h)
  BY <1>1 DEF Execute, FindCached, CacheMisses, Read, CacheCopy, FetchHistory, Announce,
              SaveRefused, Complete, Ack, CallFails, Retry, Goes
<1>2. ASSUME NEW h \in Handler, NEW e \in queue, Take(h, e[1], e[2])
      PROVE  UNCHANGED wallets
  BY <1>2 DEF Take
<1>3. ASSUME NEW w \in Wallet, Expire(w) PROVE UNCHANGED wallets
  BY <1>3 DEF Expire
<1>5. ASSUME NEW p \in Process, Crash(p) PROVE UNCHANGED wallets
  BY <1>5 DEF Crash
<1>6. CASE UNCHANGED vars
  BY <1>6 DEF vars, wallets
<1> QED BY <1>1, <1>2, <1>3, <1>5, <1>6 DEF Next, Consume

\* What a save loses was written by others since its copy was read.
LEMMA SaveLosesMissed ==
    ASSUME Inv, NEW h \in Handler, Save(h), NEW w \in Wallet, NEW f \in facts[w] \ facts'[w]
    PROVE  w = WalletOf(h) /\ f \in handler[h].missed /\ handler'[h].phase # "saving"
<1>1. TypeOK /\ SourceOK(h) /\ UpToDate(h)
  BY DEF Inv
<1>2. handler[h] \in HandlerState /\ WalletOf(h) \in Wallet
  BY <1>1, Busy DEF Save, At
<1>3. facts' = [facts EXCEPT ![WalletOf(h)] = Merged(h)]
  BY DEF Save
<1>4. w = WalletOf(h) /\ facts'[w] = Merged(h)
  BY <1>1, <1>2, <1>3 DEF TypeOK
<1>5. facts[w] \subseteq handler[h].copy \cup handler[h].missed
  BY <1>1, <1>4 DEF Save, Writable, UpToDate, At, Holding
<1>6. f \in handler[h].missed
  BY <1>4, <1>5 DEF Merged
<1>7. PICK next \in {"reporting", "failed"} :
         handler'[h] = [handler[h] EXCEPT !.phase = next]
  BY DEF Save
<1>8. handler'[h].phase # "saving"
  BY <1>7, <1>2 DEF HandlerState
<1> QED BY <1>4, <1>6, <1>8

\* A fact leaves a document only by a save that raced with the save that brought
\* it: no stale cached copy is ever written back.
THEOREM CacheNeverLoses == Spec => LossNeedsOverlap
<1>1. Inv /\ [Next]_vars =>
        [\A w \in Wallet : \A f \in facts[w] \ facts'[w] :
           \E h \in Handler : /\ At(h, "saving") /\ handler'[h].phase # "saving"
                              /\ WalletOf(h) = w
                              /\ f \in handler[h].missed]_vars
  <2> SUFFICES ASSUME Inv, [Next]_vars, NEW w \in Wallet, NEW f \in facts[w] \ facts'[w]
               PROVE  \E h \in Handler : /\ At(h, "saving") /\ handler'[h].phase # "saving"
                                         /\ WalletOf(h) = w
                                         /\ f \in handler[h].missed
    OBVIOUS
  <2>1. PICK h \in Handler : Save(h)
    BY OnlySaveWrites DEF wallets
  <2> QED BY <2>1, SaveLosesMissed DEF Save
<1> QED
  BY <1>1, InvAlways, PTL DEF Spec, LossNeedsOverlap
-----------------------------------------------------------------------------
\* A creating handler that is about to publish holds the whole history, unless the
\* API answered it no items; and a handler that is about to save writes a wallet that
\* has a document, or whose history is published, with the same exception.
HistoryHeld(h) ==
    At(h, "announcing") => handler[h].history = OldTx \/ handler[h].blank
SaveAnnounced(h) ==
    At(h, "saving") => \/ WalletOf(h) \in recorded
                       \/ handler[h].blank
                       \/ {WalletOf(h)} \X OldTx \subseteq announced

HistoryInv == Inv /\ \A h \in Handler : HistoryHeld(h) /\ SaveAnnounced(h)

LEMMA HistoryInvInit == Init => HistoryInv
BY InvInit DEF Init, HistoryInv, HistoryHeld, SaveAnnounced, At, Idle

\* A step that records nothing and publishes nothing less.
LEMMA HistoryGoes ==
    ASSUME HistoryInv, Inv', NEW h \in Handler, NEW state, Sets(h, state),
           recorded' = recorded, announced \subseteq announced',
           HistoryHeld(h)', SaveAnnounced(h)'
    PROVE  HistoryInv'
<1>1. \A g \in Handler : g # h => handler'[g] = handler[g]
  BY SetsOne DEF HistoryInv, Inv
<1>2. ASSUME NEW g \in Handler PROVE HistoryHeld(g)' /\ SaveAnnounced(g)'
  BY <1>1 DEF HistoryInv, HistoryHeld, SaveAnnounced, At, WalletOf
<1> QED BY <1>2 DEF HistoryInv

LEMMA HistoryExecute ==
    ASSUME HistoryInv, Inv', NEW h \in Handler, Execute(h)
    PROVE  HistoryInv'
<1>t. TypeOK /\ CacheBacked /\ SourceOK(h)
  BY DEF HistoryInv, Inv
<1>b. ~At(h, "idle")
  BY DEF Execute, At, FindCached, CacheMisses, Read, CacheCopy, FetchHistory, Announce,
         Save, SaveRefused, Complete, Ack, CallFails, Retry
<1>2. handler[h] \in HandlerState /\ WalletOf(h) \in Wallet
  BY <1>t, <1>b, Busy
<1>3. CASE FindCached(h)
  <2>1. PICK known : Goes(h, [handler[h] EXCEPT !.phase = "saving", !.source = "cache",
                                                !.copy = known])
    BY <1>3 DEF FindCached
  <2> DEFINE state == [handler[h] EXCEPT !.phase = "saving", !.source = "cache", !.copy = known]
  <2>a. handler'[h] = state
    BY <2>1, <1>t, SetsOne DEF Goes, Sets
  <2>2. handler'[h].phase = "saving" /\ handler'[h].msg = handler[h].msg
    BY <2>a, <1>2 DEF HandlerState
  <2>3. WalletOf(h) \in recorded
    BY <1>3, <1>t DEF FindCached, CacheBacked
  <2>4. HistoryHeld(h)' /\ SaveAnnounced(h)'
    BY <2>2, <2>3, <1>3, <1>t
       DEF HistoryHeld, SaveAnnounced, At, WalletOf, Goes, wallets, FindCached
  <2> QED BY <2>1, <2>4, <1>3, HistoryGoes DEF Goes, Sets, wallets, FindCached
<1>4. CASE CacheMisses(h) \/ Read(h) \/ SaveRefused(h) \/ CallFails(h)
  <2>1. PICK state \in HandlerState :
           Goes(h, state) /\ state.phase \in {"reading", "caching", "fetching", "failed"}
    <3>1. {"reading", "failed"} \subseteq Phase
      BY DEF Phase
    <3>2. /\ \A p \in Phase : [handler[h] EXCEPT !.phase = p].phase = p
          /\ [handler[h] EXCEPT !.phase = "caching", !.source = "database",
                !.copy = facts[WalletOf(h)], !.missed = {}].phase = "caching"
          /\ [handler[h] EXCEPT !.phase = "fetching", !.source = "new",
                !.copy = {}, !.missed = {}].phase = "fetching"
      BY <1>2 DEF HandlerState
    <3> QED BY <1>4, <1>t, <1>b, <3>1, <3>2, HandlerStates
            DEF CacheMisses, Read, SaveRefused, CallFails
  <2>2. handler'[h].phase \in {"reading", "caching", "fetching", "failed"}
    BY <2>1, <1>t, SetsOne DEF Goes, Sets
  <2>3. HistoryHeld(h)' /\ SaveAnnounced(h)'
    BY <2>2 DEF HistoryHeld, SaveAnnounced, At
  <2>4. UNCHANGED announced
    BY <1>4 DEF CacheMisses, Read, SaveRefused, CallFails
  <2> QED BY <2>1, <2>3, <2>4, HistoryGoes DEF Goes, Sets, wallets
<1>5. CASE CacheCopy(h)
  <2>1. handler'[h].phase = "saving" /\ handler'[h].msg = handler[h].msg
    <3>1. handler'[h] = [handler[h] EXCEPT !.phase = "saving"]
      BY <1>5, <1>t, SetsOne DEF CacheCopy, Goes, Sets
    <3> QED BY <3>1, <1>2 DEF HandlerState
  <2>2. WalletOf(h) \in recorded
    BY <1>5, <1>t DEF CacheCopy, SourceOK
  <2>3. HistoryHeld(h)' /\ SaveAnnounced(h)'
    BY <2>1, <2>2, <1>5, <1>t
       DEF HistoryHeld, SaveAnnounced, At, WalletOf, Goes, wallets, CacheCopy
  <2> QED BY <2>3, <1>5, HistoryGoes DEF CacheCopy, Goes, Sets, wallets
<1>6. CASE FetchHistory(h)
  <2>1. PICK txs, blank : /\ Goes(h, Answered(h, txs, blank))
                          /\ txs = OldTx \/ blank = TRUE
    BY <1>6 DEF FetchHistory
  <2>2. /\ handler'[h].phase = "announcing"
        /\ handler'[h].history = txs /\ handler'[h].blank = blank
    <3>1. handler'[h] = Answered(h, txs, blank)
      BY <2>1, <1>t, SetsOne DEF Goes, Sets
    <3> QED BY <3>1, <1>2 DEF HandlerState, Answered
  <2>3. HistoryHeld(h)' /\ SaveAnnounced(h)'
    BY <2>1, <2>2 DEF HistoryHeld, SaveAnnounced, At
  <2> QED BY <2>1, <2>3, <1>6, HistoryGoes DEF FetchHistory, Goes, Sets, wallets
<1>7. CASE Announce(h)
  <2>1. handler[h].history = OldTx \/ handler[h].blank
    BY <1>7 DEF Announce, HistoryInv, HistoryHeld
  <2>2. PICK txs \in SUBSET handler[h].history, p \in {"saving", "failed"} :
           /\ announced' = announced \cup ({WalletOf(h)} \X txs)
           /\ Goes(h, [handler[h] EXCEPT !.phase = p])
           /\ p = "saving" => txs = handler[h].history
    BY <1>7 DEF Announce
  <2>3. /\ handler'[h].phase = p /\ handler'[h].msg = handler[h].msg
        /\ handler'[h].blank = handler[h].blank
    <3>1. handler'[h] = [handler[h] EXCEPT !.phase = p]
      BY <2>2, <1>t, SetsOne DEF Goes, Sets
    <3> QED BY <3>1, <1>2 DEF HandlerState
  <2>4. HistoryHeld(h)' /\ SaveAnnounced(h)'
    BY <2>1, <2>2, <2>3 DEF HistoryHeld, SaveAnnounced, At, WalletOf
  <2> QED BY <2>2, <2>4, HistoryGoes DEF Goes, Sets, wallets
<1>8. CASE Save(h)
  <2>1. PICK next \in {"reporting", "failed"} :
          handler' = [g \in Handler |->
             IF g = h THEN [handler[h] EXCEPT !.phase = next]
             ELSE IF ~At(g, "idle") /\ WalletOf(g) = WalletOf(h)
             THEN [handler[g] EXCEPT !.missed = @ \cup Merged(h)]
             ELSE handler[g]]
    BY <1>8 DEF Save
  <2>2. recorded' = recorded \cup {WalletOf(h)} /\ announced' = announced
    BY <1>8 DEF Save
  <2>4. ASSUME NEW g \in Handler PROVE HistoryHeld(g)' /\ SaveAnnounced(g)'
    <3>1. CASE g = h
      <4>1. handler'[g].phase = next
        BY <2>1, <3>1, <1>2 DEF HandlerState
      <4> QED BY <4>1 DEF HistoryHeld, SaveAnnounced, At
    <3>2. CASE g # h /\ ~At(g, "idle") /\ WalletOf(g) = WalletOf(h)
      <4>1. handler[g] \in HandlerState
        BY <3>2, <1>t, Busy
      <4>2. /\ handler'[g].phase = handler[g].phase /\ handler'[g].msg = handler[g].msg
            /\ handler'[g].history = handler[g].history /\ handler'[g].blank = handler[g].blank
        BY <2>1, <3>2, <4>1 DEF HandlerState
      <4> QED BY <4>2, <2>2 DEF HistoryInv, HistoryHeld, SaveAnnounced, At, WalletOf
    <3>3. CASE g # h /\ ~(~At(g, "idle") /\ WalletOf(g) = WalletOf(h))
      BY <2>1, <2>2, <3>3 DEF HistoryInv, HistoryHeld, SaveAnnounced, At, WalletOf
    <3> QED BY <3>1, <3>2, <3>3
  <2> QED BY <2>4 DEF HistoryInv
<1>9. CASE Complete(h) \/ Ack(h) \/ Retry(h)
  <2>1. PICK state \in {Idle, [handler[h] EXCEPT !.phase = "acking"]} :
           Sets(h, state) /\ UNCHANGED <<recorded, announced>>
    BY <1>9 DEF Complete, Ack, Goes, Retry, Sets, wallets
  <2>2. handler'[h].phase \in {"idle", "acking"}
    <3>1. handler'[h] = state
      BY <2>1, <1>t, SetsOne
    <3> QED BY <3>1, <1>2 DEF Idle, HandlerState
  <2>3. HistoryHeld(h)' /\ SaveAnnounced(h)'
    BY <2>2 DEF HistoryHeld, SaveAnnounced, At
  <2> QED BY <2>1, <2>3, HistoryGoes
<1> QED
  BY <1>3, <1>4, <1>5, <1>6, <1>7, <1>8, <1>9 DEF Execute

LEMMA HistoryInvNext == HistoryInv /\ [Next]_vars => HistoryInv'
<1> SUFFICES ASSUME HistoryInv, [Next]_vars PROVE HistoryInv'
  OBVIOUS
<1>t. Inv' /\ TypeOK
  BY InvNext DEF HistoryInv, Inv
<1>1. ASSUME NEW h \in Handler, NEW e \in queue, Take(h, e[1], e[2]) PROVE HistoryInv'
  <2>1. Sets(h, Taken(e[1], e[2])) /\ UNCHANGED <<recorded, announced>>
    BY <1>1 DEF Take, Sets, wallets
  <2>2. handler'[h].phase = "finding"
    BY <2>1, <1>t, SetsOne DEF Taken
  <2> QED BY <2>1, <2>2, <1>t, HistoryGoes DEF HistoryHeld, SaveAnnounced, At
<1>2. ASSUME UNCHANGED <<recorded, announced, handler>> PROVE HistoryInv'
  BY <1>2, <1>t DEF HistoryInv, HistoryHeld, SaveAnnounced, At, WalletOf
<1>3. ASSUME NEW w \in Wallet, Expire(w) PROVE HistoryInv'
  BY <1>2, <1>3 DEF Expire, wallets
<1>5. ASSUME NEW p \in Process, Crash(p) PROVE HistoryInv'
  <2>1. UNCHANGED <<recorded, announced>>
        /\ \A g \in Handler : handler'[g] = handler[g] \/ handler'[g].phase = "idle"
    BY <1>5 DEF Crash, wallets, Idle
  <2> QED BY <2>1, <1>t DEF HistoryInv, HistoryHeld, SaveAnnounced, At, WalletOf
<1>6. CASE UNCHANGED vars
  BY <1>2, <1>6 DEF vars
<1> QED
  BY <1>t, <1>1, <1>3, <1>5, <1>6, HistoryExecute DEF Next, Consume

\* The step that creates a wallet: a save, by a handler that did what SaveAnnounced says.
LEMMA CreationAnnounced ==
    ASSUME HistoryInv, [Next]_vars, NEW w \in recorded' \ recorded
    PROVE  \/ {w} \X OldTx \subseteq announced
           \/ \E h \in Handler : Creates(h, w) /\ handler[h].blank
<1>t. TypeOK
  BY DEF HistoryInv, Inv
<1>1. PICK h \in Handler : Save(h)
  BY OnlySaveWrites DEF wallets
<1>2. w = WalletOf(h) /\ At(h, "saving")
  BY <1>1 DEF Save
<1>3. handler'[h].phase # "saving"
  <2>1. PICK next \in {"reporting", "failed"} : handler'[h] = [handler[h] EXCEPT !.phase = next]
    BY <1>1 DEF Save
  <2>2. handler[h] \in HandlerState
    BY <1>t, <1>2, Busy DEF At
  <2> QED BY <2>1, <2>2 DEF HandlerState
<1>4. Creates(h, w)
  BY <1>2, <1>3 DEF Creates
<1> QED
  BY <1>2, <1>4 DEF HistoryInv, SaveAnnounced

\* HistoryCorrect: a wallet is recorded only after its whole history was published,
\* unless the history API answered an error to the very execution that creates it:
\* whoever else creates it at the same time, whatever is rejected and whatever crashes.
THEOREM HistoryCorrect == Spec => HistoryFirst
<1>1. HistoryInv /\ [Next]_vars =>
         [\A w \in recorded' \ recorded :
            \/ {w} \X OldTx \subseteq announced
            \/ \E h \in Handler : Creates(h, w) /\ handler[h].blank]_vars
  BY CreationAnnounced
<1> QED
  BY <1>1, HistoryInvInit, HistoryInvNext, PTL DEF Spec, HistoryFirst
-----------------------------------------------------------------------------
\* With one handler nothing is written behind its back, and what it has saved is
\* in the document when it reports.
Alone(h) == ~At(h, "idle") => handler[h].missed = {}
Saved(h) == At(h, "reporting") => Facts[handler[h].msg] \subseteq facts[WalletOf(h)]

AloneInv == Inv /\ AppliedKept /\ \A h \in Handler : Alone(h) /\ Saved(h)

LEMMA AloneInit == Init => AloneInv
BY InvInit DEF Init, AloneInv, AppliedKept, Alone, Saved, At, Idle

\* What a step of the execution does to the handler's message, its ghost and to
\* the phase that reports.
LEMMA ExecuteEffect ==
    ASSUME Inv, NEW h \in Handler, Execute(h), handler[h].missed = {}, ~Save(h),
           ~Complete(h), handler'[h].phase # "idle"
    PROVE  handler'[h].missed = {} /\ handler'[h].phase # "reporting" /\ UNCHANGED <<facts, applied>>
<1>t. TypeOK
  BY DEF Inv
<1>b. ~At(h, "idle")
  BY DEF Execute, At, FindCached, CacheMisses, Read, CacheCopy, FetchHistory, Announce,
         Save, SaveRefused, Complete, Ack, CallFails, Retry
<1>2. handler[h] \in HandlerState
  BY <1>t, <1>b, Busy
<1>3. ~Ack(h) /\ ~Retry(h)
  BY <1>t, SetsOne DEF Ack, Goes, Retry, Sets, Idle
<1>4. \E state : /\ Goes(h, state) /\ state.missed = {} /\ state.phase # "reporting"
  <2>1. \A p \in Phase : [handler[h] EXCEPT !.phase = p].phase = p
                          /\ [handler[h] EXCEPT !.phase = p].missed = {}
    BY <1>2 DEF HandlerState
  <2>2. {"reading", "saving", "failed"} \subseteq Phase /\ "reporting" \notin {"reading", "saving", "failed"}
    BY DEF Phase
  <2>3. CASE CacheMisses(h) \/ CacheCopy(h) \/ Announce(h) \/ SaveRefused(h) \/ CallFails(h)
    <3>1. PICK p \in {"reading", "saving", "failed"} : Goes(h, [handler[h] EXCEPT !.phase = p])
      BY <2>3 DEF CacheMisses, CacheCopy, Announce, SaveRefused, CallFails
    <3> QED BY <3>1, <2>1, <2>2
  <2>4. CASE FindCached(h)
    <3> DEFINE state == [handler[h] EXCEPT !.phase = "saving", !.source = "cache",
                                           !.copy = cachedFacts[WalletOf(h)]]
    <3>1. state.missed = {} /\ state.phase = "saving"
      BY <1>2 DEF HandlerState
    <3>2. Goes(h, state)
      BY <2>4 DEF FindCached
    <3> QED BY <3>1, <3>2
  <2>5. CASE Read(h)
    <3> DEFINE found == [handler[h] EXCEPT !.phase = "caching", !.source = "database",
                                           !.copy = facts[WalletOf(h)], !.missed = {}]
               none == [handler[h] EXCEPT !.phase = "fetching", !.source = "new",
                                          !.copy = {}, !.missed = {}]
    <3>1. /\ found.missed = {} /\ found.phase = "caching"
          /\ none.missed = {} /\ none.phase = "fetching"
      BY <1>2 DEF HandlerState
    <3>2. Goes(h, found) \/ Goes(h, none)
      BY <2>5 DEF Read
    <3> QED BY <3>1, <3>2
  <2>6. CASE FetchHistory(h)
    <3>1. PICK txs, blank : Goes(h, Answered(h, txs, blank))
      BY <2>6 DEF FetchHistory
    <3>2. /\ Answered(h, txs, blank).missed = {}
          /\ Answered(h, txs, blank).phase = "announcing"
      BY <1>2 DEF HandlerState, Answered
    <3> QED BY <3>1, <3>2
  <2> QED BY <1>3, <2>3, <2>4, <2>5, <2>6 DEF Execute
<1>5. PICK state : Goes(h, state) /\ state.missed = {} /\ state.phase # "reporting"
  BY <1>4
<1>6. handler'[h] = state
  BY <1>5, <1>t, SetsOne DEF Goes, Sets
<1> QED BY <1>5, <1>6 DEF Goes, wallets

LEMMA AloneNext ==
    ASSUME NEW h0, Handler = {h0}
    PROVE  AloneInv /\ [Next]_vars => AloneInv'
<1> SUFFICES ASSUME AloneInv, [Next]_vars PROVE AloneInv'
  OBVIOUS
<1>t. Inv /\ TypeOK /\ Inv' /\ TypeOK' /\ AppliedKept /\ Alone(h0) /\ Saved(h0) /\ h0 \in Handler
  BY InvNext DEF AloneInv, Inv
<1>1. SUFFICES AppliedKept' /\ Alone(h0)' /\ Saved(h0)'
  BY <1>t DEF AloneInv
<1>2. ASSUME ~Complete(h0), UNCHANGED facts, UNCHANGED applied,
             handler'[h0] = handler[h0] \/ handler'[h0].phase = "idle"
               \/ (handler'[h0].missed = {} /\ handler'[h0].phase # "reporting")
      PROVE  AppliedKept' /\ Alone(h0)' /\ Saved(h0)'
  BY <1>2, <1>t DEF AppliedKept, Alone, Saved, At, WalletOf
<1>3. CASE Save(h0)
  <2>1. handler[h0] \in HandlerState /\ WalletOf(h0) \in Wallet /\ handler[h0].missed = {}
    BY <1>3, <1>t, Busy DEF Save, At, Alone
  <2>2. PICK next \in {"reporting", "failed"} :
           handler'[h0] = [handler[h0] EXCEPT !.phase = next]
    BY <1>3, <1>t DEF Save
  <2>3. /\ handler'[h0].phase = next /\ handler'[h0].missed = {}
        /\ handler'[h0].msg = handler[h0].msg
    BY <2>1, <2>2 DEF HandlerState
  <2>4. facts'[WalletOf(h0)] = Merged(h0) /\ UNCHANGED applied
    BY <1>3, <1>t, <2>1 DEF Save, TypeOK
  <2>5. \A w \in Wallet : facts[w] \subseteq facts'[w]
    BY <1>3, <1>t, <2>1, SaveLosesMissed
  <2>6. AppliedKept'
    <3>1. \A m \in applied : Target[m] \in Wallet
      BY <1>t, SaveWalletAssumption DEF TypeOK
    <3> QED BY <1>t, <2>4, <2>5, <3>1 DEF AppliedKept
  <2> QED BY <2>3, <2>4, <2>6 DEF Alone, Saved, WalletOf, Merged
<1>4. CASE Complete(h0)
  <2>1. /\ handler'[h0].phase = "acking" /\ handler'[h0].missed = handler[h0].missed
        /\ applied' = applied \cup {handler[h0].msg} /\ UNCHANGED facts
    <3>1. /\ Sets(h0, [handler[h0] EXCEPT !.phase = "acking"])
          /\ applied' = applied \cup {handler[h0].msg} /\ UNCHANGED facts
      BY <1>4 DEF Complete, Sets, wallets
    <3>2. handler'[h0] = [handler[h0] EXCEPT !.phase = "acking"]
      BY <3>1, <1>t, SetsOne
    <3>3. handler[h0] \in HandlerState
      BY <1>4, <1>t, Busy DEF Complete, At
    <3> QED BY <3>1, <3>2, <3>3 DEF HandlerState
  <2> QED BY <2>1, <1>t, <1>4 DEF AppliedKept, Alone, Saved, At, WalletOf, Complete
<1>5. CASE Retry(h0)
  <2>1. handler'[h0].phase = "idle" /\ UNCHANGED <<facts, applied>> /\ ~Complete(h0)
    <3>1. Sets(h0, Idle) /\ UNCHANGED <<facts, applied>> /\ ~Complete(h0)
      BY <1>5 DEF Retry, Sets, wallets, Complete, At
    <3>2. handler'[h0] = Idle
      BY <3>1, <1>t, SetsOne
    <3> QED BY <3>1, <3>2 DEF Idle
  <2> QED BY <2>1, <1>2
<1>6. CASE Execute(h0) /\ ~Save(h0) /\ ~Complete(h0) /\ ~Retry(h0)
  <2>1. handler[h0].missed = {}
    BY <1>6, <1>t DEF Alone, Execute, At, FindCached, CacheMisses, Read, CacheCopy,
          FetchHistory, Announce, SaveRefused, Ack, CallFails
  <2>2. UNCHANGED <<facts, applied>>
    BY <1>6 DEF Execute, FindCached, CacheMisses, Read, CacheCopy, FetchHistory, Announce,
          SaveRefused, Ack, CallFails, Goes, wallets
  <2> QED BY <1>2, <1>6, <1>t, <2>1, <2>2, ExecuteEffect
<1>7. ASSUME NEW e \in queue, Take(h0, e[1], e[2]) PROVE AppliedKept' /\ Alone(h0)' /\ Saved(h0)'
  <2>1. handler'[h0] = Taken(e[1], e[2])
    BY <1>7, <1>t, SetsOne DEF Take, Sets
  <2>2. UNCHANGED <<facts, applied>> /\ ~Complete(h0)
    BY <1>7 DEF Take, wallets, Complete, At
  <2> QED BY <1>2, <2>1, <2>2 DEF Taken
<1>8. ASSUME NEW w \in Wallet, Expire(w) PROVE UNCHANGED <<facts, applied, handler>>
  BY <1>8 DEF Expire, wallets
<1>10. ASSUME NEW p \in Process, Crash(p)
       PROVE  UNCHANGED <<facts, applied>> /\ (handler'[h0] = handler[h0] \/ handler'[h0].phase = "idle")
  BY <1>10, <1>t DEF Crash, wallets, Idle
<1>11. ASSUME UNCHANGED <<facts, applied>>,
              handler'[h0] = handler[h0] \/ handler'[h0].phase = "idle"
       PROVE  AppliedKept' /\ Alone(h0)' /\ Saved(h0)'
  BY <1>11, <1>t DEF AppliedKept, Alone, Saved, At, WalletOf
<1>12. CASE UNCHANGED vars
  BY <1>11, <1>12 DEF vars
<1> QED
  BY <1>t, <1>3, <1>4, <1>5, <1>6, <1>7, <1>8, <1>10, <1>11, <1>12 DEF Next, Consume

\* With a single handler what a completed message brought is never lost, caches,
\* failures and crashes notwithstanding: only concurrency loses it.
THEOREM AloneKeeps ==
    ASSUME NEW h0, Handler = {h0}
    PROVE  Spec => []AppliedKept
<1>1. AloneInv => AppliedKept
  BY DEF AloneInv
<1> QED
  BY <1>1, AloneInit, AloneNext, PTL DEF Spec
-----------------------------------------------------------------------------
\* What remains of Execute besides its writes and its end: the handler goes on
\* with the same message.
LEMMA Advances ==
    ASSUME TypeOK, NEW h \in Handler, Execute(h),
           ~Save(h), ~Complete(h), ~Ack(h), ~Retry(h)
    PROVE  /\ \A g \in Handler : At(g, "idle")' <=> At(g, "idle")
           /\ \A g \in Handler : handler'[g].msg = handler[g].msg
           /\ \A g \in Handler : At(g, "acking")' => At(g, "acking")
           /\ UNCHANGED <<queue, applied, dead, discarded>>
<1>b. ~At(h, "idle")
  BY DEF Execute, At, FindCached, CacheMisses, Read, CacheCopy, FetchHistory, Announce,
         Save, SaveRefused, Complete, Ack, CallFails, Retry
<1>2. handler[h] \in HandlerState
  BY <1>b, Busy
<1>3. PICK state : /\ Goes(h, state)
                   /\ state.msg = handler[h].msg /\ state.phase \notin {"idle", "acking"}
  <2>1. CASE CacheMisses(h) \/ CacheCopy(h) \/ Announce(h) \/ SaveRefused(h) \/ CallFails(h)
    <3>1. PICK p \in {"reading", "saving", "failed"} : Goes(h, [handler[h] EXCEPT !.phase = p])
      BY <2>1 DEF CacheMisses, CacheCopy, Announce, SaveRefused, CallFails
    <3>2. /\ [handler[h] EXCEPT !.phase = p].msg = handler[h].msg
          /\ [handler[h] EXCEPT !.phase = p].phase = p
      BY <1>2 DEF HandlerState
    <3> QED BY <3>1, <3>2
  <2>2. CASE FindCached(h)
    <3> DEFINE state == [handler[h] EXCEPT !.phase = "saving", !.source = "cache",
                                           !.copy = cachedFacts[WalletOf(h)]]
    <3>1. state.msg = handler[h].msg /\ state.phase = "saving"
      BY <1>2 DEF HandlerState
    <3>2. Goes(h, state)
      BY <2>2 DEF FindCached
    <3> QED BY <3>1, <3>2
  <2>3. CASE Read(h)
    <3> DEFINE found == [handler[h] EXCEPT !.phase = "caching", !.source = "database",
                                           !.copy = facts[WalletOf(h)], !.missed = {}]
               none == [handler[h] EXCEPT !.phase = "fetching", !.source = "new",
                                          !.copy = {}, !.missed = {}]
    <3>1. /\ found.msg = handler[h].msg /\ found.phase = "caching"
          /\ none.msg = handler[h].msg /\ none.phase = "fetching"
      BY <1>2 DEF HandlerState
    <3>2. Goes(h, found) \/ Goes(h, none)
      BY <2>3 DEF Read
    <3> QED BY <3>1, <3>2
  <2>4. CASE FetchHistory(h)
    <3>1. PICK txs, blank : Goes(h, Answered(h, txs, blank))
      BY <2>4 DEF FetchHistory
    <3>2. /\ Answered(h, txs, blank).msg = handler[h].msg
          /\ Answered(h, txs, blank).phase = "announcing"
      BY <1>2 DEF HandlerState, Answered
    <3> QED BY <3>1, <3>2
  <2> QED BY <2>1, <2>2, <2>3, <2>4 DEF Execute
<1>4. handler'[h] = state /\ \A g \in Handler : g # h => handler'[g] = handler[g]
  BY <1>3, SetsOne DEF Goes, Sets
<1> QED BY <1>3, <1>4, <1>b DEF At, Goes, fates

\* A save touches other handlers' ghosts only.
LEMMA SaveAdvances ==
    ASSUME TypeOK, NEW h \in Handler, Save(h)
    PROVE  /\ \A g \in Handler : At(g, "idle")' <=> At(g, "idle")
           /\ \A g \in Handler : ~At(g, "idle") => handler'[g].msg = handler[g].msg
           /\ \A g \in Handler : At(g, "acking")' => At(g, "acking")
           /\ UNCHANGED <<queue, applied, dead, discarded>>
<1>1. PICK next \in {"reporting", "failed"} :
         handler' = [g \in Handler |->
            IF g = h THEN [handler[h] EXCEPT !.phase = next]
            ELSE IF ~At(g, "idle") /\ WalletOf(g) = WalletOf(h)
            THEN [handler[g] EXCEPT !.missed = @ \cup Merged(h)]
            ELSE handler[g]]
  BY DEF Save
<1>2. ASSUME NEW g \in Handler
      PROVE  /\ At(g, "idle")' <=> At(g, "idle")
             /\ ~At(g, "idle") => handler'[g].msg = handler[g].msg
             /\ At(g, "acking")' => At(g, "acking")
  <2>1. CASE g = h
    <3>1. ~At(h, "idle") /\ handler[h] \in HandlerState
      BY Busy DEF Save, At
    <3>2. handler'[h].phase = next /\ handler'[h].msg = handler[h].msg
      BY <1>1, <3>1 DEF HandlerState
    <3> QED BY <2>1, <3>1, <3>2 DEF At
  <2>2. CASE g # h /\ ~At(g, "idle") /\ WalletOf(g) = WalletOf(h)
    <3>1. handler[g] \in HandlerState
      BY <2>2, Busy
    <3>2. handler'[g].phase = handler[g].phase /\ handler'[g].msg = handler[g].msg
      BY <1>1, <2>2, <3>1 DEF HandlerState
    <3> QED BY <3>2 DEF At
  <2>3. CASE g # h /\ ~(~At(g, "idle") /\ WalletOf(g) = WalletOf(h))
    BY <1>1, <2>3 DEF At
  <2> QED BY <2>1, <2>2, <2>3
<1> QED BY <1>2 DEF Save, fates

\* A message is acknowledged only after it was applied.
AckedApplied == \A h \in Handler : At(h, "acking") => handler[h].msg \in applied

DeliveryInv == TypeOK /\ AckedApplied

\* The messages being executed.
Busied == {handler[h].msg : h \in {g \in Handler : ~At(g, "idle")}}
Queued == {e[1] : e \in queue}

LEMMA HeldParts ==
    /\ Held = Queued \cup dead \cup Busied
    /\ Held' = Queued' \cup dead' \cup Busied'
BY DEF Held, Queued, Busied

LEMMA SameBusied ==
    ASSUME \A g \in Handler : At(g, "idle")' <=> At(g, "idle"),
           \A g \in Handler : ~At(g, "idle") => handler'[g].msg = handler[g].msg
    PROVE  Busied' = Busied
BY DEF Busied

\* A handler that becomes idle: only its own message may no longer be executed.
LEMMA LeavesBusied ==
    ASSUME TypeOK, NEW h \in Handler, ~At(h, "idle"), Sets(h, Idle)
    PROVE  Busied \ {handler[h].msg} \subseteq Busied' /\ Busied' \subseteq Busied
<1>1. handler'[h] = Idle /\ \A g \in Handler : g # h => handler'[g] = handler[g]
  BY SetsOne
<1> QED BY <1>1 DEF Busied, At, Idle

\* The step of an execution as the promise sees it, and what was acknowledged.
Promised ==
    /\ AckedApplied'
    /\ \/ UNCHANGED <<Held, dead, applied, discarded>>
       \/ \E m \in Msg : Delivery!Complete(m) \/ Delivery!Park(m)
                         \/ Delivery!Forget(m) \/ Delivery!Drop(m)

LEMMA StutterPromised ==
    ASSUME AckedApplied, UNCHANGED <<Queued, dead, applied, discarded>>,
           \A g \in Handler : At(g, "idle")' <=> At(g, "idle"),
           \A g \in Handler : ~At(g, "idle") => handler'[g].msg = handler[g].msg,
           \A g \in Handler : At(g, "acking")' => At(g, "acking")
    PROVE  Promised
<1>1. Held' = Held
  BY SameBusied, HeldParts
<1>2. AckedApplied'
  BY DEF AckedApplied, At
<1> QED BY <1>1, <1>2 DEF Promised

LEMMA ExecutePromised ==
    ASSUME DeliveryInv, NEW h \in Handler, Execute(h)
    PROVE  Promised
<1>t. TypeOK /\ AckedApplied
  BY DEF DeliveryInv
<1>b. ~At(h, "idle")
  BY DEF Execute, At, FindCached, CacheMisses, Read, CacheCopy, FetchHistory, Announce,
         Save, SaveRefused, Complete, Ack, CallFails, Retry
<1> DEFINE m == handler[h].msg
<1>2. handler[h] \in HandlerState /\ m \in Msg
  BY <1>t, <1>b, Busy
<1>3. m \in Busied /\ m \in Held
  BY <1>b, HeldParts DEF Busied
<1>i. ASSUME Sets(h, Idle), UNCHANGED applied
      PROVE  /\ AckedApplied'
             /\ Busied \ {m} \subseteq Busied' /\ Busied' \subseteq Busied
  <2>1. handler'[h] = Idle /\ \A g \in Handler : g # h => handler'[g] = handler[g]
    BY <1>i, <1>t, SetsOne
  <2>2. AckedApplied'
    BY <2>1, <1>i, <1>t DEF AckedApplied, At, Idle
  <2> QED BY <1>i, <2>2, <1>t, <1>b, LeavesBusied
<1>4. CASE ~Save(h) /\ ~Complete(h) /\ ~Ack(h) /\ ~Retry(h)
  <2>1. Queued' = Queued
    BY <1>4, <1>t, Advances DEF Queued
  <2> QED BY <2>1, <1>4, <1>t, Advances, StutterPromised
<1>5. CASE Save(h)
  <2>1. Queued' = Queued
    BY <1>5, <1>t, SaveAdvances DEF Queued
  <2> QED BY <2>1, <1>5, <1>t, SaveAdvances, StutterPromised
<1>6. CASE Complete(h)
  <2>1. handler'[h] = [handler[h] EXCEPT !.phase = "acking"]
        /\ \A g \in Handler : g # h => handler'[g] = handler[g]
    BY <1>6, <1>t, SetsOne DEF Complete, Sets
  <2>2. handler'[h].phase = "acking" /\ handler'[h].msg = m
    BY <2>1, <1>2 DEF HandlerState
  <2>3. applied' = applied \cup {m} /\ UNCHANGED <<queue, dead, discarded>>
    BY <1>6 DEF Complete, fates
  <2>4. Held' = Held
    <3>1. Busied' = Busied
      BY <2>1, <2>2, <1>b, SameBusied DEF At
    <3> QED BY <3>1, <2>3, HeldParts DEF Queued
  <2>5. AckedApplied'
    BY <2>1, <2>2, <2>3, <1>t DEF AckedApplied, At
  <2>6. Delivery!Complete(m)
    BY <2>3, <2>4, <1>3 DEF Delivery!Complete
  <2> QED BY <2>5, <2>6, <1>2 DEF Promised
<1>7. CASE Ack(h)
  <2>1. Sets(h, Idle) /\ UNCHANGED <<queue, applied, dead, discarded>>
    BY <1>7 DEF Ack, Goes, Sets, fates
  <2>2. m \in applied
    BY <1>7, <1>t DEF Ack, AckedApplied
  <2>3. Held \ {m} \subseteq Held' /\ Held' \subseteq Held
    BY <2>1, <1>i, HeldParts DEF Queued
  <2>4. CASE m \in Held'
    BY <2>1, <2>3, <2>4, <1>i DEF Promised
  <2>5. CASE m \notin Held'
    <3>1. m \notin dead
      BY <2>1, <2>5, HeldParts
    <3>2. Delivery!Forget(m)
      BY <2>1, <2>2, <2>3, <2>5, <3>1 DEF Delivery!Forget
    <3> QED BY <3>2, <2>1, <1>i, <1>2 DEF Promised
  <2> QED BY <2>4, <2>5
<1>8. CASE Retry(h)
  <2>1. Sets(h, Idle) /\ UNCHANGED applied
    BY <1>8 DEF Retry, Sets
  <2>2. AckedApplied' /\ Busied \ {m} \subseteq Busied' /\ Busied' \subseteq Busied
    BY <2>1, <1>i
  <2>3. CASE UNCHANGED fates /\ queue' = queue \cup {<<m, handler[h].retries + 1>>}
    <3>1. Queued' = Queued \cup {m}
      <4> DEFINE e0 == <<m, handler[h].retries + 1>>
      <4>1. e0[1] = m
        OBVIOUS
      <4>2. queue' = queue \cup {e0}
        BY <2>3
      <4> HIDE DEF e0
      <4> QED BY <4>1, <4>2 DEF Queued
    <3>2. Held' = Held
      BY <2>2, <2>3, <3>1, <1>3, HeldParts DEF fates
    <3> QED BY <2>1, <2>2, <2>3, <3>2 DEF Promised, fates
  <2>4. CASE dead' = dead \cup {m} /\ UNCHANGED <<queue, discarded>>
    <3>1. Held' = Held
      BY <2>2, <2>4, <1>3, HeldParts DEF Queued
    <3>2. Delivery!Park(m)
      BY <2>1, <2>4, <3>1, <1>3 DEF Delivery!Park
    <3> QED BY <2>2, <3>2, <1>2 DEF Promised
  <2>5. CASE MayFail /\ discarded' = discarded \cup {m} /\ UNCHANGED <<queue, dead>>
    <3>1. Held' \in {Held, Held \ {m}}
      BY <2>2, <2>5, HeldParts DEF Queued
    <3>2. dead' \subseteq Held'
      BY HeldParts
    <3>3. Delivery!Drop(m)
      BY <2>1, <2>5, <3>1, <3>2, <1>3 DEF Delivery!Drop
    <3> QED BY <2>2, <3>3, <1>2 DEF Promised
  <2> QED BY <1>8, <2>3, <2>4, <2>5 DEF Retry
<1> QED BY <1>4, <1>5, <1>6, <1>7, <1>8

LEMMA NextPromised == DeliveryInv /\ [Next]_vars => Promised
<1> SUFFICES ASSUME DeliveryInv, [Next]_vars PROVE Promised
  OBVIOUS
<1>t. TypeOK /\ AckedApplied
  BY DEF DeliveryInv
<1>1. ASSUME NEW h \in Handler, NEW e \in queue, Take(h, e[1], e[2]) PROVE Promised
  <2>1. /\ handler'[h] = Taken(e[1], e[2])
        /\ \A g \in Handler : g # h => handler'[g] = handler[g]
    BY <1>1, <1>t, SetsOne DEF Take, Sets
  <2>2. handler'[h].phase = "finding" /\ handler'[h].msg = e[1]
    BY <2>1 DEF Taken
  <2>3. UNCHANGED <<applied, dead, discarded>> /\ At(h, "idle") /\ queue' = queue \ {<<e[1], e[2]>>}
    BY <1>1 DEF Take, fates
  <2>4. e = <<e[1], e[2]>>
    BY <1>t DEF TypeOK
  <2>5. Busied' = Busied \cup {e[1]}
    BY <2>1, <2>2, <2>3 DEF Busied, At
  <2>6. Queued \ {e[1]} \subseteq Queued' /\ Queued' \subseteq Queued /\ e[1] \in Queued
    BY <2>3, <2>4 DEF Queued
  <2>7. Held' = Held
    BY <2>3, <2>5, <2>6, HeldParts
  <2>8. AckedApplied'
    BY <2>1, <2>2, <2>3, <1>t DEF AckedApplied, At
  <2> QED BY <2>3, <2>7, <2>8 DEF Promised
<1>2. ASSUME UNCHANGED <<queue, handler, dead, applied, discarded>> PROVE Promised
  <2>1. Queued' = Queued
    BY <1>2 DEF Queued
  <2> QED BY <1>2, <2>1, <1>t, StutterPromised DEF At
<1>3. ASSUME NEW w \in Wallet, Expire(w) PROVE Promised
  BY <1>2, <1>3 DEF Expire, fates
<1>5. ASSUME NEW p \in Process, Crash(p) PROVE Promised
  <2> DEFINE busy == {h \in Handler : Home[h] = p /\ ~At(h, "idle")}
             back == {<<handler[h].msg, handler[h].retries>> : h \in busy}
  <2>1. \A g \in Handler : handler'[g] = IF g \in busy THEN Idle ELSE handler[g]
    BY <1>5 DEF Crash
  <2>2. queue' = queue \cup back /\ UNCHANGED <<applied, dead, discarded>>
    BY <1>5 DEF Crash, fates
  <2>3. Queued' = Queued \cup {handler[h].msg : h \in busy}
    <3>a. \A h \in busy : <<handler[h].msg, handler[h].retries>>[1] = handler[h].msg
      OBVIOUS
    <3>b. \A e \in back : \E h \in busy : e[1] = handler[h].msg
      BY <3>a
    <3>c. \A h \in busy : \E e \in back : e[1] = handler[h].msg
      BY <3>a
    <3>1. {e[1] : e \in back} = {handler[h].msg : h \in busy}
      <4> HIDE DEF back, busy
      <4> QED BY <3>b, <3>c
    <3> HIDE DEF back
    <3> QED BY <2>2, <3>1 DEF Queued
  <2>4. Busied' \subseteq Busied
    BY <2>1 DEF Busied, At, Idle
  <2>5. Busied \subseteq Busied' \cup {handler[h].msg : h \in busy}
    BY <2>1 DEF Busied, At
  <2>6. {handler[h].msg : h \in busy} \subseteq Busied
    BY DEF Busied
  <2>7. Held' = Held
    BY <2>2, <2>3, <2>4, <2>5, <2>6, HeldParts
  <2>8. AckedApplied'
    BY <2>1, <2>2, <1>t DEF AckedApplied, At, Idle
  <2> QED BY <2>2, <2>7, <2>8 DEF Promised
<1>6. CASE UNCHANGED vars
  BY <1>2, <1>6 DEF vars, fates
<1> QED
  BY <1>1, <1>3, <1>5, <1>6, ExecutePromised DEF Next, Consume

\* SaveWallet's messages are delivered at least once, for any number of handlers,
\* processes, crashes and failures: the promise of Executor is what its handlers
\* keep, too.
THEOREM DeliveryKept == Spec => Delivers
<1>1. Init => DeliveryInv /\ Delivery!Init
  <2> SUFFICES ASSUME Init PROVE DeliveryInv /\ Delivery!Init
    OBVIOUS
  <2>1. DeliveryInv
    BY TypeInit DEF Init, DeliveryInv, AckedApplied, At, Idle
  <2>2. Held \subseteq Msg
    BY DEF Init, Held, At, Idle
  <2> QED BY <2>1, <2>2 DEF Init, Delivery!Init
<1>2. DeliveryInv /\ [Next]_vars => DeliveryInv' /\ [Delivery!Next]_(Delivery!vars)
  BY NextPromised, TypeNext DEF DeliveryInv, Promised, Delivery!Next, Delivery!vars
<1> QED
  BY <1>1, <1>2, PTL DEF Spec, Delivers, Delivery!Spec

\* What the promise is good for: its steps forget only completed or dropped messages.
LEMMA DeliveryStepKept ==
    ASSUME Delivery!NeverDropped, [Delivery!Next]_(Delivery!vars)
    PROVE  /\ Delivery!NeverDropped'
           /\ \A m \in Held \ Held' : m \in applied \/ (MayFail /\ m \in discarded')
<1>1. CASE UNCHANGED Delivery!vars
  BY <1>1 DEF Delivery!vars, Delivery!NeverDropped
<1>2. CASE Delivery!Next
  BY <1>2 DEF Delivery!Next, Delivery!Send, Delivery!Complete, Delivery!Park, Delivery!Revive,
              Delivery!Forget, Delivery!Drop, Delivery!NeverDropped
<1> QED
  BY <1>1, <1>2

\* WalletMessagesKept: a WalletDiscovered message is in a queue, in a handler or in
\* the dead queue until its facts were saved; only a rejected publication of the
\* executor discards it before, and where calls are not rejected nothing does.
THEOREM WalletMessagesKept == Spec => Delivery!Kept
<1>1. Delivery!Init => Delivery!NeverDropped
  BY DEF Delivery!Init, Delivery!NeverDropped
<1>2. Delivery!NeverDropped /\ [Delivery!Next]_(Delivery!vars)
      => /\ Delivery!NeverDropped'
         /\ [\A m \in Held \ Held' : m \in applied \/ (MayFail /\ m \in discarded')]_(Delivery!vars)
  BY DeliveryStepKept
<1> QED
  BY <1>1, <1>2, DeliveryKept, PTL DEF Delivers, Delivery!Spec, Delivery!Kept
-----------------------------------------------------------------------------
(* Where failures come from.                                                   *)

\* FailureNeedsCache: where no call to a service is rejected, an execution fails
\* only because it found the wallet in the cache, whose copy cannot be written back
\* (CachedMongoBaseRepository.ts:39: the _id has become a string).
FailureNeedsCache == \A h \in Handler : At(h, "failed") => handler[h].source = "cache"

LEMMA FailingExecute ==
    ASSUME ~MayFail, TypeOK, FailureNeedsCache, NEW h \in Handler, Execute(h)
    PROVE  FailureNeedsCache'
<1>b. ~At(h, "idle")
  BY DEF Execute, At, FindCached, CacheMisses, Read, CacheCopy, FetchHistory, Announce,
         Save, SaveRefused, Complete, Ack, CallFails, Retry
<1>c. handler[h] \in HandlerState
  BY <1>b, Busy
<1>1. CASE Save(h)
  <2>1. \A g \in Handler : handler'[g] =
          IF g = h THEN [handler[h] EXCEPT !.phase = "reporting"]
          ELSE IF ~At(g, "idle") /\ WalletOf(g) = WalletOf(h)
          THEN [handler[g] EXCEPT !.missed = @ \cup Merged(h)]
          ELSE handler[g]
    BY <1>1 DEF Save
  <2>2. handler'[h].phase = "reporting"
    BY <1>c, <2>1 DEF HandlerState
  <2>3. ASSUME NEW g \in Handler \ {h}
        PROVE  handler'[g].phase = handler[g].phase /\ handler'[g].source = handler[g].source
    <3>1. CASE ~At(g, "idle") /\ WalletOf(g) = WalletOf(h)
      <4>1. handler[g] \in HandlerState /\ handler'[g] = [handler[g] EXCEPT !.missed = @ \cup Merged(h)]
        BY <2>1, <3>1, Busy
      <4> QED
        BY <4>1 DEF HandlerState
    <3>2. CASE ~(~At(g, "idle") /\ WalletOf(g) = WalletOf(h))
      BY <2>1, <3>2
    <3> QED
      BY <3>1, <3>2
  <2> QED
    BY <2>2, <2>3 DEF FailureNeedsCache, At
<1>2. CASE SaveRefused(h)
  <2>1. handler[h].source = "cache" /\ Sets(h, [handler[h] EXCEPT !.phase = "failed"])
    BY <1>2 DEF SaveRefused, Writable, Goes, Sets
  <2>2. handler'[h].source = "cache" /\ \A g \in Handler : g # h => handler'[g] = handler[g]
    BY <1>c, <2>1, SetsOne DEF HandlerState
  <2> QED
    BY <2>2 DEF FailureNeedsCache, At
<1>3. CASE ~Save(h) /\ ~SaveRefused(h)
  <2>1. PICK state : Sets(h, state) /\ state.phase # "failed"
    <3>1. CASE CacheMisses(h) \/ CacheCopy(h) \/ Announce(h) \/ Complete(h)
      <4>1. PICK p \in {"reading", "saving", "acking"} : Sets(h, [handler[h] EXCEPT !.phase = p])
        BY <3>1 DEF CacheMisses, CacheCopy, Announce, Complete, Goes, Sets
      <4>2. [handler[h] EXCEPT !.phase = p].phase = p
        BY <1>c DEF HandlerState
      <4> QED
        BY <4>1, <4>2
    <3>2. CASE FindCached(h)
      <4> DEFINE state == [handler[h] EXCEPT !.phase = "saving", !.source = "cache",
                                             !.copy = cachedFacts[WalletOf(h)]]
      <4>1. state.phase = "saving" /\ Sets(h, state)
        BY <1>c, <3>2 DEF FindCached, Goes, Sets, HandlerState
      <4> QED
        BY <4>1
    <3>3. CASE Read(h)
      <4> DEFINE found == [handler[h] EXCEPT !.phase = "caching", !.source = "database",
                                             !.copy = facts[WalletOf(h)], !.missed = {}]
                 none == [handler[h] EXCEPT !.phase = "fetching", !.source = "new",
                                            !.copy = {}, !.missed = {}]
      <4>1. found.phase = "caching" /\ none.phase = "fetching"
        BY <1>c DEF HandlerState
      <4>2. Sets(h, found) \/ Sets(h, none)
        BY <3>3 DEF Read, Goes, Sets
      <4> QED
        BY <4>1, <4>2
    <3>4. CASE FetchHistory(h)
      <4>1. PICK txs, blank : Sets(h, Answered(h, txs, blank))
        BY <3>4 DEF FetchHistory, Goes, Sets
      <4>2. Answered(h, txs, blank).phase = "announcing"
        BY <1>c DEF HandlerState, Answered
      <4> QED
        BY <4>1, <4>2
    <3>5. CASE Ack(h) \/ Retry(h)
      <4>1. Sets(h, Idle)
        BY <3>5 DEF Ack, Retry, Goes, Sets
      <4>2. Idle.phase # "failed"
        BY DEF Idle
      <4> QED
        BY <4>1, <4>2
    <3>6. ~CallFails(h)
      BY DEF CallFails
    <3> QED
      BY <1>3, <3>1, <3>2, <3>3, <3>4, <3>5, <3>6 DEF Execute
  <2>2. handler'[h].phase # "failed" /\ \A g \in Handler : g # h => handler'[g] = handler[g]
    BY <2>1, SetsOne
  <2> QED
    BY <2>2 DEF FailureNeedsCache, At
<1> QED
  BY <1>1, <1>2, <1>3

LEMMA FailingStep ==
    ASSUME ~MayFail, TypeOK, FailureNeedsCache, [Next]_vars
    PROVE  FailureNeedsCache'
<1>1. ASSUME NEW h \in Handler, Execute(h) PROVE FailureNeedsCache'
  BY <1>1, FailingExecute
<1>2. ASSUME NEW h \in Handler, NEW e \in queue, Take(h, e[1], e[2]) PROVE FailureNeedsCache'
  <2>1. /\ handler'[h] = Taken(e[1], e[2])
        /\ \A g \in Handler : g # h => handler'[g] = handler[g]
    BY <1>2, SetsOne DEF Take, Sets
  <2> QED
    BY <2>1 DEF FailureNeedsCache, At, Taken
<1>3. ASSUME UNCHANGED handler PROVE FailureNeedsCache'
  BY <1>3 DEF FailureNeedsCache, At
<1>4. ASSUME NEW p \in Process, Crash(p) PROVE FailureNeedsCache'
  <2>1. \A g \in Handler : handler'[g] \in {Idle, handler[g]}
    BY <1>4 DEF Crash
  <2> QED
    BY <2>1 DEF FailureNeedsCache, At, Idle
<1> QED
  BY <1>1, <1>2, <1>3, <1>4 DEF Next, Consume, Expire, vars

\* FailuresFromCache: in good health an execution of SaveWallet fails only by writing
\* back a cached copy: the retries and burials that wallet_cached shows have no other
\* cause, whatever is executed at the same time and whatever crashes.
THEOREM FailuresFromCache == ASSUME ~MayFail PROVE Spec => []FailureNeedsCache
<1>1. Init => FailureNeedsCache
  BY DEF Init, FailureNeedsCache, At, Idle
<1>2. TypeOK /\ FailureNeedsCache /\ [Next]_vars => FailureNeedsCache'
  BY FailingStep
<1> QED
  BY <1>1, <1>2, WalletTypes, PTL DEF Spec
=============================================================================
