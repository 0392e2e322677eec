-------------------------- MODULE TxValuationProofs ---------------------------
(* Theorems about TxValuation and the arithmetic of DexSwap, for every path of *)
(* a swap, every number of handlers, processes, deliveries and events.         *)
EXTENDS TxValuation, WellFoundedInduction, TLAPS

\* A set of naturals that is not empty has a least element.
LEMMA LeastOne ==
    ASSUME NEW S \in SUBSET Nat, S # {}
    PROVE  Min(S) \in S /\ \A n \in S : Min(S) <= n
<1> DEFINE R == OpToRel(<, Nat)
<1>1. PICK x \in S : \A y \in S : ~(<<y, x>> \in R)
  BY NatLessThanWellFounded, WFMin
<1>0. \A y, z \in Nat : <<y, z>> \in R <=> y < z
  <2> TAKE y, z \in Nat
  <2>1. <<y, z>> \in Nat \X Nat
    OBVIOUS
  <2>2. <<y, z>>[1] = y /\ <<y, z>>[2] = z
    OBVIOUS
  <2>3. R = {ss \in Nat \X Nat : ss[1] < ss[2]}
    BY DEF OpToRel
  <2> HIDE DEF R
  <2> QED BY <2>1, <2>2, <2>3
<1> HIDE DEF R
<1>2. \A y \in S : x <= y
  <2> TAKE y \in S
  <2>1. x \in Nat /\ y \in Nat
    OBVIOUS
  <2>2. ~(y < x)
    BY <1>1, <1>0, <2>1, Zenon
  <2> QED BY <2>1, <2>2
<1> QED BY <1>2 DEF Min
-----------------------------------------------------------------------------
\* Every move of a price is one of the events.
MovesCounted == \A c \in Chain, q \in Quarter : moves[c][q] <= events

\* The kinds of transaction that get to each call.
Fits(s) ==
    LET kind == tx[s.tx].kind
    IN  /\ s.phase = "receipt" => kind # "block"
        /\ s.phase \in {"wrapped", "stables", "remembering", "tokens"} => kind = "swap"
        /\ s.phase \in {"pricing", "quoting"} => kind \in {"block", "transfer", "swap"}
        /\ s.phase = "publishing" => kind \in {"call", "transfer", "swap"}

KindsFit == \A h \in Handler : Busy(h) => Fits(handler[h])

TypeInv == TypeOK /\ MovesCounted /\ KindsFit

\* What a handler that awaits a call has, and the transaction it is on.
LEMMA Working ==
    ASSUME TypeInv, NEW h \in Handler, Busy(h)
    PROVE  /\ handler[h] \in HandlerState
           /\ handler[h].tx \in Tx
           /\ TxOf(h) = tx[handler[h].tx]
           /\ IsDetails(TxOf(h))
           /\ TxOf(h).chain \in Chain /\ TxOf(h).quarter \in Quarter
           /\ Fits(handler[h])
<1>1. handler[h] \in HandlerState
  BY DEF TypeInv, TypeOK, Busy, At, Idle
<1>2. handler[h].tx \in Tx
  BY <1>1 DEF HandlerState
<1>3. IsDetails(tx[handler[h].tx])
  BY <1>2, ValuationAssumption DEF TypeInv, TypeOK
<1> QED BY <1>1, <1>2, <1>3 DEF TxOf, IsDetails, TypeInv, KindsFit

\* A handler that becomes what a handler may be.
LEMMA BecomesTyped ==
    ASSUME TypeInv, NEW h \in Handler, NEW state, Becomes(h, state),
           state = Idle \/ (state \in HandlerState /\ Fits(state))
    PROVE  /\ handler' \in [Handler -> HandlerState \cup {Idle}]
           /\ tx' = tx /\ takes' = takes /\ events' = events
           /\ KindsFit'
<1>1. /\ handler \in [Handler -> HandlerState \cup {Idle}]
      /\ handler' = [handler EXCEPT ![h] = state]
      /\ tx' = tx /\ takes' = takes /\ events' = events
  BY DEF TypeInv, TypeOK, Becomes
<1>2. handler' \in [Handler -> HandlerState \cup {Idle}]
  BY <1>1
<1>3. ASSUME NEW g \in Handler, Busy(g)' PROVE Fits(handler[g])'
  <2>1. CASE g = h
    BY <1>1, <1>3, <2>1 DEF Busy, At, Idle, Fits
  <2>2. CASE g # h
    <3>1. Fits(handler[g]) /\ handler'[g] = handler[g]
      BY <1>1, <1>3, <2>2 DEF Busy, At, TypeInv, KindsFit
    <3> QED BY <1>1, <3>1 DEF Fits
  <2> QED BY <2>1, <2>2
<1> QED BY <1>1, <1>2, <1>3 DEF KindsFit

\* Going on to another call.
LEMMA GoesTyped ==
    ASSUME TypeInv, NEW h \in Handler, NEW phase \in Phase, Busy(h), Goes(h, phase),
           Fits([handler[h] EXCEPT !.phase = phase])
    PROVE  /\ handler' \in [Handler -> HandlerState \cup {Idle}]
           /\ tx' = tx /\ takes' = takes /\ events' = events
           /\ KindsFit'
<1>1. [handler[h] EXCEPT !.phase = phase] \in HandlerState
  BY Working DEF HandlerState
<1> QED BY <1>1, BecomesTyped DEF Goes

\* The three ways to go on from a price.
LEMMA PricedCases ==
    ASSUME TypeInv, NEW h \in Handler, At(h, "pricing") \/ At(h, "quoting"),
           NEW price \in Price, Priced(h, price)
    PROVE  \E state :
              /\ Becomes(h, state)
              /\ \/ state = Idle
                 \/ /\ state \in HandlerState /\ Fits(state)
                    /\ state.phase \in {"publishing", "tokens"}
                    /\ state.tx = handler[h].tx
                    /\ state.stables = handler[h].stables
                    /\ state.price = price
                    /\ state.known
<1>1. Busy(h)
  BY DEF Busy, At
<1>2. /\ handler[h] \in HandlerState
      /\ TxOf(h) = tx[handler[h].tx]
      /\ TxOf(h).kind \in {"block", "transfer", "swap"}
  BY <1>1, Working DEF Fits, At
<1>3. CASE TxOf(h).kind = "block"
  BY <1>3 DEF Priced
<1>4. CASE TxOf(h).kind = "transfer"
  <2> DEFINE state == [[handler[h] EXCEPT !.price = price, !.known = TRUE]
                          EXCEPT !.phase = "publishing"]
  <2>1. Becomes(h, state)
    BY <1>4 DEF Priced
  <2>2. state \in HandlerState
    BY <1>2 DEF HandlerState, Phase
  <2>3. /\ state.phase = "publishing" /\ state.price = price /\ state.known
        /\ state.tx = handler[h].tx /\ state.stables = handler[h].stables
    BY <1>2 DEF HandlerState
  <2>4. Fits(state)
    BY <1>2, <1>4, <2>3 DEF Fits
  <2> HIDE DEF state
  <2> QED BY <2>1, <2>2, <2>3, <2>4
<1>5. CASE TxOf(h).kind = "swap"
  <2> DEFINE state == [[handler[h] EXCEPT !.price = price, !.known = TRUE]
                          EXCEPT !.phase = "tokens"]
  <2>1. Becomes(h, state)
    BY <1>5 DEF Priced
  <2>2. state \in HandlerState
    BY <1>2 DEF HandlerState, Phase
  <2>3. /\ state.phase = "tokens" /\ state.price = price /\ state.known
        /\ state.tx = handler[h].tx /\ state.stables = handler[h].stables
    BY <1>2 DEF HandlerState
  <2>4. Fits(state)
    BY <1>2, <1>5, <2>3 DEF Fits
  <2> HIDE DEF state
  <2> QED BY <2>1, <2>2, <2>3, <2>4
<1> QED BY <1>2, <1>3, <1>4, <1>5

\* The two ways to go on from the stable coins.
LEMMA ValuesCases ==
    ASSUME TypeInv, NEW h \in Handler, At(h, "stables") \/ At(h, "remembering"),
           NEW stables \in SUBSET Stable, Values(h, stables)
    PROVE  \E state :
              /\ Becomes(h, state)
              /\ state \in HandlerState /\ Fits(state)
              /\ state.tx = handler[h].tx
              /\ state.price = handler[h].price
              /\ state.stables = stables
              /\ \/ /\ HasNoValue(TxOf(h), stables)
                    /\ state.phase = "publishing" /\ state.known = handler[h].known
                    /\ unvalued' = unvalued \cup
                         {[tx |-> handler[h].tx, eversince |-> eversince[Home[h]]]}
                 \/ /\ ~HasNoValue(TxOf(h), stables)
                    /\ state.known
                    /\ state.phase = IF NeedsPrice(TxOf(h), stables) THEN "pricing" ELSE "tokens"
                    /\ unvalued' = unvalued
<1>1. Busy(h)
  BY DEF Busy, At
<1>2. /\ handler[h] \in HandlerState
      /\ TxOf(h) = tx[handler[h].tx]
      /\ TxOf(h).kind = "swap"
  BY <1>1, Working DEF Fits, At
<1> DEFINE with == [handler[h] EXCEPT !.stables = stables]
<1>3. CASE HasNoValue(TxOf(h), stables)
  <2> DEFINE state == [with EXCEPT !.phase = "publishing"]
  <2>1. Becomes(h, state) /\ unvalued' = unvalued \cup
                         {[tx |-> handler[h].tx, eversince |-> eversince[Home[h]]]}
    BY <1>3 DEF Values
  <2>2. state \in HandlerState
    BY <1>2 DEF HandlerState, Phase
  <2>3. /\ state.phase = "publishing" /\ state.price = handler[h].price
        /\ state.tx = handler[h].tx /\ state.stables = stables
        /\ state.known = handler[h].known
    BY <1>2 DEF HandlerState
  <2>4. Fits(state)
    BY <1>2, <2>3 DEF Fits
  <2> HIDE DEF state
  <2> QED BY <1>3, <2>1, <2>2, <2>3, <2>4
<1>4. CASE ~HasNoValue(TxOf(h), stables)
  <2> DEFINE next  == IF NeedsPrice(TxOf(h), stables) THEN "pricing" ELSE "tokens"
             state == [with EXCEPT !.known = TRUE, !.phase = next]
  <2>1. Becomes(h, state) /\ unvalued' = unvalued
    BY <1>4 DEF Values
  <2>2. next \in {"pricing", "tokens"}
    OBVIOUS
  <2> HIDE DEF next
  <2>3. state \in HandlerState
    BY <1>2, <2>2 DEF HandlerState, Phase
  <2>4. /\ state.phase = next /\ state.price = handler[h].price
        /\ state.tx = handler[h].tx /\ state.stables = stables
        /\ state.known
    BY <1>2 DEF HandlerState
  <2>5. Fits(state)
    BY <1>2, <2>2, <2>4 DEF Fits
  <2> HIDE DEF state
  <2>6. next = IF NeedsPrice(TxOf(h), stables) THEN "pricing" ELSE "tokens"
    BY DEF next
  <2> QED BY <1>4, <2>1, <2>3, <2>4, <2>5, <2>6
<1> QED BY <1>3, <1>4

\* What a step may leave of the types when it only moves handlers on.
HandlersTyped == /\ handler' \in [Handler -> HandlerState \cup {Idle}]
                 /\ tx' = tx /\ takes' = takes /\ events' = events
                 /\ KindsFit'

LEMMA ExecuteHandlersTyped ==
    ASSUME TypeInv, NEW h \in Handler, Execute(h)
    PROVE  HandlersTyped
<1> USE DEF HandlersTyped
<1>1. CASE CallFails(h) \/ PublishTxProcessed(h)
  BY <1>1, BecomesTyped DEF CallFails, PublishTxProcessed
<1>2. CASE GetRawTransaction(h)
  <2>1. Busy(h)
    BY <1>2 DEF GetRawTransaction, Busy, At
  <2>2. /\ TxOf(h).kind \in Kind \cup {"swap"} /\ TxOf(h).kind # "block"
        /\ TxOf(h) = tx[handler[h].tx]
        /\ handler[h] \in HandlerState
    BY <1>2, <2>1, Working DEF IsDetails, Fits, At, GetRawTransaction
  <2>3. CASE TxOf(h).kind \in {"reverted", "creation"}
    BY <1>2, <2>3, BecomesTyped DEF GetRawTransaction
  <2>4. CASE TxOf(h).kind = "transfer"
    <3>1. Goes(h, "pricing")
      BY <1>2, <2>4 DEF GetRawTransaction
    <3>2. Fits([handler[h] EXCEPT !.phase = "pricing"])
      BY <2>2, <2>4 DEF Fits, HandlerState
    <3> QED BY <2>1, <3>1, <3>2, GoesTyped DEF Phase
  <2>5. CASE TxOf(h).kind = "swap"
    <3>1. Goes(h, "wrapped")
      BY <1>2, <2>5 DEF GetRawTransaction
    <3>2. Fits([handler[h] EXCEPT !.phase = "wrapped"])
      BY <2>2, <2>5 DEF Fits, HandlerState
    <3> QED BY <2>1, <3>1, <3>2, GoesTyped DEF Phase
  <2>6. CASE TxOf(h).kind = "call"
    <3>1. Goes(h, "publishing")
      BY <1>2, <2>6 DEF GetRawTransaction
    <3>2. Fits([handler[h] EXCEPT !.phase = "publishing"])
      BY <2>2, <2>6 DEF Fits, HandlerState
    <3> QED BY <2>1, <3>1, <3>2, GoesTyped DEF Phase
  <2> QED BY <2>2, <2>3, <2>4, <2>5, <2>6 DEF Kind
<1>3. CASE GetWrappedToken(h)
  <2>1. Busy(h)
    BY <1>3 DEF GetWrappedToken, Busy, At
  <2>2. CASE Becomes(h, Idle)
    BY <2>2, BecomesTyped
  <2>3. CASE Goes(h, "stables")
    <3>1. Fits([handler[h] EXCEPT !.phase = "stables"])
      BY <1>3, <2>1, Working DEF Fits, HandlerState, GetWrappedToken, At
    <3> QED BY <2>1, <2>3, <3>1, GoesTyped DEF Phase
  <2> QED BY <1>3, <2>2, <2>3 DEF GetWrappedToken
<1>4. CASE RecallStableCoins(h) \/ RememberStableCoins(h)
  <2>1. PICK stables \in SUBSET Stable : Values(h, stables)
    <3>1. CASE RecallStableCoins(h)
      BY <3>1, ValuationAssumption DEF RecallStableCoins, TypeInv, TypeOK
    <3>2. CASE RememberStableCoins(h)
      BY <3>2, Working DEF RememberStableCoins, HandlerState, Busy, At
    <3> QED BY <1>4, <3>1, <3>2
  <2>2. At(h, "stables") \/ At(h, "remembering")
    BY <1>4 DEF RecallStableCoins, RememberStableCoins
  <2> QED BY <2>1, <2>2, ValuesCases, BecomesTyped
<1>5. CASE QueryStableCoins(h)
  <2>1. Busy(h)
    BY <1>5 DEF QueryStableCoins, Busy, At
  <2> DEFINE state == [handler[h] EXCEPT !.phase = "remembering", !.stables = marked]
  <2>2. Becomes(h, state)
    BY <1>5 DEF QueryStableCoins
  <2>3. state \in HandlerState
    <3>1. handler[h] \in HandlerState /\ marked \in SUBSET Stable
      BY <2>1, Working DEF TypeInv, TypeOK
    <3> QED BY <3>1 DEF HandlerState, Phase
  <2>4. Fits(state)
    BY <1>5, <2>1, Working DEF Fits, HandlerState, QueryStableCoins, At
  <2> QED BY <2>2, <2>3, <2>4, BecomesTyped
<1>6. CASE FindPrice(h)
  <2>1. At(h, "pricing") /\ Busy(h)
    BY <1>6 DEF FindPrice, Busy, At
  <2>2. cache[CacheKey(TxOf(h))] \in Price
    BY <1>6, <2>1, Working DEF FindPrice, CacheKey, TypeInv, TypeOK
  <2>3. Priced(h, cache[CacheKey(TxOf(h))])
    BY <1>6 DEF FindPrice
  <2> QED BY <2>1, <2>2, <2>3, PricedCases, BecomesTyped
<1>7. CASE MissPrice(h)
  <2>1. Busy(h) /\ Goes(h, "quoting")
    BY <1>7 DEF MissPrice, Busy, At
  <2>2. Fits([handler[h] EXCEPT !.phase = "quoting"])
    BY <1>7, <2>1, Working DEF Fits, HandlerState, MissPrice, At
  <2> QED BY <2>1, <2>2, GoesTyped DEF Phase
<1>8. CASE Quote(h)
  <2>1. At(h, "quoting") /\ Busy(h)
    BY <1>8 DEF Quote, Busy, At
  <2>2. PICK price \in Price : Priced(h, price)
    BY <1>8, <2>1, Working DEF Quote, Price, TypeInv, TypeOK
  <2> QED BY <2>1, <2>2, PricedCases, BecomesTyped
<1>9. CASE FetchTokens(h)
  <2>1. Busy(h) /\ Goes(h, "publishing")
    BY <1>9 DEF FetchTokens, Busy, At
  <2>2. Fits([handler[h] EXCEPT !.phase = "publishing"])
    BY <1>9, <2>1, Working DEF Fits, HandlerState, FetchTokens, At
  <2> QED BY <2>1, <2>2, GoesTyped DEF Phase
<1> QED BY <1>1, <1>2, <1>3, <1>4, <1>5, <1>6, <1>7, <1>8, <1>9 DEF Execute

LEMMA ExecuteTyped ==
    ASSUME TypeInv, NEW h \in Handler, Execute(h)
    PROVE  TypeInv'
<1> USE ValuationAssumption
<1>1. HandlersTyped
  BY ExecuteHandlersTyped
<1>2. /\ now' = now /\ moves' = moves /\ cache' = cache
      /\ marked' = marked /\ wrapped' = wrapped /\ eversince' = eversince
  BY DEF Execute, CallFails, GetRawTransaction, GetWrappedToken, RecallStableCoins,
         QueryStableCoins, RememberStableCoins, FindPrice, MissPrice, Quote, FetchTokens,
         PublishTxProcessed, prices, tokens
<1>3. setting' \subseteq [key : Quarter, price : Price]
  <2>1. CASE Quote(h)
    <3>1. Busy(h)
      BY <2>1 DEF Quote, Busy, At
    <3>2. /\ CacheKey(TxOf(h)) \in Quarter
          /\ TxOf(h).chain \in Chain /\ TxOf(h).quarter \in Quarter
      BY <3>1, Working DEF CacheKey
    <3>3. [chain |-> TxOf(h).chain, quarter |-> TxOf(h).quarter,
           version |-> moves[TxOf(h).chain][TxOf(h).quarter]] \in Price
      BY <3>2 DEF Price, TypeInv, TypeOK
    <3> QED BY <2>1, <3>2, <3>3 DEF Quote, TypeInv, TypeOK
  <2>2. CASE ~Quote(h)
    <3>1. setting' = setting
      BY <2>2 DEF Execute, CallFails, GetRawTransaction, GetWrappedToken, RecallStableCoins,
            QueryStableCoins, RememberStableCoins, FindPrice, MissPrice, FetchTokens,
            PublishTxProcessed, prices
    <3> QED BY <3>1 DEF TypeInv, TypeOK
  <2> QED BY <2>1, <2>2
<1>4. memory' \in [Process -> [wrapped : BOOLEAN, stables : SUBSET Stable]]
  <2>1. /\ memory \in [Process -> [wrapped : BOOLEAN, stables : SUBSET Stable]]
        /\ Home[h] \in Process
    BY DEF TypeInv, TypeOK
  <2>2. CASE GetWrappedToken(h)
    <3>1. CASE memory' = memory
      BY <2>1, <3>1
    <3>2. CASE memory' = [memory EXCEPT ![Home[h]].wrapped = TRUE]
      <4>1. [memory[Home[h]] EXCEPT !.wrapped = TRUE] \in [wrapped : BOOLEAN, stables : SUBSET Stable]
        BY <2>1
      <4>2. memory' = [memory EXCEPT ![Home[h]] = [memory[Home[h]] EXCEPT !.wrapped = TRUE]]
        BY <3>2
      <4> QED BY <2>1, <4>1, <4>2
    <3> QED BY <2>2, <3>1, <3>2 DEF GetWrappedToken
  <2>3. CASE RememberStableCoins(h)
    <3>1. handler[h].stables \in SUBSET Stable
      BY <2>3, Working DEF RememberStableCoins, HandlerState, Busy, At
    <3>2. memory' = [memory EXCEPT ![Home[h]].stables = handler[h].stables]
      BY <2>3 DEF RememberStableCoins
    <3> QED BY <2>1, <3>1, <3>2
  <2>4. CASE ~GetWrappedToken(h) /\ ~RememberStableCoins(h)
    BY <2>1, <2>4 DEF Execute, CallFails, GetRawTransaction, RecallStableCoins,
            QueryStableCoins, FindPrice, MissPrice, Quote, FetchTokens,
            PublishTxProcessed, tokens
  <2> QED BY <2>2, <2>3, <2>4
<1>5. published' \subseteq [tx : Tx, known : BOOLEAN, stables : SUBSET Stable,
                           price : Price \cup {NoPrice}]
  <2>1. CASE PublishTxProcessed(h)
    <3>1. handler[h] \in HandlerState
      BY <2>1, Working DEF PublishTxProcessed, Busy, At
    <3>2. [tx |-> handler[h].tx, known |-> handler[h].known, stables |-> handler[h].stables,
           price |-> handler[h].price]
             \in [tx : Tx, known : BOOLEAN, stables : SUBSET Stable,
                  price : Price \cup {NoPrice}]
      BY <3>1 DEF HandlerState
    <3> QED BY <2>1, <3>2 DEF PublishTxProcessed, TypeInv, TypeOK
  <2>2. CASE ~PublishTxProcessed(h)
    <3>1. published' = published
      BY <2>2 DEF Execute, CallFails, GetRawTransaction, GetWrappedToken, RecallStableCoins,
            QueryStableCoins, RememberStableCoins, FindPrice, MissPrice, Quote, FetchTokens,
            messages
    <3> QED BY <3>1 DEF TypeInv, TypeOK
  <2> QED BY <2>1, <2>2
<1> QED BY <1>1, <1>2, <1>3, <1>4, <1>5 DEF HandlersTyped, TypeInv, TypeOK, MovesCounted

LEMMA TakeTyped ==
    ASSUME TypeInv, NEW h \in Handler, NEW t \in Tx, Take(h, t)
    PROVE  TypeInv'
<1> DEFINE state == [phase |-> IF tx[t].kind = "block" THEN "pricing" ELSE "receipt",
                     tx |-> t, stables |-> {}, price |-> NoPrice, known |-> FALSE]
<1>1. state \in HandlerState
  BY DEF HandlerState, Phase
<1>2. /\ handler' = [handler EXCEPT ![h] = state]
      /\ UNCHANGED <<tx, prices, tokens, messages, events>>
      /\ takes' = takes + 1 /\ takes < MaxTakes
  BY DEF Take
<1>3. state.phase = (IF tx[t].kind = "block" THEN "pricing" ELSE "receipt") /\ state.tx = t
  OBVIOUS
<1> HIDE DEF state
<1>4. handler' \in [Handler -> HandlerState \cup {Idle}]
  BY <1>1, <1>2 DEF TypeInv, TypeOK
<1>5. KindsFit'
  <2> SUFFICES ASSUME NEW g \in Handler, Busy(g)' PROVE Fits(handler[g])'
    BY DEF KindsFit
  <2>1. CASE g = h
    BY <1>2, <1>3, <2>1 DEF Fits, TypeInv, TypeOK
  <2>2. CASE g # h
    <3>1. handler'[g] = handler[g] /\ Fits(handler[g])
      BY <1>2, <2>2 DEF Busy, At, TypeInv, TypeOK, KindsFit
    <3> QED BY <1>2, <3>1 DEF Fits
  <2> QED BY <2>1, <2>2
<1>6. takes' \in 0..MaxTakes
  BY <1>2, ValuationAssumption DEF TypeInv, TypeOK
<1> QED BY <1>2, <1>4, <1>5, <1>6 DEF TypeInv, TypeOK, MovesCounted, prices, tokens, messages

\* An event, and what it leaves of the count.
LEMMA EventTyped ==
    ASSUME TypeInv, Event
    PROVE  events' = events + 1 /\ events' \in 0..MaxEvents
BY ValuationAssumption DEF Event, TypeInv, TypeOK

\* The handlers' types depend on the handlers and their transactions only.
LEMMA KindsFitUnchanged ==
    ASSUME KindsFit, handler' = handler, tx' = tx
    PROVE  KindsFit'
BY DEF KindsFit, Fits, Busy, At

LEMMA AroundTyped ==
    ASSUME TypeInv,
           \/ \E e \in setting : CacheSet(e)
           \/ \E q \in Quarter : Expire(q)
           \/ \E c \in Chain : Move(c)
           \/ NextQuarter
           \/ \E s \in Stable : Mark(s)
           \/ Migrate \/ UnmarkWrapped
    PROVE  TypeInv'
<1> USE ValuationAssumption
<1>1. handler' = handler /\ tx' = tx
  BY DEF CacheSet, Expire, Move, NextQuarter, Mark, Migrate, UnmarkWrapped, TokensSaved, rest
<1>2. KindsFit'
  BY <1>1, KindsFitUnchanged DEF TypeInv
<1>3. ASSUME NEW e \in setting, CacheSet(e) PROVE TypeInv'
  <2>1. cache' \in [Quarter -> Price \cup {NoPrice}]
    <3>1. e.key \in Quarter /\ e.price \in Price
      BY DEF TypeInv, TypeOK
    <3> QED BY <1>3, <3>1 DEF CacheSet, TypeInv, TypeOK
  <2> QED BY <1>2, <1>3, <2>1 DEF CacheSet, rest, tokens, messages, TypeInv, TypeOK, MovesCounted
<1>4. ASSUME NEW q \in Quarter, Expire(q) PROVE TypeInv'
  <2>1. events' = events + 1 /\ events' \in 0..MaxEvents
    BY <1>4, EventTyped DEF Expire
  <2>2. MovesCounted'
    <3> SUFFICES ASSUME NEW c \in Chain, NEW r \in Quarter PROVE moves'[c][r] <= events'
      BY DEF MovesCounted
    <3>1. moves[c][r] \in Nat /\ moves[c][r] <= events /\ events \in Nat /\ moves' = moves
      BY <1>4 DEF TypeInv, TypeOK, MovesCounted, Expire
    <3> QED BY <2>1, <3>1
  <2> QED BY <1>2, <1>4, <2>1, <2>2 DEF Expire, rest, tokens, messages, TypeInv, TypeOK
<1>5. ASSUME NEW c \in Chain, Move(c) PROVE TypeInv'
  <2>1. events' = events + 1 /\ events' \in 0..MaxEvents
    BY <1>5, EventTyped DEF Move
  <2>2. /\ moves' = [moves EXCEPT ![c] = [moves[c] EXCEPT ![now] = moves[c][now] + 1]]
        /\ now \in Quarter /\ moves[c] \in [Quarter -> 0..MaxEvents]
        /\ moves[c][now] \in Nat /\ moves[c][now] <= events /\ events \in Nat
    BY <1>5 DEF Move, TypeInv, TypeOK, MovesCounted
  <2>3. moves[c][now] + 1 \in 0..MaxEvents
    BY <2>1, <2>2
  <2>4. moves' \in [Chain -> [Quarter -> 0..MaxEvents]]
    <3>1. [moves[c] EXCEPT ![now] = moves[c][now] + 1] \in [Quarter -> 0..MaxEvents]
      BY <2>2, <2>3
    <3> QED BY <2>2, <3>1 DEF TypeInv, TypeOK
  <2>5. MovesCounted'
    <3> SUFFICES ASSUME NEW b \in Chain, NEW r \in Quarter PROVE moves'[b][r] <= events'
      BY DEF MovesCounted
    <3>1. /\ moves[b][r] \in Nat /\ moves[b][r] <= events
          /\ moves \in [Chain -> [Quarter -> 0..MaxEvents]]
      BY DEF TypeInv, TypeOK, MovesCounted
    <3>2. moves'[b][r] = moves[b][r] \/ moves'[b][r] = moves[b][r] + 1
      <4>1. CASE b = c /\ r = now
        BY <2>2, <3>1, <4>1
      <4>2. CASE b # c
        BY <2>2, <3>1, <4>2
      <4>3. CASE b = c /\ r # now
        BY <2>2, <3>1, <4>3
      <4> QED BY <4>1, <4>2, <4>3
    <3> QED BY <2>1, <2>2, <3>1, <3>2
  <2> QED BY <1>2, <1>5, <2>1, <2>4, <2>5 DEF Move, rest, tokens, messages, TypeInv, TypeOK
<1>6. CASE NextQuarter
  BY <1>2, <1>6 DEF NextQuarter, Quarter, rest, tokens, messages, TypeInv, TypeOK, MovesCounted
<1>7. ASSUME NEW coins \in SUBSET Stable, NEW has \in BOOLEAN, TokensSaved(coins, has),
             events' \in 0..MaxEvents, events' >= events
      PROVE  TypeInv'
  <2>1. MovesCounted'
    <3> SUFFICES ASSUME NEW c \in Chain, NEW r \in Quarter PROVE moves'[c][r] <= events'
      BY DEF MovesCounted
    <3>1. moves[c][r] \in Nat /\ moves[c][r] <= events /\ events \in Nat /\ moves' = moves
      BY <1>7 DEF TypeInv, TypeOK, MovesCounted, TokensSaved, prices
    <3> QED BY <1>7, <3>1
  <2>2. eversince' \in [Process -> SUBSET Stable]
    BY <1>7 DEF TokensSaved, TypeInv, TypeOK
  <2> QED BY <1>2, <1>7, <2>1, <2>2 DEF TokensSaved, prices, messages, TypeInv, TypeOK
<1>8. /\ events \in 0..MaxEvents
      /\ Event => events' \in 0..MaxEvents /\ events' >= events
      /\ marked \in SUBSET Stable /\ wrapped \in BOOLEAN
  BY EventTyped DEF TypeInv, TypeOK
<1>9. ASSUME NEW s \in Stable, Mark(s) PROVE TypeInv'
  BY <1>7, <1>8, <1>9 DEF Mark
<1>10. CASE Migrate
  <2>1. PICK coins \in SUBSET Stable : TokensSaved(marked \cup coins, TRUE)
    BY <1>10 DEF Migrate
  <2>2. events' = events
    BY <1>10 DEF Migrate
  <2>3. events' \in 0..MaxEvents /\ events' >= events
    BY <1>8, <2>2
  <2>4. marked \cup coins \in SUBSET Stable
    BY <1>8
  <2> QED BY <1>7, <2>1, <2>3, <2>4
<1>11. CASE UnmarkWrapped
  BY <1>7, <1>8, <1>11 DEF UnmarkWrapped
<1> QED BY <1>3, <1>4, <1>5, <1>6, <1>9, <1>10, <1>11

LEMMA CrashTyped ==
    ASSUME TypeInv, NEW p \in Process, Crash(p)
    PROVE  TypeInv'
<1>1. events' = events + 1 /\ events' \in 0..MaxEvents
  BY EventTyped DEF Crash
<1>2. /\ handler' = [h \in Handler |-> IF Home[h] = p THEN Idle ELSE handler[h]]
      /\ memory' = [memory EXCEPT ![p] = NothingRemembered]
      /\ eversince' = [eversince EXCEPT ![p] = marked]
      /\ UNCHANGED <<tx, prices, marked, wrapped, messages, takes>>
  BY DEF Crash
<1>3. KindsFit'
  <2> SUFFICES ASSUME NEW g \in Handler, Busy(g)' PROVE Fits(handler[g])'
    BY DEF KindsFit
  <2>1. handler'[g] = handler[g]
    BY <1>2 DEF Busy, At, Idle
  <2> QED BY <1>2, <2>1 DEF TypeInv, KindsFit, Fits, Busy, At
<1>4. MovesCounted'
  <2> SUFFICES ASSUME NEW c \in Chain, NEW r \in Quarter PROVE moves'[c][r] <= events'
    BY DEF MovesCounted
  <2>1. moves[c][r] \in Nat /\ moves[c][r] <= events /\ events \in Nat /\ moves' = moves
    BY <1>2 DEF TypeInv, TypeOK, MovesCounted, prices
  <2> QED BY <1>1, <2>1
<1>5. memory' \in [Process -> [wrapped : BOOLEAN, stables : SUBSET Stable]]
  <2>1. NothingRemembered \in [wrapped : BOOLEAN, stables : SUBSET Stable]
    BY DEF NothingRemembered
  <2> QED BY <1>2, <2>1 DEF TypeInv, TypeOK
<1>6. handler' \in [Handler -> HandlerState \cup {Idle}] /\ eversince' \in [Process -> SUBSET Stable]
  BY <1>2 DEF TypeInv, TypeOK
<1> QED BY <1>1, <1>2, <1>3, <1>4, <1>5, <1>6 DEF TypeInv, TypeOK, prices, messages

LEMMA TypesInit == Init => TypeInv
<1> SUFFICES ASSUME Init PROVE TypeInv
  OBVIOUS
<1> USE ValuationAssumption
<1>1. handler \in [Handler -> HandlerState \cup {Idle}] /\ KindsFit
  BY DEF Init, KindsFit, Busy, At, Idle
<1>2. 0 \in Quarter /\ 0 \in 0..MaxEvents /\ 0 \in 0..MaxTakes
  BY DEF Quarter
<1>3. moves \in [Chain -> [Quarter -> 0..MaxEvents]] /\ MovesCounted
  BY <1>2 DEF Init, MovesCounted
<1>4. memory \in [Process -> [wrapped : BOOLEAN, stables : SUBSET Stable]]
  BY DEF Init, NothingRemembered
<1>5. cache \in [Quarter -> Price \cup {NoPrice}] /\ eversince \in [Process -> SUBSET Stable]
  BY DEF Init
<1> QED BY <1>1, <1>2, <1>3, <1>4, <1>5 DEF Init, TypeInv, TypeOK

LEMMA TypesNext == TypeInv /\ [Next]_vars => TypeInv'
<1> SUFFICES ASSUME TypeInv, [Next]_vars PROVE TypeInv'
  OBVIOUS
<1>1. ASSUME NEW h \in Handler, Execute(h) PROVE TypeInv'
  BY <1>1, ExecuteTyped
<1>2. ASSUME NEW h \in Handler, NEW t \in Tx, Take(h, t) PROVE TypeInv'
  BY <1>2, TakeTyped
<1>3. ASSUME NEW p \in Process, Crash(p) PROVE TypeInv'
  BY <1>3, CrashTyped
<1>4. CASE UNCHANGED vars
  BY <1>4, KindsFitUnchanged DEF vars, prices, tokens, messages, TypeInv, TypeOK, MovesCounted
<1> QED BY <1>1, <1>2, <1>3, <1>4, AroundTyped DEF Next

\* ValuationTypes: what is remembered, cached, in flight and published keeps its
\* shape, however many transactions are delivered, calls fail and processes exit.
THEOREM ValuationTypes == Spec => []TypeOK
<1>1. Spec => []TypeInv
  BY TypesInit, TypesNext, PTL DEF Spec
<1>2. TypeInv => TypeOK
  BY DEF TypeInv
<1> QED BY <1>1, <1>2, PTL
-----------------------------------------------------------------------------
\* The logs of a swap: the transfers are the first log and those with an even
\* index, the others are the pairs' events.
LEMMA SwapTyped ==
    ASSUME NEW s, IsSwap(s)
    PROVE  /\ Len(s.path) \in Nat /\ Len(s.path) >= 2
           /\ DOMAIN s.path = 1..Len(s.path)
           /\ \A k \in 1..Len(s.path) : s.path[k] \in Token /\ s.moved[k] \in Nat
           /\ DOMAIN Logs(s) = 1..(2 * Len(s.path) - 1)
           /\ DOMAIN Logs(s) \in SUBSET Nat
<1>1. s.path \in Seq(Token) /\ Len(s.path) >= 2 /\ s.moved \in [1..Len(s.path) -> Nat]
  BY DEF IsSwap
<1>2. Len(s.path) \in Nat /\ DOMAIN s.path = 1..Len(s.path)
  BY <1>1
<1>3. DOMAIN Logs(s) = 1..(2 * Len(s.path) - 1)
  BY DEF Logs
<1>4. DOMAIN Logs(s) \in SUBSET Nat
  BY <1>2, <1>3
<1> QED BY <1>1, <1>2, <1>3, <1>4

LEMMA LogsOfHop ==
    ASSUME NEW s, IsSwap(s), NEW k \in 1..(Len(s.path) - 1)
    PROVE  /\ 2 * k \in DOMAIN Logs(s) /\ 2 * k + 1 \in DOMAIN Logs(s)
           /\ Logs(s)[2 * k] = Transfer(s.path[k + 1], PairAt(s, k), PayeeOf(s, k), s.moved[k + 1])
           /\ Logs(s)[2 * k + 1] = SwapEvent(PairAt(s, k))
<1> DEFINE n == Len(s.path)
<1>1. n \in Nat /\ n >= 2 /\ DOMAIN Logs(s) = 1..(2 * n - 1) /\ k \in 1..(n - 1)
  BY SwapTyped
<1> HIDE DEF n
<1>2. /\ k \in Nat
      /\ 2 * k \in 1..(2 * n - 1) /\ 2 * k + 1 \in 1..(2 * n - 1)
      /\ 2 * k # 1 /\ 2 * k + 1 # 1
      /\ (2 * k) % 2 = 0 /\ (2 * k) \div 2 = k
      /\ (2 * k + 1) % 2 # 0 /\ (2 * k + 1) \div 2 = k
  BY <1>1
<1>3. \A i \in 1..(2 * n - 1) : i # 1 =>
         Logs(s)[i] = IF i % 2 = 0
                      THEN Transfer(s.path[i \div 2 + 1], PairAt(s, i \div 2),
                                    PayeeOf(s, i \div 2), s.moved[i \div 2 + 1])
                      ELSE SwapEvent(PairAt(s, i \div 2))
  BY DEF Logs, n
<1>4. Logs(s)[2 * k] = Transfer(s.path[k + 1], PairAt(s, k), PayeeOf(s, k), s.moved[k + 1])
  BY <1>2, <1>3
<1>5. Logs(s)[2 * k + 1] = SwapEvent(PairAt(s, k))
  BY <1>2, <1>3
<1> QED BY <1>1, <1>2, <1>4, <1>5

LEMMA FirstLog ==
    ASSUME NEW s, IsSwap(s)
    PROVE  /\ 1 \in DOMAIN Logs(s)
           /\ Logs(s)[1] = Transfer(s.path[1], IF s.method \in PaysEth THEN Router ELSE s.from,
                                   PairAt(s, 1), s.moved[1])
<1>1. 1 \in 1..(2 * Len(s.path) - 1)
  BY SwapTyped
<1> QED BY <1>1 DEF Logs

LEMMA WhichLog ==
    ASSUME NEW s, IsSwap(s), NEW i \in DOMAIN Logs(s)
    PROVE  \/ i = 1
           \/ \E k \in 1..(Len(s.path) - 1) : i = 2 * k
           \/ \E k \in 1..(Len(s.path) - 1) : i = 2 * k + 1
<1> DEFINE n == Len(s.path)
           k == i \div 2
<1>1. n \in Nat /\ n >= 2 /\ i \in 1..(2 * n - 1)
  BY SwapTyped
<1> HIDE DEF n
<1>2. i # 1 => k \in 1..(n - 1) /\ (i = 2 * k \/ i = 2 * k + 1)
  BY <1>1
<1> QED BY <1>2 DEF n

\* Every transfer is of a token on the path, with the amount that moved of it.
LEMMA TransferMoved ==
    ASSUME NEW s, IsSwap(s), NEW j \in DOMAIN Logs(s), NEW token, IsTransfer(Logs(s)[j], token)
    PROVE  \E k \in 1..Len(s.path) : s.path[k] = token /\ Logs(s)[j].value = s.moved[k]
<1>1. Len(s.path) \in Nat /\ Len(s.path) >= 2
  BY SwapTyped
<1>2. CASE j = 1
  <2>1. 1 \in 1..Len(s.path)
    BY <1>1
  <2>2. Logs(s)[j] = Transfer(s.path[1], IF s.method \in PaysEth THEN Router ELSE s.from,
                              PairAt(s, 1), s.moved[1])
    BY <1>2, FirstLog
  <2>3. Logs(s)[j].address = token /\ Logs(s)[j].value = s.moved[1] /\ s.path[1] = token
    BY <2>2 DEF IsTransfer, Transfer
  <2> QED BY <2>1, <2>3
<1>3. ASSUME NEW k \in 1..(Len(s.path) - 1), j = 2 * k
      PROVE  \E i \in 1..Len(s.path) : s.path[i] = token /\ Logs(s)[j].value = s.moved[i]
  <2>1. k + 1 \in 1..Len(s.path)
    BY <1>1
  <2>2. Logs(s)[j] = Transfer(s.path[k + 1], PairAt(s, k), PayeeOf(s, k), s.moved[k + 1])
    BY <1>3, LogsOfHop
  <2>3. Logs(s)[j].value = s.moved[k + 1] /\ s.path[k + 1] = token
    BY <2>2 DEF IsTransfer, Transfer
  <2> QED BY <2>1, <2>3
<1>4. ASSUME NEW k \in 1..(Len(s.path) - 1), j = 2 * k + 1 PROVE FALSE
  <2>1. Logs(s)[j] = SwapEvent(PairAt(s, k))
    BY <1>4, LogsOfHop
  <2> QED BY <2>1 DEF IsTransfer, SwapEvent
<1> QED BY <1>2, <1>3, <1>4, WhichLog

\* A token on the path is found next to the event of a pair that moved it.
LEMMA SwapsFound ==
    ASSUME NEW s, IsSwap(s), NEW k \in 1..Len(s.path)
    PROVE  SwapsOf(s.path[k], Logs(s)) # {}
<1>1. Len(s.path) \in Nat /\ Len(s.path) >= 2
  BY SwapTyped
<1> SUFFICES \E i, j \in DOMAIN Logs(s) :
                /\ Logs(s)[i].signature = "Swap"
                /\ IsTransfer(Logs(s)[j], s.path[k])
                /\ Logs(s)[i].address \in {Logs(s)[j].from, Logs(s)[j].to}
  BY DEF SwapsOf, TransfersAt
<1>2. CASE k = 1
  <2>1. 1 \in 1..(Len(s.path) - 1)
    BY <1>1
  <2>2. 3 \in DOMAIN Logs(s) /\ Logs(s)[3] = SwapEvent(PairAt(s, 1))
    <3>1. 2 * 1 + 1 = 3
      OBVIOUS
    <3> QED BY <2>1, <3>1, LogsOfHop
  <2>3. 1 \in DOMAIN Logs(s) /\ Logs(s)[1] = Transfer(s.path[1],
            IF s.method \in PaysEth THEN Router ELSE s.from, PairAt(s, 1), s.moved[1])
    BY FirstLog
  <2> QED BY <1>2, <2>2, <2>3 DEF IsTransfer, SwapEvent, Transfer
<1>3. CASE k # 1
  <2> DEFINE b == k - 1
  <2>1. b \in 1..(Len(s.path) - 1) /\ b + 1 = k
    BY <1>1, <1>3
  <2> HIDE DEF b
  <2>2. /\ 2 * b \in DOMAIN Logs(s) /\ 2 * b + 1 \in DOMAIN Logs(s)
        /\ Logs(s)[2 * b] = Transfer(s.path[k], PairAt(s, b), PayeeOf(s, b), s.moved[k])
        /\ Logs(s)[2 * b + 1] = SwapEvent(PairAt(s, b))
    BY <2>1, LogsOfHop
  <2> QED BY <2>2 DEF IsTransfer, SwapEvent, Transfer
<1> QED BY <1>2, <1>3

\* A token has a value in the logs exactly when it is on the path, and the value is
\* an amount that moved of it.
LEMMA TokenValue ==
    ASSUME NEW s, IsSwap(s), NEW token
    PROVE  /\ \A k \in 1..Len(s.path) :
                s.path[k] = token => getTokenValueFromLogs(token, Logs(s)) # Undefined
           /\ getTokenValueFromLogs(token, Logs(s)) # Undefined =>
                \E k \in 1..Len(s.path) : /\ s.path[k] = token
                                          /\ getTokenValueFromLogs(token, Logs(s)) = s.moved[k]
<1> DEFINE value == getTokenValueFromLogs(token, Logs(s))
           S == SwapsOf(token, Logs(s))
<1>1. ASSUME S # {}
      PROVE  \E k \in 1..Len(s.path) : s.path[k] = token /\ value = s.moved[k]
  <2>1. S \in SUBSET Nat
    BY SwapTyped DEF SwapsOf
  <2>2. Min(S) \in S
    BY <1>1, <2>1, LeastOne
  <2> DEFINE T == TransfersAt(token, Logs(s), Logs(s)[Min(S)].address)
  <2>3. T # {}
    BY <2>2 DEF SwapsOf
  <2>4. T \in SUBSET Nat
    BY SwapTyped DEF TransfersAt
  <2>5. Min(T) \in T
    BY <2>3, <2>4, LeastOne
  <2>6. Min(T) \in DOMAIN Logs(s) /\ IsTransfer(Logs(s)[Min(T)], token)
    BY <2>5 DEF TransfersAt
  <2>7. value = Logs(s)[Min(T)].value
    BY <1>1 DEF getTokenValueFromLogs
  <2> HIDE DEF value, S, T
  <2>8. PICK k \in 1..Len(s.path) : s.path[k] = token /\ Logs(s)[Min(T)].value = s.moved[k]
    BY <2>6, TransferMoved
  <2> QED BY <2>7, <2>8
<1>2. S = {} => value = Undefined
  BY DEF getTokenValueFromLogs
<1>3. \A k \in 1..Len(s.path) : s.path[k] = token => S # {}
  BY SwapsFound
<1>4. \A k \in 1..Len(s.path) : s.moved[k] # Undefined
  BY SwapTyped DEF Undefined
<1> HIDE DEF value, S
<1>5. (\A k \in 1..Len(s.path) : s.path[k] = token => value # Undefined)
  BY <1>1, <1>3, <1>4
<1>6. value # Undefined => \E k \in 1..Len(s.path) : s.path[k] = token /\ value = s.moved[k]
  BY <1>1, <1>2
<1> QED BY <1>5, <1>6 DEF value

\* So has the first of some stable coins.
LEMMA StableValue ==
    ASSUME NEW s, IsSwap(s), NEW coins \in SUBSET Stable
    PROVE  /\ \A k \in 1..Len(s.path) :
                s.path[k] \in coins => getStableUsdValueFromLogs(coins, Logs(s)) # Undefined
           /\ getStableUsdValueFromLogs(coins, Logs(s)) # Undefined =>
                \E k \in 1..Len(s.path) :
                   /\ s.path[k] \in coins
                   /\ getStableUsdValueFromLogs(coins, Logs(s)) = s.moved[k]
<1> DEFINE V == {i \in DOMAIN Stables :
                   /\ Stables[i] \in coins
                   /\ getTokenValueFromLogs(Stables[i], Logs(s)) # Undefined}
           value == getStableUsdValueFromLogs(coins, Logs(s))
<1>1. V = {} => value = Undefined
  BY DEF getStableUsdValueFromLogs
<1>2. ASSUME V # {}
      PROVE  /\ value # Undefined
             /\ \E k \in 1..Len(s.path) : s.path[k] \in coins /\ value = s.moved[k]
  <2>1. V \in SUBSET Nat
    BY TokenAssumption
  <2>2. Min(V) \in V
    BY <1>2, <2>1, LeastOne
  <2>3. value = getTokenValueFromLogs(Stables[Min(V)], Logs(s))
    BY <1>2 DEF getStableUsdValueFromLogs
  <2>4. Stables[Min(V)] \in coins /\ value # Undefined
    BY <2>2, <2>3
  <2> HIDE DEF V, value
  <2>5. PICK k \in 1..Len(s.path) :
           s.path[k] = Stables[Min(V)] /\ value = s.moved[k]
    BY <2>3, <2>4, TokenValue
  <2> QED BY <2>4, <2>5
<1>3. ASSUME NEW k \in 1..Len(s.path), s.path[k] \in coins PROVE V # {}
  <2>1. PICK i \in DOMAIN Stables : Stables[i] = s.path[k]
    BY <1>3 DEF Stable
  <2>2. getTokenValueFromLogs(Stables[i], Logs(s)) # Undefined
    BY <2>1, TokenValue
  <2> QED BY <1>3, <2>1, <2>2
<1> HIDE DEF V, value
<1> QED BY <1>1, <1>2, <1>3 DEF value

\* A swap has no value only if no token on its path is the wrapped token, or one
\* of the stable coins.
LEMMA NoValueNoCoin ==
    ASSUME NEW s, IsSwap(s), NEW coins \in SUBSET Stable, HasNoValue(s, coins)
    PROVE  TokensOf(s) \cap ({WETH} \cup coins) = {}
<1>1. DOMAIN s.path = 1..Len(s.path)
  BY SwapTyped
<1>2. \A k \in 1..Len(s.path) : s.path[k] # WETH
  BY TokenValue DEF HasNoValue, NativeInLogs
<1>3. \A k \in 1..Len(s.path) : s.path[k] \notin coins
  BY StableValue DEF HasNoValue, UsdInLogs
<1> QED BY <1>1, <1>2, <1>3 DEF TokensOf

\* A pair is no account, and no router.
LEMMA PairIsNoAccount ==
    ASSUME NEW s, IsSwap(s), NEW k \in 1..(Len(s.path) - 1)
    PROVE  PairAt(s, k) \notin Account /\ PairAt(s, k) # Router
<1>1. k \in 1..Len(s.path) /\ k + 1 \in 1..Len(s.path)
  BY SwapTyped
<1>2. s.path[k] \in Token /\ s.path[k + 1] \in Token
  BY <1>1, SwapTyped
<1> QED BY <1>2, TokenAssumption DEF PairAt

\* What is recorded as paid: what was, or with ether sent along no less.
LEMMA InputRecorded ==
    ASSUME NEW s, IsSwap(s)
    PROVE  /\ inputAmount(s) >= Paid(s)
           /\ s.method # "swapETHForExactTokens" => inputAmount(s) = Paid(s)
<1>1. /\ s.method \in UniswapV2RouterSwapMethods
      /\ s.method \notin ExactInput => s.limit >= s.moved[1]
      /\ s.from \in Account
  BY DEF IsSwap
<1>2. Paid(s) \in Nat
  <2>1. 1 \in 1..Len(s.path)
    BY SwapTyped
  <2> QED BY <2>1, SwapTyped DEF Paid
<1>3. CASE s.method \in ExactInput
  BY <1>2, <1>3 DEF inputAmount, ExactInput
<1>4. CASE s.method = "swapETHForExactTokens"
  <2>1. inputAmount(s) = s.limit
    BY <1>4 DEF inputAmount, ExactInput, PaysEth
  <2> QED BY <1>1, <1>4, <2>1 DEF Paid, ExactInput
<1>5. CASE s.method = "swapTokensForExactTokens"
  <2> DEFINE J == {j \in DOMAIN Logs(s) : /\ IsTransfer(Logs(s)[j], s.path[1])
                                          /\ Logs(s)[j].from = s.from}
  <2>1. inputAmount(s) = FirstValue(Logs(s), J, s.limit)
    BY <1>5 DEF inputAmount, ExactInput, PaysEth
  <2>2. s.method \notin PaysEth
    BY <1>5 DEF PaysEth
  <2>3. 1 \in J /\ Logs(s)[1].value = Paid(s)
    <3>1. 1 \in DOMAIN Logs(s) /\ Logs(s)[1] = Transfer(s.path[1], s.from, PairAt(s, 1), s.moved[1])
      BY <2>2, FirstLog
    <3> QED BY <3>1 DEF IsTransfer, Transfer, Paid
  <2>4. ASSUME NEW j \in J PROVE j = 1
    <3>1. ASSUME NEW k \in 1..(Len(s.path) - 1), j = 2 * k PROVE FALSE
      <4>1. Logs(s)[j] = Transfer(s.path[k + 1], PairAt(s, k), PayeeOf(s, k), s.moved[k + 1])
        BY <3>1, LogsOfHop
      <4>2. Logs(s)[j].from = PairAt(s, k)
        BY <4>1 DEF Transfer
      <4> QED BY <1>1, <4>2, PairIsNoAccount
    <3>2. ASSUME NEW k \in 1..(Len(s.path) - 1), j = 2 * k + 1 PROVE FALSE
      <4>1. Logs(s)[j] = SwapEvent(PairAt(s, k))
        BY <3>2, LogsOfHop
      <4> QED BY <4>1 DEF IsTransfer, SwapEvent
    <3> QED BY <3>1, <3>2, WhichLog
  <2>5. J \in SUBSET Nat
    BY SwapTyped
  <2> HIDE DEF J
  <2>6. Min(J) = 1
    BY <2>3, <2>4, <2>5, LeastOne
  <2>7. inputAmount(s) = Paid(s)
    BY <2>1, <2>3, <2>6 DEF FirstValue
  <2> QED BY <1>2, <2>7
<1> QED BY <1>1, <1>3, <1>4, <1>5 DEF UniswapV2RouterSwapMethods, ExactOutput

\* What is recorded as received: what was, or of ether no more.
LEMMA OutputRecorded ==
    ASSUME NEW s, IsSwap(s)
    PROVE  /\ outAmount(s) <= Received(s)
           /\ s.method \notin ReceivesEth => outAmount(s) = Received(s)
<1> DEFINE n == Len(s.path)
<1>1. /\ s.method \in UniswapV2RouterSwapMethods
      /\ s.method \in ExactInput => s.limit <= s.moved[n]
      /\ s.to \in Account
      /\ n \in Nat /\ n >= 2
  BY SwapTyped DEF IsSwap
<1>2. Received(s) \in Nat
  BY <1>1, SwapTyped DEF Received
<1>3. CASE s.method = "swapTokensForExactTokens"
  BY <1>2, <1>3 DEF outAmount
<1>4. CASE s.method # "swapTokensForExactTokens"
  <2> DEFINE J == {j \in DOMAIN Logs(s) : /\ IsTransfer(Logs(s)[j], s.path[n])
                                          /\ Logs(s)[j].to = s.to}
             otherwise == IF s.method \in ExactInput THEN s.limit ELSE Received(s)
  <2>1. outAmount(s) = FirstValue(Logs(s), J, otherwise)
    BY <1>4 DEF outAmount
  <2>2. J \in SUBSET Nat
    BY SwapTyped
  <2>3. ASSUME NEW j \in J PROVE Logs(s)[j].value = Received(s)
    <3>1. ASSUME j = 1 PROVE FALSE
      <4>0. Logs(s)[j] = Transfer(s.path[1], IF s.method \in PaysEth THEN Router ELSE s.from,
                                  PairAt(s, 1), s.moved[1])
        BY <3>1, FirstLog
      <4>1. Logs(s)[j].to = PairAt(s, 1)
        BY <4>0 DEF Transfer
      <4>2. 1 \in 1..(n - 1)
        BY <1>1
      <4> QED BY <1>1, <4>1, <4>2, PairIsNoAccount
    <3>2. ASSUME NEW k \in 1..(n - 1), j = 2 * k PROVE Logs(s)[j].value = Received(s)
      <4>1. Logs(s)[j] = Transfer(s.path[k + 1], PairAt(s, k), PayeeOf(s, k), s.moved[k + 1])
        BY <3>2, LogsOfHop
      <4>2. Logs(s)[j].to = PayeeOf(s, k) /\ Logs(s)[j].value = s.moved[k + 1]
        BY <4>1 DEF Transfer
      <4>3. ~(k < n - 1)
        <5>1. k < n - 1 => k + 1 \in 1..(n - 1) /\ PayeeOf(s, k) = PairAt(s, k + 1)
          BY <1>1 DEF PayeeOf
        <5> QED BY <1>1, <4>2, <5>1, PairIsNoAccount
      <4>4. k + 1 = n
        BY <1>1, <4>3
      <4> QED BY <4>2, <4>4 DEF Received
    <3>3. ASSUME NEW k \in 1..(n - 1), j = 2 * k + 1 PROVE FALSE
      <4>1. Logs(s)[j] = SwapEvent(PairAt(s, k))
        BY <3>3, LogsOfHop
      <4> QED BY <4>1 DEF IsTransfer, SwapEvent
    <3> QED BY <3>1, <3>2, <3>3, WhichLog
  <2>4. CASE J = {}
    <3>1. outAmount(s) = otherwise
      BY <2>1, <2>4 DEF FirstValue
    <3>2. ASSUME s.method \notin ReceivesEth PROVE FALSE
      <4> DEFINE k == n - 1
      <4>1. k \in 1..(n - 1) /\ ~(k < n - 1) /\ k + 1 = n
        BY <1>1
      <4> HIDE DEF k
      <4>2. PayeeOf(s, k) = s.to
        BY <3>2, <4>1 DEF PayeeOf
      <4>3. /\ 2 * k \in DOMAIN Logs(s)
            /\ Logs(s)[2 * k] = Transfer(s.path[n], PairAt(s, k), s.to, s.moved[n])
        BY <4>1, <4>2, LogsOfHop
      <4>4. 2 * k \in J
        BY <4>3 DEF IsTransfer, Transfer
      <4> QED BY <2>4, <4>4
    <3>3. s.method \in ExactInput
      BY <3>2 DEF ReceivesEth, ExactInput
    <3> QED BY <1>1, <3>1, <3>2, <3>3 DEF Received
  <2>5. CASE J # {}
    <3>1. Min(J) \in J
      BY <2>2, <2>5, LeastOne
    <3>2. outAmount(s) = Logs(s)[Min(J)].value
      BY <2>1, <2>5 DEF FirstValue
    <3> HIDE DEF J
    <3>3. outAmount(s) = Received(s)
      BY <2>3, <3>1, <3>2
    <3> QED BY <1>2, <3>3
  <2> QED BY <2>4, <2>5
<1> QED BY <1>3, <1>4
-----------------------------------------------------------------------------
\* What is found for a transaction d: a swap has a type if it has a value, and a
\* price if that takes one.
Found(d, m) ==
    /\ d.kind \in {"call", "transfer", "swap"}
    /\ d.kind = "call" => ~m.known /\ m.price = NoPrice
    /\ d.kind = "transfer" => m.known /\ m.price # NoPrice
    /\ d.kind = "swap" => /\ m.known <=> ~HasNoValue(d, m.stables)
                          /\ m.price # NoPrice <=> NeedsPrice(d, m.stables)

\* What has been found at each call.
FoundSoFar(d, s) ==
    /\ s.phase \in {"receipt", "wrapped", "stables", "remembering"} =>
          ~s.known /\ s.price = NoPrice
    /\ s.phase \in {"pricing", "quoting"} =>
          /\ s.price = NoPrice
          /\ d.kind = "swap" => ~HasNoValue(d, s.stables) /\ NeedsPrice(d, s.stables)
    /\ s.phase \in {"tokens", "publishing"} => Found(d, s)

\* Whether one of the transactions txs has a price asked for, of this chain and quarter.
AskedFor(chain, quarter, txs) ==
    \E t \in Tx : AsksPrice(txs[t]) /\ txs[t].chain = chain /\ txs[t].quarter = quarter

\* A price, if it is one, is of this quarter, no newer than the quarter's moves m, and
\* of a chain that one of the transactions txs had it asked for on.
Standing(price, quarter, m, txs) ==
    \/ price = NoPrice
    \/ /\ price.quarter = quarter
       /\ price.version <= m[price.chain][quarter]
       /\ AskedFor(price.chain, quarter, txs)

Good(s, known) == /\ FoundSoFar(tx[s.tx], s)
                  /\ Standing(s.price, tx[s.tx].quarter, moves, tx)
                  /\ s.phase = "remembering" => known \subseteq s.stables

HandlersGood  == \A h \in Handler : Busy(h) => Good(handler[h], eversince[Home[h]])
PublishedGood == \A m \in published : /\ Found(tx[m.tx], m)
                                      /\ Standing(m.price, tx[m.tx].quarter, moves, tx)
PricesGood    == /\ \A q \in Quarter : Standing(cache[q], q, moves, tx)
                 /\ \A e \in setting : Standing(e.price, e.key, moves, tx)
\* What a process remembers of the stable coins holds those marked ever since.
CoinsGood     == \A p \in Process :
                    /\ eversince[p] \subseteq marked
                    /\ memory[p].stables = {} \/ eversince[p] \subseteq memory[p].stables
UnvaluedGood  == \A u \in unvalued :
                    /\ u.tx \in Tx /\ IsSwap(tx[u.tx])
                    /\ \E coins \in SUBSET Stable :
                          u.eversince \subseteq coins /\ HasNoValue(tx[u.tx], coins)

FoundInv == HandlersGood /\ PublishedGood /\ PricesGood /\ CoinsGood /\ UnvaluedGood

LEMMA BecomesGood ==
    ASSUME TypeInv, FoundInv, NEW h \in Handler, NEW state, Becomes(h, state),
           moves' = moves, eversince' = eversince,
           state = Idle \/ Good(state, eversince[Home[h]])
    PROVE  HandlersGood'
<1>1. /\ handler \in [Handler -> HandlerState \cup {Idle}]
      /\ handler' = [handler EXCEPT ![h] = state] /\ tx' = tx
  BY DEF TypeInv, TypeOK, Becomes
<1>2. ASSUME NEW g \in Handler, Busy(g)' PROVE Good(handler[g], eversince[Home[g]])'
  <2>1. CASE g = h
    BY <1>1, <1>2, <2>1 DEF Busy, At, Idle, Good
  <2>2. CASE g # h
    <3>1. Good(handler[g], eversince[Home[g]]) /\ handler'[g] = handler[g]
      BY <1>1, <1>2, <2>2 DEF Busy, At, FoundInv, HandlersGood
    <3> QED BY <1>1, <3>1 DEF Good
  <2> QED BY <2>1, <2>2
<1> QED BY <1>2 DEF HandlersGood

LEMMA GoesGood ==
    ASSUME TypeInv, FoundInv, NEW h \in Handler, NEW phase, Goes(h, phase), Busy(h),
           moves' = moves, eversince' = eversince, phase # "remembering",
           FoundSoFar(tx[handler[h].tx], [handler[h] EXCEPT !.phase = phase])
    PROVE  HandlersGood'
<1> DEFINE state == [handler[h] EXCEPT !.phase = phase]
<1>1. handler[h] \in HandlerState /\ Good(handler[h], eversince[Home[h]])
  BY Working DEF FoundInv, HandlersGood
<1>2. state.phase = phase /\ state.tx = handler[h].tx /\ state.price = handler[h].price
  BY <1>1 DEF HandlerState
<1>3. Becomes(h, state)
  BY DEF Goes
<1>4. FoundSoFar(tx[handler[h].tx], state)
  OBVIOUS
<1> HIDE DEF state
<1>5. Good(state, eversince[Home[h]])
  BY <1>1, <1>2, <1>4 DEF Good
<1> QED BY <1>3, <1>5, BecomesGood

\* The price found is the transaction's.
LEMMA PricedGood ==
    ASSUME TypeInv, FoundInv, NEW h \in Handler, At(h, "pricing") \/ At(h, "quoting"),
           NEW price \in Price, Priced(h, price), moves' = moves, eversince' = eversince,
           Standing(price, tx[handler[h].tx].quarter, moves, tx)
    PROVE  HandlersGood'
<1>1. Busy(h)
  BY DEF Busy, At
<1>2. PICK state : /\ Becomes(h, state)
                   /\ \/ state = Idle
                      \/ /\ state \in HandlerState /\ Fits(state)
                         /\ state.phase \in {"publishing", "tokens"}
                         /\ state.tx = handler[h].tx
                         /\ state.stables = handler[h].stables
                         /\ state.price = price
                         /\ state.known
  BY PricedCases
<1>3. price # NoPrice
  BY ValuationAssumption DEF Price, NoPrice, Quarter
<1>4. FoundSoFar(tx[handler[h].tx], handler[h])
  BY <1>1 DEF FoundInv, HandlersGood, Good
<1>5. CASE state # Idle
  <2> DEFINE d == tx[handler[h].tx]
  <2>1. d.kind \in {"transfer", "swap"}
    <3>1. d.kind \in {"call", "transfer", "swap"} /\ d.kind \in {"block", "transfer", "swap"}
      BY <1>1, <1>2, <1>5, Working DEF Fits, At
    <3> QED BY <3>1
  <2>2. d.kind = "swap" => ~HasNoValue(d, state.stables) /\ NeedsPrice(d, state.stables)
    BY <1>2, <1>4, <1>5 DEF FoundSoFar, At
  <2> HIDE DEF d
  <2>3. Found(d, state)
    BY <1>2, <1>3, <1>5, <2>1, <2>2 DEF Found
  <2>4. Good(state, eversince[Home[h]])
    BY <1>2, <1>5, <2>3 DEF Good, FoundSoFar, d
  <2> QED BY <1>2, <2>4, BecomesGood
<1> QED BY <1>2, <1>5, BecomesGood

\* From the stable coins on: the swap has a value, or it is left with none, and then
\* the coins that were asked for include those marked ever since the process started.
LEMMA ValuesGood ==
    ASSUME TypeInv, FoundInv, NEW h \in Handler, At(h, "stables") \/ At(h, "remembering"),
           NEW stables \in SUBSET Stable, Values(h, stables),
           moves' = moves, eversince' = eversince, eversince[Home[h]] \subseteq stables
    PROVE  HandlersGood' /\ UnvaluedGood'
<1>1. Busy(h)
  BY DEF Busy, At
<1>2. PICK state :
              /\ Becomes(h, state)
              /\ state \in HandlerState /\ Fits(state)
              /\ state.tx = handler[h].tx
              /\ state.price = handler[h].price
              /\ state.stables = stables
              /\ \/ /\ HasNoValue(TxOf(h), stables)
                    /\ state.phase = "publishing" /\ state.known = handler[h].known
                    /\ unvalued' = unvalued \cup
                         {[tx |-> handler[h].tx, eversince |-> eversince[Home[h]]]}
                 \/ /\ ~HasNoValue(TxOf(h), stables)
                    /\ state.known
                    /\ state.phase = IF NeedsPrice(TxOf(h), stables) THEN "pricing" ELSE "tokens"
                    /\ unvalued' = unvalued
  BY ValuesCases
<1> DEFINE d == tx[handler[h].tx]
<1>3. /\ TxOf(h) = d /\ d.kind = "swap" /\ handler[h].tx \in Tx
      /\ IsSwap(d)
  BY <1>1, Working DEF Fits, At, IsDetails
<1>4. ~handler[h].known /\ handler[h].price = NoPrice
  BY <1>1 DEF FoundInv, HandlersGood, Good, FoundSoFar, At
<1>5. tx' = tx
  BY <1>2 DEF Becomes
<1>6. CASE HasNoValue(d, stables)
  <2>1. /\ state.phase = "publishing" /\ ~state.known
        /\ unvalued' = unvalued \cup {[tx |-> handler[h].tx, eversince |-> eversince[Home[h]]]}
    BY <1>2, <1>3, <1>4, <1>6
  <2>2. ~NeedsPrice(d, stables)
    BY <1>6 DEF NeedsPrice, HasNoValue
  <2>3. Found(d, state)
    BY <1>2, <1>3, <1>4, <1>6, <2>1, <2>2 DEF Found
  <2>4. Good(state, eversince[Home[h]])
    BY <1>2, <1>4, <2>1, <2>3 DEF Good, FoundSoFar, Standing
  <2>5. HandlersGood'
    BY <1>2, <2>4, BecomesGood
  <2>6. UnvaluedGood'
    <3> SUFFICES ASSUME NEW u \in unvalued'
                 PROVE  /\ u.tx \in Tx /\ IsSwap(tx[u.tx])
                        /\ \E coins \in SUBSET Stable :
                              u.eversince \subseteq coins /\ HasNoValue(tx[u.tx], coins)
      BY <1>5 DEF UnvaluedGood
    <3>1. CASE u \in unvalued
      BY <3>1 DEF FoundInv, UnvaluedGood
    <3>2. CASE u = [tx |-> handler[h].tx, eversince |-> eversince[Home[h]]]
      <4>1. u.tx = handler[h].tx /\ u.eversince = eversince[Home[h]]
        BY <3>2
      <4> QED BY <1>3, <1>6, <4>1
    <3> QED BY <2>1, <3>1, <3>2
  <2> QED BY <2>5, <2>6
<1>7. CASE ~HasNoValue(d, stables)
  <2>1. /\ state.phase = IF NeedsPrice(d, stables) THEN "pricing" ELSE "tokens"
        /\ state.known /\ unvalued' = unvalued
    BY <1>2, <1>3, <1>7
  <2>2. FoundSoFar(d, state)
    BY <1>2, <1>3, <1>4, <1>7, <2>1 DEF FoundSoFar, Found
  <2>3. Good(state, eversince[Home[h]])
    BY <1>2, <1>4, <2>1, <2>2 DEF Good, Standing
  <2>4. HandlersGood'
    BY <1>2, <2>3, BecomesGood
  <2>5. UnvaluedGood'
    BY <1>5, <2>1 DEF FoundInv, UnvaluedGood
  <2> QED BY <2>4, <2>5
<1> QED BY <1>6, <1>7

\* What a step leaves when it changes neither messages nor what is remembered.
LEMMA RestGood ==
    ASSUME TypeInv, FoundInv, tx' = tx, moves' = moves
    PROVE  /\ published' = published => PublishedGood'
           /\ unvalued' = unvalued => UnvaluedGood'
           /\ cache' = cache /\ setting' = setting => PricesGood'
           /\ memory' = memory /\ eversince' = eversince /\ marked' = marked => CoinsGood'
<1>1. published' = published => PublishedGood'
  BY DEF FoundInv, PublishedGood
<1>2. unvalued' = unvalued => UnvaluedGood'
  BY DEF FoundInv, UnvaluedGood
<1>3. cache' = cache /\ setting' = setting => PricesGood'
  BY DEF FoundInv, PricesGood
<1>4. memory' = memory /\ eversince' = eversince /\ marked' = marked => CoinsGood'
  BY DEF FoundInv, CoinsGood
<1> QED BY <1>1, <1>2, <1>3, <1>4

LEMMA ExecuteFound ==
    ASSUME TypeInv, FoundInv, NEW h \in Handler, Execute(h)
    PROVE  FoundInv'
<1> USE ValuationAssumption
<1>1. tx' = tx /\ moves' = moves /\ eversince' = eversince /\ marked' = marked /\ cache' = cache
  <2>1. HandlersTyped
    BY ExecuteHandlersTyped
  <2> QED BY <2>1 DEF HandlersTyped, Execute, CallFails, GetRawTransaction, GetWrappedToken,
         RecallStableCoins, QueryStableCoins, RememberStableCoins, FindPrice, MissPrice,
         Quote, FetchTokens, PublishTxProcessed, prices, tokens
<1>2. Busy(h)
  BY DEF Execute, CallFails, GetRawTransaction, GetWrappedToken, RecallStableCoins,
         QueryStableCoins, RememberStableCoins, FindPrice, MissPrice, Quote, FetchTokens,
         PublishTxProcessed, Busy, At
<1> DEFINE d == tx[handler[h].tx]
<1>3. /\ handler[h] \in HandlerState /\ Fits(handler[h]) /\ TxOf(h) = d
      /\ d.kind \in Kind \cup {"swap"} /\ d.quarter \in Quarter
      /\ Good(handler[h], eversince[Home[h]])
  BY <1>2, Working DEF IsDetails, FoundInv, HandlersGood
<1>4. CASE CallFails(h)
  BY <1>1, <1>4, BecomesGood, RestGood DEF CallFails, prices, tokens, messages, FoundInv
<1>5. CASE GetRawTransaction(h)
  <2>1. HandlersGood'
    <3>1. CASE Becomes(h, Idle)
      BY <1>1, <3>1, BecomesGood
    <3>2. ASSUME NEW phase \in {"pricing", "wrapped", "publishing"}, Goes(h, phase),
                 phase = "pricing" => d.kind = "transfer",
                 phase = "publishing" => d.kind = "call"
          PROVE HandlersGood'
      <4> DEFINE state == [handler[h] EXCEPT !.phase = phase]
      <4>1. state.phase = phase /\ state.known = handler[h].known /\ state.price = handler[h].price
        BY <1>3 DEF HandlerState
      <4>2. ~handler[h].known /\ handler[h].price = NoPrice
        BY <1>3, <1>5 DEF Good, FoundSoFar, GetRawTransaction, At
      <4> HIDE DEF state
      <4>3. FoundSoFar(d, state)
        BY <3>2, <4>1, <4>2 DEF FoundSoFar, Found
      <4> QED BY <1>1, <1>2, <3>2, <4>3, GoesGood DEF state
    <3> QED BY <1>3, <1>5, <3>1, <3>2 DEF GetRawTransaction, Kind, Fits, At
  <2> QED BY <1>1, <1>5, <2>1, RestGood DEF GetRawTransaction, prices, tokens, messages, FoundInv
<1>6. CASE GetWrappedToken(h)
  <2>1. HandlersGood'
    <3>1. CASE Becomes(h, Idle)
      BY <1>1, <3>1, BecomesGood
    <3>2. CASE Goes(h, "stables")
      <4>1. FoundSoFar(d, [handler[h] EXCEPT !.phase = "stables"])
        BY <1>3, <1>6 DEF Good, FoundSoFar, GetWrappedToken, At, HandlerState
      <4> QED BY <1>1, <1>2, <3>2, <4>1, GoesGood
    <3> QED BY <1>6, <3>1, <3>2 DEF GetWrappedToken
  <2>2. CoinsGood'
    <3> SUFFICES ASSUME NEW p \in Process
                 PROVE  /\ eversince[p] \subseteq marked
                        /\ memory'[p].stables = {} \/ eversince[p] \subseteq memory'[p].stables
      BY <1>1 DEF CoinsGood
    <3>1. memory'[p].stables = memory[p].stables
      <4>1. memory' = memory \/ memory' = [memory EXCEPT ![Home[h]].wrapped = TRUE]
        BY <1>6 DEF GetWrappedToken
      <4> QED BY <4>1 DEF TypeInv, TypeOK
    <3> QED BY <3>1 DEF FoundInv, CoinsGood
  <2> QED BY <1>1, <1>6, <2>1, <2>2, RestGood DEF GetWrappedToken, prices, messages, FoundInv
<1>7. CASE RecallStableCoins(h)
  <2>1. /\ memory[Home[h]].stables \in SUBSET Stable
        /\ eversince[Home[h]] \subseteq memory[Home[h]].stables
    BY <1>7 DEF RecallStableCoins, TypeInv, TypeOK, FoundInv, CoinsGood
  <2>2. HandlersGood' /\ UnvaluedGood'
    BY <1>1, <1>7, <2>1, ValuesGood DEF RecallStableCoins
  <2> QED BY <1>1, <1>7, <2>2, RestGood DEF RecallStableCoins, prices, tokens, FoundInv
<1>8. CASE QueryStableCoins(h)
  <2> DEFINE state == [handler[h] EXCEPT !.phase = "remembering", !.stables = marked]
  <2>1. /\ state.phase = "remembering" /\ state.tx = handler[h].tx
        /\ state.known = handler[h].known /\ state.price = handler[h].price
        /\ state.stables = marked
    BY <1>3 DEF HandlerState
  <2>2. Becomes(h, state)
    BY <1>8 DEF QueryStableCoins
  <2>3. ~handler[h].known /\ handler[h].price = NoPrice
    BY <1>3, <1>8 DEF Good, FoundSoFar, QueryStableCoins, At
  <2>4. eversince[Home[h]] \subseteq marked
    BY DEF FoundInv, CoinsGood
  <2> HIDE DEF state
  <2>5. Good(state, eversince[Home[h]])
    BY <2>1, <2>3, <2>4 DEF Good, FoundSoFar, Standing
  <2>6. HandlersGood'
    BY <1>1, <2>2, <2>5, BecomesGood
  <2> QED BY <1>1, <1>8, <2>6, RestGood DEF QueryStableCoins, prices, tokens, messages, FoundInv
<1>9. CASE RememberStableCoins(h)
  <2>1. handler[h].stables \in SUBSET Stable
    BY <1>3 DEF HandlerState
  <2>2. eversince[Home[h]] \subseteq handler[h].stables
    BY <1>3, <1>9 DEF Good, RememberStableCoins, At
  <2>3. HandlersGood' /\ UnvaluedGood'
    BY <1>1, <1>9, <2>1, <2>2, ValuesGood DEF RememberStableCoins
  <2>4. CoinsGood'
    <3> SUFFICES ASSUME NEW p \in Process
                 PROVE  /\ eversince[p] \subseteq marked
                        /\ memory'[p].stables = {} \/ eversince[p] \subseteq memory'[p].stables
      BY <1>1 DEF CoinsGood
    <3>1. memory' = [memory EXCEPT ![Home[h]].stables = handler[h].stables]
      BY <1>9 DEF RememberStableCoins
    <3>2. CASE p = Home[h]
      BY <2>2, <3>1, <3>2 DEF FoundInv, CoinsGood, TypeInv, TypeOK
    <3>3. CASE p # Home[h]
      BY <3>1, <3>3 DEF FoundInv, CoinsGood, TypeInv, TypeOK
    <3> QED BY <3>2, <3>3
  <2> QED BY <1>1, <1>9, <2>3, <2>4, RestGood DEF RememberStableCoins, prices, FoundInv
<1>10. CASE FindPrice(h)
  <2>1. /\ cache[d.quarter] \in Price /\ Standing(cache[d.quarter], d.quarter, moves, tx)
        /\ Priced(h, cache[d.quarter]) /\ At(h, "pricing")
    BY <1>3, <1>10 DEF FindPrice, CacheKey, TypeInv, TypeOK, FoundInv, PricesGood
  <2>2. HandlersGood'
    BY <1>1, <2>1, PricedGood
  <2> QED BY <1>1, <1>10, <2>2, RestGood DEF FindPrice, prices, tokens, messages, FoundInv
<1>11. CASE MissPrice(h)
  <2>1. FoundSoFar(d, [handler[h] EXCEPT !.phase = "quoting"])
    BY <1>3, <1>11 DEF Good, FoundSoFar, MissPrice, At, HandlerState
  <2>2. Goes(h, "quoting")
    BY <1>11 DEF MissPrice
  <2>3. HandlersGood'
    BY <1>1, <1>2, <2>1, <2>2, GoesGood
  <2> QED BY <1>1, <1>11, <2>3, RestGood DEF MissPrice, prices, tokens, messages, FoundInv
<1>12. CASE Quote(h)
  <2> DEFINE price == [chain |-> d.chain, quarter |-> d.quarter,
                       version |-> moves[d.chain][d.quarter]]
  <2>1. /\ price \in Price /\ price.quarter = d.quarter /\ price.chain = d.chain
        /\ price.version = moves[price.chain][d.quarter]
    BY <1>2, <1>3, Working DEF Price, TypeInv, TypeOK
  <2>2. price.version \in Nat
    BY <2>1 DEF Price
  <2>3. At(h, "quoting") /\ Priced(h, price)
        /\ setting' = setting \cup {[key |-> d.quarter, price |-> price]}
        /\ UNCHANGED <<tokens, messages>>
    BY <1>3, <1>12 DEF Quote, CacheKey
  <2> HIDE DEF price
  <2>4. Standing(price, d.quarter, moves, tx)
    <3>1. d.kind \in {"block", "transfer", "swap"} /\ handler[h].tx \in Tx
      BY <1>2, <1>3, <2>3, Working DEF Fits, At
    <3>2. AskedFor(price.chain, d.quarter, tx)
      BY <2>1, <3>1 DEF AskedFor, AsksPrice
    <3> QED BY <2>1, <2>2, <3>2 DEF Standing
  <2>5. HandlersGood'
    BY <1>1, <2>1, <2>3, <2>4, PricedGood
  <2>6. PricesGood'
    <3>1. \A e \in setting' : Standing(e.price, e.key, moves, tx)
      BY <2>3, <2>4 DEF FoundInv, PricesGood
    <3> QED BY <1>1, <3>1 DEF FoundInv, PricesGood
  <2> QED BY <1>1, <2>3, <2>5, <2>6, RestGood DEF tokens, messages, FoundInv
<1>13. CASE FetchTokens(h)
  <2>1. FoundSoFar(d, [handler[h] EXCEPT !.phase = "publishing"])
    BY <1>3, <1>13 DEF Good, FoundSoFar, Found, FetchTokens, At, HandlerState
  <2>2. Goes(h, "publishing")
    BY <1>13 DEF FetchTokens
  <2>3. HandlersGood'
    BY <1>1, <1>2, <2>1, <2>2, GoesGood
  <2> QED BY <1>1, <1>13, <2>3, RestGood DEF FetchTokens, prices, tokens, messages, FoundInv
<1>14. CASE PublishTxProcessed(h)
  <2> DEFINE m == [tx |-> handler[h].tx, known |-> handler[h].known,
                   stables |-> handler[h].stables, price |-> handler[h].price]
  <2>1. Found(d, handler[h]) /\ Standing(handler[h].price, d.quarter, moves, tx)
    BY <1>3, <1>14 DEF Good, FoundSoFar, PublishTxProcessed, At
  <2>2. /\ m.tx = handler[h].tx /\ m.known = handler[h].known
        /\ m.stables = handler[h].stables /\ m.price = handler[h].price
    OBVIOUS
  <2>3. published' = published \cup {m}
    BY <1>14 DEF PublishTxProcessed
  <2> HIDE DEF m
  <2>4. Found(tx[m.tx], m) /\ Standing(m.price, tx[m.tx].quarter, moves, tx)
    BY <2>1, <2>2 DEF Found
  <2>5. PublishedGood'
    BY <1>1, <2>3, <2>4 DEF FoundInv, PublishedGood
  <2>6. HandlersGood'
    BY <1>1, <1>14, BecomesGood DEF PublishTxProcessed
  <2> QED BY <1>1, <1>14, <2>5, <2>6, RestGood DEF PublishTxProcessed, prices, tokens, FoundInv
<1> QED BY <1>4, <1>5, <1>6, <1>7, <1>8, <1>9, <1>10, <1>11, <1>12, <1>13, <1>14 DEF Execute

\* Prices only move on, and a price stays one that was shown.
LEMMA StandsOn ==
    ASSUME NEW price \in Price \cup {NoPrice}, NEW quarter,
           NEW txs, NEW m, NEW m2, \A c \in Chain, q \in Quarter :
                              /\ m[c][q] \in Nat /\ m2[c][q] \in Nat
                              /\ m[c][q] <= m2[c][q],
           Standing(price, quarter, m, txs)
    PROVE  Standing(price, quarter, m2, txs)
<1>1. CASE price = NoPrice
  BY <1>1 DEF Standing
<1>2. CASE price # NoPrice
  <2>1. /\ price \in Price /\ price.quarter = quarter /\ price.version <= m[price.chain][quarter]
        /\ AskedFor(price.chain, quarter, txs)
    BY <1>2 DEF Standing
  <2>2. price.version \in Nat /\ price.chain \in Chain /\ quarter \in Quarter
    BY <2>1, ValuationAssumption DEF Price
  <2>3. price.version <= m2[price.chain][quarter]
    BY <2>1, <2>2
  <2> QED BY <2>1, <2>3 DEF Standing
<1> QED BY <1>1, <1>2

\* What a step keeps when, of the prices, it only lets one move.
LEMMA MovingGood ==
    ASSUME TypeInv, TypeInv', FoundInv,
           \A c \in Chain, q \in Quarter : moves[c][q] <= moves'[c][q],
           UNCHANGED <<tx, cache, setting, tokens, handler, messages>>
    PROVE  FoundInv'
<1>1. \A c \in Chain, q \in Quarter : /\ moves[c][q] \in Nat /\ moves'[c][q] \in Nat
                                      /\ moves[c][q] <= moves'[c][q]
  BY DEF TypeInv, TypeOK
<1>2. \A quarter : \A price \in Price \cup {NoPrice} :
         Standing(price, quarter, moves, tx) => Standing(price, quarter, moves', tx)
  BY <1>1, StandsOn
<1>3. HandlersGood'
  <2> SUFFICES ASSUME NEW h \in Handler, Busy(h)' PROVE Good(handler[h], eversince[Home[h]])'
    BY DEF HandlersGood
  <2>1. handler' = handler /\ eversince' = eversince /\ tx' = tx
    BY DEF tokens
  <2>2. Busy(h)
    BY <2>1 DEF Busy, At
  <2>3. handler[h].price \in Price \cup {NoPrice} /\ Good(handler[h], eversince[Home[h]])
    BY <2>2, Working DEF HandlerState, FoundInv, HandlersGood
  <2> QED BY <1>2, <2>1, <2>3 DEF Good
<1>4. PublishedGood'
  <2> SUFFICES ASSUME NEW m \in published
               PROVE  Found(tx[m.tx], m) /\ Standing(m.price, tx[m.tx].quarter, moves', tx)
    BY DEF PublishedGood, messages
  <2>1. m.price \in Price \cup {NoPrice}
    BY DEF TypeInv, TypeOK
  <2> QED BY <1>2, <2>1 DEF FoundInv, PublishedGood
<1>5. PricesGood'
  <2>1. \A q \in Quarter : Standing(cache[q], q, moves', tx)
    BY <1>2 DEF FoundInv, PricesGood, TypeInv, TypeOK
  <2>2. \A e \in setting : Standing(e.price, e.key, moves', tx)
    BY <1>2 DEF FoundInv, PricesGood, TypeInv, TypeOK
  <2> QED BY <2>1, <2>2 DEF PricesGood
<1>6. CoinsGood' /\ UnvaluedGood'
  BY DEF FoundInv, CoinsGood, UnvaluedGood, tokens, messages
<1> QED BY <1>3, <1>4, <1>5, <1>6 DEF FoundInv

\* Handlers that stay as they are stay good.
LEMMA HandlersStay ==
    ASSUME HandlersGood, handler' = handler, tx' = tx, moves' = moves, eversince' = eversince
    PROVE  HandlersGood'
BY DEF HandlersGood, Good, Busy, At

LEMMA AroundFound ==
    ASSUME TypeInv, TypeInv', FoundInv,
           \/ \E e \in setting : CacheSet(e)
           \/ \E q \in Quarter : Expire(q)
           \/ \E c \in Chain : Move(c)
           \/ NextQuarter
           \/ \E s \in Stable : Mark(s)
           \/ Migrate \/ UnmarkWrapped
    PROVE  FoundInv'
<1>1. ASSUME NEW e \in setting, CacheSet(e) PROVE FoundInv'
  <2>1. /\ e.key \in Quarter /\ Standing(e.price, e.key, moves, tx)
        /\ cache' = cache \/ cache' = [cache EXCEPT ![e.key] = e.price]
        /\ setting' \subseteq setting
        /\ UNCHANGED <<moves, rest>>
    BY <1>1 DEF CacheSet, TypeInv, TypeOK, FoundInv, PricesGood
  <2>2. PricesGood'
    <3>1. ASSUME NEW q \in Quarter PROVE Standing(cache'[q], q, moves, tx)
      BY <2>1 DEF TypeInv, TypeOK, FoundInv, PricesGood
    <3> QED BY <2>1, <3>1 DEF FoundInv, PricesGood, rest
  <2> QED BY <2>1, <2>2, HandlersStay, RestGood DEF rest, tokens, messages, FoundInv
<1>2. ASSUME NEW q \in Quarter, Expire(q) PROVE FoundInv'
  <2>1. PricesGood'
    <3>1. ASSUME NEW r \in Quarter PROVE Standing(cache'[r], r, moves, tx)
      BY <1>2 DEF Expire, TypeInv, TypeOK, FoundInv, PricesGood, Standing
    <3> QED BY <1>2, <3>1 DEF Expire, FoundInv, PricesGood, rest
  <2> QED BY <1>2, <2>1, HandlersStay, RestGood DEF Expire, rest, tokens, messages, FoundInv
<1>3. ASSUME NEW c \in Chain, Move(c) PROVE FoundInv'
  <2>1. \A b \in Chain, q \in Quarter : moves[b][q] <= moves'[b][q]
    <3> SUFFICES ASSUME NEW b \in Chain, NEW q \in Quarter PROVE moves[b][q] <= moves'[b][q]
      OBVIOUS
    <3>1. /\ moves' = [moves EXCEPT ![c] = [moves[c] EXCEPT ![now] = moves[c][now] + 1]]
          /\ moves[b][q] \in Nat /\ moves \in [Chain -> [Quarter -> 0..MaxEvents]]
          /\ moves[c] \in [Quarter -> 0..MaxEvents]
      BY <1>3 DEF Move, TypeInv, TypeOK
    <3>2. CASE b = c /\ q = now
      BY <3>1, <3>2
    <3>3. CASE b # c
      BY <3>1, <3>3
    <3>4. CASE b = c /\ q # now
      BY <3>1, <3>4
    <3> QED BY <3>2, <3>3, <3>4
  <2> QED BY <1>3, <2>1, MovingGood DEF Move, rest
<1>4. CASE NextQuarter
  <2>1. \A b \in Chain, q \in Quarter : moves[b][q] <= moves'[b][q]
    BY <1>4 DEF NextQuarter, TypeInv, TypeOK
  <2> QED BY <1>4, <2>1, MovingGood DEF NextQuarter, rest
<1>5. ASSUME NEW coins \in SUBSET Stable, NEW has, TokensSaved(coins, has) PROVE FoundInv'
  <2>1. /\ eversince' = [p \in Process |-> eversince[p] \cap coins]
        /\ marked' = coins /\ UNCHANGED <<tx, prices, memory, handler, messages>>
    BY <1>5 DEF TokensSaved
  <2>2. HandlersGood'
    <3> SUFFICES ASSUME NEW g \in Handler, Busy(g)' PROVE Good(handler[g], eversince[Home[g]])'
      BY DEF HandlersGood
    <3>1. Good(handler[g], eversince[Home[g]])
      BY <2>1 DEF Busy, At, FoundInv, HandlersGood
    <3>2. eversince'[Home[g]] \subseteq eversince[Home[g]]
      BY <2>1, ValuationAssumption
    <3> QED BY <2>1, <3>1, <3>2 DEF Good, prices
  <2>3. CoinsGood'
    BY <2>1 DEF FoundInv, CoinsGood
  <2> QED BY <2>1, <2>2, <2>3, RestGood DEF prices, messages, FoundInv
<1>6. ASSUME NEW s \in Stable, Mark(s) PROVE FoundInv'
  <2>1. marked \cup {s} \in SUBSET Stable /\ marked \ {s} \in SUBSET Stable
    BY DEF TypeInv, TypeOK
  <2> QED BY <1>5, <1>6, <2>1 DEF Mark
<1>7. CASE Migrate
  <2>1. \A coins \in SUBSET Stable : marked \cup coins \in SUBSET Stable
    BY DEF TypeInv, TypeOK
  <2> QED BY <1>5, <1>7, <2>1 DEF Migrate
<1>8. CASE UnmarkWrapped
  <2>1. marked \ {WETH} \in SUBSET Stable /\ marked \cup ({WETH} \cap Stable) \in SUBSET Stable
    BY DEF TypeInv, TypeOK
  <2> QED BY <1>5, <1>8, <2>1 DEF UnmarkWrapped
<1> QED BY <1>1, <1>2, <1>3, <1>4, <1>6, <1>7, <1>8

LEMMA TakeFound ==
    ASSUME TypeInv, FoundInv, NEW h \in Handler, NEW t \in Tx, Take(h, t)
    PROVE  FoundInv'
<1> DEFINE state == [phase |-> IF tx[t].kind = "block" THEN "pricing" ELSE "receipt",
                     tx |-> t, stables |-> {}, price |-> NoPrice, known |-> FALSE]
<1>1. /\ handler' = [handler EXCEPT ![h] = state]
      /\ UNCHANGED <<tx, prices, tokens, messages, events>>
  BY DEF Take
<1>2. /\ state.phase = (IF tx[t].kind = "block" THEN "pricing" ELSE "receipt")
      /\ state.tx = t /\ state.price = NoPrice /\ ~state.known
  OBVIOUS
<1> HIDE DEF state
<1>3. Good(state, eversince[Home[h]])
  BY <1>2 DEF Good, FoundSoFar, Standing
<1>4. HandlersGood'
  <2> SUFFICES ASSUME NEW g \in Handler, Busy(g)' PROVE Good(handler[g], eversince[Home[g]])'
    BY DEF HandlersGood
  <2>1. CASE g = h
    BY <1>1, <1>3, <2>1 DEF Good, TypeInv, TypeOK, prices, tokens
  <2>2. CASE g # h
    <3>1. Good(handler[g], eversince[Home[g]]) /\ handler'[g] = handler[g]
      BY <1>1, <2>2 DEF Busy, At, FoundInv, HandlersGood, TypeInv, TypeOK
    <3> QED BY <1>1, <3>1 DEF Good, prices, tokens
  <2> QED BY <2>1, <2>2
<1> QED BY <1>1, <1>4, RestGood DEF prices, tokens, messages, FoundInv

LEMMA CrashFound ==
    ASSUME TypeInv, FoundInv, NEW p \in Process, Crash(p)
    PROVE  FoundInv'
<1>1. /\ handler' = [h \in Handler |-> IF Home[h] = p THEN Idle ELSE handler[h]]
      /\ memory' = [memory EXCEPT ![p] = NothingRemembered]
      /\ eversince' = [eversince EXCEPT ![p] = marked]
      /\ UNCHANGED <<tx, prices, marked, messages>>
  BY DEF Crash
<1>2. HandlersGood'
  <2> SUFFICES ASSUME NEW g \in Handler, Busy(g)' PROVE Good(handler[g], eversince[Home[g]])'
    BY DEF HandlersGood
  <2>1. handler'[g] = handler[g] /\ Home[g] # p
    BY <1>1 DEF Busy, At, Idle
  <2>2. Busy(g) /\ Good(handler[g], eversince[Home[g]])
    BY <2>1 DEF Busy, At, FoundInv, HandlersGood
  <2>3. eversince'[Home[g]] = eversince[Home[g]]
    BY <1>1, <2>1, ValuationAssumption DEF TypeInv, TypeOK
  <2> QED BY <1>1, <2>1, <2>2, <2>3 DEF Good, prices
<1>3. CoinsGood'
  <2> SUFFICES ASSUME NEW q \in Process
               PROVE  /\ eversince'[q] \subseteq marked
                      /\ memory'[q].stables = {} \/ eversince'[q] \subseteq memory'[q].stables
    BY <1>1 DEF CoinsGood
  <2>1. CASE q = p
    BY <1>1, <2>1 DEF TypeInv, TypeOK, NothingRemembered
  <2>2. CASE q # p
    BY <1>1, <2>2 DEF TypeInv, TypeOK, FoundInv, CoinsGood
  <2> QED BY <2>1, <2>2
<1> QED BY <1>1, <1>2, <1>3, RestGood DEF prices, messages, FoundInv

LEMMA FoundInit == Init => FoundInv
<1> SUFFICES ASSUME Init PROVE FoundInv
  OBVIOUS
<1>1. HandlersGood
  BY DEF Init, HandlersGood, Busy, At, Idle
<1>2. PricesGood
  BY DEF Init, PricesGood, Standing
<1>3. CoinsGood
  BY DEF Init, CoinsGood, NothingRemembered
<1> QED BY <1>1, <1>2, <1>3 DEF Init, FoundInv, PublishedGood, UnvaluedGood

LEMMA FoundNext == TypeInv /\ TypeInv' /\ FoundInv /\ [Next]_vars => FoundInv'
<1> SUFFICES ASSUME TypeInv, TypeInv', FoundInv, [Next]_vars PROVE FoundInv'
  OBVIOUS
<1>1. ASSUME NEW h \in Handler, Execute(h) PROVE FoundInv'
  BY <1>1, ExecuteFound
<1>2. ASSUME NEW h \in Handler, NEW t \in Tx, Take(h, t) PROVE FoundInv'
  BY <1>2, TakeFound
<1>3. ASSUME NEW p \in Process, Crash(p) PROVE FoundInv'
  BY <1>3, CrashFound
<1>4. CASE UNCHANGED vars
  BY <1>4, HandlersStay, RestGood DEF vars, prices, tokens, messages, FoundInv
<1> QED BY <1>1, <1>2, <1>3, <1>4, AroundFound DEF Next

LEMMA FoundAlways == Spec => [](TypeInv /\ FoundInv)
<1>1. Init => TypeInv /\ FoundInv
  BY TypesInit, FoundInit
<1>2. TypeInv /\ FoundInv /\ [Next]_vars => TypeInv' /\ FoundInv'
  BY TypesNext, FoundNext
<1> QED BY <1>1, <1>2, PTL DEF Spec
-----------------------------------------------------------------------------
\* PricesCorrect: a transaction is valued by a price of its quarter, of a chain that
\* something in that quarter was to be priced on, whatever the handlers of whatever
\* processes put into the cache they share, in whatever order the writes take effect.
THEOREM PricesCorrect == Spec => []PricedInItsQuarter
<1>1. ASSUME TypeInv, FoundInv PROVE PricedInItsQuarter
  <2> SUFFICES ASSUME NEW m \in published, m.price # NoPrice
               PROVE  /\ m.price.quarter = tx[m.tx].quarter
                      /\ m.price.version <= moves[m.price.chain][m.price.quarter]
                      /\ AskedFor(m.price.chain, m.price.quarter, tx)
    BY DEF PricedInItsQuarter, AskedFor
  <2>1. Standing(m.price, tx[m.tx].quarter, moves, tx)
    BY <1>1 DEF FoundInv, PublishedGood
  <2> QED BY <2>1 DEF Standing
<1> QED BY <1>1, FoundAlways, PTL

\* KnownCoins: what a process remembers of the stable coins never makes it leave a
\* swap without a value that moved a coin marked all the time since it started.
THEOREM KnownCoins == Spec => []KnownCoinsCount
<1>1. ASSUME FoundInv PROVE KnownCoinsCount
  <2> SUFFICES ASSUME NEW u \in unvalued
               PROVE  TokensOf(tx[u.tx]) \cap ({WETH} \cup u.eversince) = {}
    BY DEF KnownCoinsCount
  <2>1. PICK coins \in SUBSET Stable :
           u.eversince \subseteq coins /\ HasNoValue(tx[u.tx], coins) /\ IsSwap(tx[u.tx])
    BY <1>1 DEF FoundInv, UnvaluedGood
  <2>2. TokensOf(tx[u.tx]) \cap ({WETH} \cup coins) = {}
    BY <2>1, NoValueNoCoin
  <2> QED BY <2>1, <2>2
<1> QED BY <1>1, FoundAlways, PTL

\* The details of a swap that is published, and what they were made of.
LEMMA SwapPublished ==
    ASSUME TypeInv, FoundInv, NEW m \in SwapsPublished
    PROVE  /\ m \in published /\ m.stables \in SUBSET Stable
           /\ IsSwap(tx[m.tx])
           /\ TxProcessed(m).data = DexSwapData(tx[m.tx], m.stables, m.price)
           /\ ~HasNoValue(tx[m.tx], m.stables)
           /\ m.price # NoPrice <=> NeedsPrice(tx[m.tx], m.stables)
<1>1. m \in published /\ TxProcessed(m).type = "DexSwap"
  BY DEF SwapsPublished
<1>2. m.known /\ tx[m.tx].kind = "swap"
  BY <1>1 DEF TxProcessed
<1>3. m.stables \in SUBSET Stable /\ IsDetails(tx[m.tx])
  BY <1>1, ValuationAssumption DEF TypeInv, TypeOK
<1>4. Found(tx[m.tx], m)
  BY <1>1 DEF FoundInv, PublishedGood
<1>5. TxProcessed(m).data = DexSwapData(tx[m.tx], m.stables, m.price)
  BY <1>2 DEF TxProcessed
<1>6. IsSwap(tx[m.tx])
  BY <1>2, <1>3 DEF IsDetails
<1>7. ~HasNoValue(tx[m.tx], m.stables) /\ (m.price # NoPrice <=> NeedsPrice(tx[m.tx], m.stables))
  BY <1>2, <1>4 DEF Found
<1> QED BY <1>1, <1>3, <1>5, <1>6, <1>7

\* AmountsCorrect: whatever the path and the method, never more is recorded as
\* received, or less as paid, than was.
THEOREM AmountsCorrect == Spec => []AmountsBounded
<1>1. ASSUME TypeInv, FoundInv PROVE AmountsBounded
  <2> SUFFICES ASSUME NEW m \in SwapsPublished
               PROVE  LET s == tx[m.tx]
                          d == TxProcessed(m).data
                      IN  /\ d.input >= Paid(s) /\ d.output <= Received(s)
                          /\ s.method # "swapETHForExactTokens" => d.input = Paid(s)
                          /\ s.method \notin ReceivesEth => d.output = Received(s)
    BY DEF AmountsBounded
  <2> DEFINE s == tx[m.tx]
             d == TxProcessed(m).data
  <2>0. IsSwap(s) /\ d = DexSwapData(s, m.stables, m.price)
    BY <1>1, SwapPublished
  <2>1. IsSwap(s) /\ d.input = inputAmount(s) /\ d.output = outAmount(s)
    <3> HIDE DEF s, d
    <3> QED BY <2>0 DEF DexSwapData
  <2> HIDE DEF s, d
  <2>2. /\ d.input >= Paid(s) /\ d.output <= Received(s)
        /\ s.method # "swapETHForExactTokens" => d.input = Paid(s)
        /\ s.method \notin ReceivesEth => d.output = Received(s)
    BY <2>1, InputRecorded, OutputRecorded
  <2> QED BY <2>2 DEF s, d
<1> QED BY <1>1, FoundAlways, PTL

\* EstimatesCorrect: what is not flagged as calculated is an amount that moved, and
\* what is flagged was derived from one by a price.
THEOREM EstimatesCorrect == Spec => []EstimatesFlagged
<1>1. ASSUME TypeInv, FoundInv PROVE EstimatesFlagged
  <2> SUFFICES ASSUME NEW m \in SwapsPublished
               PROVE  Flagged(tx[m.tx], TxProcessed(m).data)
    BY DEF EstimatesFlagged
  <2> DEFINE s == tx[m.tx]
             d == TxProcessed(m).data
             native == NativeInLogs(s)
             usd    == UsdInLogs(s, m.stables)
  <2>1. /\ IsSwap(s) /\ m.stables \in SUBSET Stable
        /\ d = DexSwapData(s, m.stables, m.price)
        /\ ~(native = Undefined /\ usd = Undefined)
        /\ m.price # NoPrice <=> ((native = Undefined) # (usd = Undefined))
    BY <1>1, SwapPublished DEF HasNoValue, NeedsPrice
  <2>2. native # Undefined =>
           \E k \in 1..Len(s.path) : s.path[k] = WETH /\ native = s.moved[k]
    BY <2>1, TokenValue DEF NativeInLogs
  <2>3. usd # Undefined =>
           \E k \in 1..Len(s.path) : s.path[k] \in m.stables /\ usd = s.moved[k]
    BY <2>1, StableValue DEF UsdInLogs
  <2>4. DOMAIN s.path = 1..Len(s.path)
    BY <2>1, SwapTyped
  <2>5. /\ d.calculatedUsdValue = (usd = Undefined)
        /\ d.calculatedNativeValue = (native = Undefined)
        /\ usd # Undefined => d.usdValue = [amount |-> usd, price |-> NoPrice, scale |-> 1]
        /\ usd = Undefined => d.usdValue.price = m.price
        /\ native # Undefined => d.nativeValue = [amount |-> native, price |-> NoPrice, scale |-> 1]
        /\ native = Undefined => d.nativeValue.price = m.price
    <3> DEFINE UsdOf == IF usd # Undefined THEN toFormatted(FromLogs(usd))
                        ELSE [toFormatted(FromLogs(native)) EXCEPT !.price = m.price]
               NativeOf == toFormatted(IF native # Undefined THEN FromLogs(native)
                             ELSE [toFormatted(FromLogs(usd)) EXCEPT !.price = m.price])
    <3>1. /\ d.calculatedUsdValue = (usd = Undefined)
          /\ d.calculatedNativeValue = (native = Undefined)
          /\ d.usdValue = UsdOf /\ d.nativeValue = NativeOf
      <4> HIDE DEF d
      <4> QED BY <2>1 DEF DexSwapData
    <3> HIDE DEF s, d, native, usd
    <3>2. /\ usd # Undefined => UsdOf = [amount |-> usd, price |-> NoPrice, scale |-> 1]
          /\ usd = Undefined => UsdOf.price = m.price
      BY DEF toFormatted, FromLogs
    <3>3. /\ native # Undefined => NativeOf = [amount |-> native, price |-> NoPrice, scale |-> 1]
          /\ native = Undefined => NativeOf.price = m.price
      BY DEF toFormatted, FromLogs
    <3> HIDE DEF UsdOf, NativeOf
    <3> QED BY <3>1, <3>2, <3>3
  <2> HIDE DEF s, d, native, usd
  <2>6. native # Undefined =>
           d.nativeValue.amount \in MovedOf(s, {WETH})
    BY <2>2, <2>4, <2>5 DEF MovedOf
  <2>7. usd # Undefined =>
           d.usdValue.amount \in MovedOf(s, Stable)
    BY <2>1, <2>3, <2>4, <2>5 DEF MovedOf
  <2>8. /\ d.calculatedUsdValue <=> usd = Undefined
        /\ d.calculatedNativeValue <=> native = Undefined
    BY <2>5
  <2>9. usd = Undefined \/ native = Undefined => m.price # NoPrice
    <3>1. CASE usd = Undefined
      BY <2>1, <3>1
    <3>2. CASE native = Undefined
      BY <2>1, <3>2
    <3> QED BY <3>1, <3>2
  <2>10. /\ usd # Undefined => d.usdValue.price = NoPrice /\ d.usdValue.scale = 1
         /\ native # Undefined => d.nativeValue.price = NoPrice /\ d.nativeValue.scale = 1
    BY <2>5
  <2>11. /\ d.calculatedUsdValue    <=> d.usdValue.price # NoPrice
         /\ d.calculatedNativeValue <=> d.nativeValue.price # NoPrice
         /\ ~(d.calculatedUsdValue /\ d.calculatedNativeValue)
         /\ ~d.calculatedNativeValue => d.nativeValue.scale = 1
         /\ ~d.calculatedUsdValue => d.usdValue.scale = 1
    BY <2>1, <2>5, <2>8, <2>9, <2>10
  <2>12. /\ ~d.calculatedNativeValue => d.nativeValue.amount \in MovedOf(s, {WETH})
         /\ ~d.calculatedUsdValue => d.usdValue.amount \in MovedOf(s, Stable)
    BY <2>6, <2>7, <2>8, Zenon
  <2>13. Flagged(s, d)
    BY <2>11, <2>12, Zenon DEF Flagged
  <2> QED BY <2>13 DEF s, d
<1> QED BY <1>1, FoundAlways, PTL

\* RedeliveryCorrect: two messages of one transaction agree, whatever failed and
\* whoever published them, in all that the stable coins they were made with decide.
THEOREM RedeliveryCorrect == Spec => []RedeliveryAgrees
<1>1. ASSUME TypeInv, FoundInv PROVE RedeliveryAgrees
  <2> SUFFICES ASSUME NEW m \in published, NEW n \in published,
                      m.tx = n.tx, m.stables = n.stables
               PROVE  /\ m.known = n.known
                      /\ TxProcessed(m).exactTime = TxProcessed(n).exactTime
                      /\ m.price.quarter = n.price.quarter
    BY DEF RedeliveryAgrees
  <2> DEFINE d == tx[m.tx]
  <2>1. /\ Found(d, m) /\ Found(d, n)
        /\ Standing(m.price, d.quarter, moves, tx) /\ Standing(n.price, d.quarter, moves, tx)
    BY <1>1 DEF FoundInv, PublishedGood
  <2>2. m.known \in BOOLEAN /\ n.known \in BOOLEAN
    BY <1>1 DEF TypeInv, TypeOK
  <2> HIDE DEF d
  <2>3. m.known = n.known
    <3>1. m.known <=> n.known
      BY <2>1, Zenon DEF Found
    <3> QED BY <2>2, <3>1
  <2>4. m.price = NoPrice <=> n.price = NoPrice
    BY <2>1, Zenon DEF Found
  <2>5. TxProcessed(m).exactTime = TxProcessed(n).exactTime
    BY <2>4 DEF TxProcessed
  <2>6. m.price.quarter = n.price.quarter
    BY <2>1, <2>4 DEF Standing
  <2> QED BY <2>3, <2>5, <2>6
<1> QED BY <1>1, FoundAlways, PTL
=============================================================================
