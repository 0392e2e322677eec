---------------------------- MODULE TokenRecovery -----------------------------
(* How the tokens of recorded swaps come to be saved: SaveToken executes the   *)
(* TokenDiscovered messages, and RequeueMissingTokens, a loop in the           *)
(* blocklistener process, publishes one for every token of a recorded swap     *)
(* that has no document.  SaveTxOfInterest announces a swap's tokens only when *)
(* it does not know the sender, and messages may end in the dead queue, so the *)
(* loop is what makes the tokens complete.                                     *)
(*                                                                             *)
(* Operators write tokens through the HTTP API (POST /tokens), which marks     *)
(* them as stable coins and the like; SaveToken writes whole documents, too.   *)
(* Delivery is what Executor establishes for save_token.                       *)
EXTENDS Naturals

CONSTANTS
    Token,
    Process,     \* consumer processes
    Handler,     \* messages executing at once, over all processes
    Home,        \* the process each handler runs in
    MaxRetries,  \* ExecutorMessage's budget (10 in the code)
    MayFail,     \* whether calls to services may be rejected
    MaxCrashes   \* bound on exits of processes

ASSUME TokenAssumption ==
    /\ Home \in [Handler -> Process]
    /\ MaxRetries \in Nat /\ MaxCrashes \in Nat
    /\ MayFail \in BOOLEAN

VARIABLES
    swapTokens,  \* tokens of recorded swaps
    queue,       \* TokenDiscovered messages waiting: <<token, retries>>
    handler,     \* what each handler is doing
    stored,      \* tokens that have a document
    marked,      \* those whose document carries what an operator set
    cached,      \* tokens findOne finds in the cache
    loop,        \* where RequeueMissingTokens stands
    addresses,   \* the tokens its round looks at
    givenUp,     \* tokens with a message buried or discarded
    crashes      \* how many processes exited

vars == <<swapTokens, queue, handler, stored, marked, cached, loop, addresses,
          givenUp, crashes>>
documents == <<stored, marked>>
requeuing == <<loop, addresses>>
-----------------------------------------------------------------------------
\* Where a handler stands: the call it awaits.
\*   finding   the cache's get, and the database's findOne when it misses
\*   caching   the cache's set of the document it read
\*   fetching  fetchTokensData, the token being new
\*   saving    getLogoFromEtherScan, and then the database's updateOne
\*   acking, failing   execute is resolved, or rejected
Phase  == {"finding", "caching", "fetching", "saving", "acking", "failing"}
Source == {"none", "cache", "database", "chain"}

\* overlapped is a ghost: somebody wrote the token since the handler read it.
HandlerState ==
    [phase : Phase, token : Token, retries : 0..MaxRetries, source : Source,
     mark : BOOLEAN, overlapped : BOOLEAN]

Idle == [phase |-> "idle"]

\* The phases in which a handler has the token it is going to save.
Holding == {"caching", "fetching", "saving"}

At(h, phase) == handler[h].phase = phase
Busy(h)      == ~At(h, "idle")
TokenOf(h)   == handler[h].token

Init ==
    /\ swapTokens = {} /\ queue = {}
    /\ handler = [h \in Handler |-> Idle]
    /\ stored = {} /\ marked = {} /\ cached = {}
    /\ loop = "querying" /\ addresses = {}
    /\ givenUp = {}
    /\ crashes = 0
-----------------------------------------------------------------------------
\* A message is delivered and execute begins.
Take(h, m) ==
    /\ ~Busy(h)
    /\ m \in queue
    /\ queue' = queue \ {m}
    /\ handler' = [handler EXCEPT ![h] =
         [phase |-> "finding", token |-> m[1], retries |-> m[2], source |-> "none",
          mark |-> FALSE, overlapped |-> FALSE]]
    /\ UNCHANGED <<documents, cached, requeuing, swapTokens, givenUp, crashes>>

\* The handler goes on to its next call with the copy it has.
Becomes(h, state) ==
    /\ handler' = [handler EXCEPT ![h] = state]
    /\ UNCHANGED <<queue, documents, requeuing, swapTokens, givenUp, crashes>>

Goes(h, phase) == Becomes(h, [handler[h] EXCEPT !.phase = phase])

\* It holds a token as somebody answered it, marked or not.
Holds(h, phase, source, mark) ==
    Becomes(h, [handler[h] EXCEPT !.phase = phase, !.source = source,
                                  !.mark = mark, !.overlapped = FALSE])

\* It is over, and what it held is gone.
Over(h, phase) ==
    [phase |-> phase, token |-> TokenOf(h), retries |-> handler[h].retries,
     source |-> "none", mark |-> FALSE, overlapped |-> FALSE]

\* findOne: a copy in the cache is the answer ...
FindCached(h) ==
    /\ At(h, "finding")
    /\ TokenOf(h) \in cached
    /\ Becomes(h, [handler[h] EXCEPT !.phase = "saving", !.source = "cache"])
    /\ UNCHANGED cached

\* A faulty variant of the next definition: an existing token is fetched anew.
FindStored_FaultyRefetch(h) ==
    /\ At(h, "finding")
    /\ TokenOf(h) \notin cached \/ MayFail
    /\ TokenOf(h) \in stored
    /\ Holds(h, "fetching", "chain", FALSE)
    /\ UNCHANGED cached

\* ... or the document (the cache having missed, or Redis having failed) ...
FindStored(h) ==
    /\ At(h, "finding")
    /\ TokenOf(h) \notin cached \/ MayFail
    /\ TokenOf(h) \in stored
    /\ Holds(h, "caching", "database", TokenOf(h) \in marked)
    /\ UNCHANGED cached

\* ... or nothing.
FindNothing(h) ==
    /\ At(h, "finding")
    /\ TokenOf(h) \notin cached \/ MayFail
    /\ TokenOf(h) \notin stored
    /\ Holds(h, "fetching", "chain", FALSE)
    /\ UNCHANGED cached

\* The cache takes the copy and keeps it up to 120 s (see Expire; a set that Redis
\* fails resolves like one that expires at once).
CacheCopy(h) ==
    /\ At(h, "caching")
    /\ Goes(h, "saving")
    /\ cached' = cached \cup {TokenOf(h)}

\* fetchTokensData: neither the database nor the service's own cache ever answers
\* it (uniqueTokenList drops every token), so the chain does.
FetchToken(h) ==
    /\ At(h, "fetching")
    /\ Goes(h, "saving")
    /\ UNCHANGED cached

\* A write of t overtakes all who hold it.
Overtake(t) ==
    [g \in Handler |-> IF handler[g].phase \in Holding /\ TokenOf(g) = t
                      THEN [handler[g] EXCEPT !.overlapped = TRUE] ELSE handler[g]]

\* updateOne($set the whole token, upsert).  The call to etherscan.io before it
\* touches nothing else, so that its time is part of what precedes the write.
Save(h) ==
    /\ At(h, "saving")
    /\ handler[h].source # "cache"
    /\ stored' = stored \cup {TokenOf(h)}
    /\ marked' = IF handler[h].mark THEN marked \cup {TokenOf(h)} ELSE marked \ {TokenOf(h)}
    /\ \E next \in {"acking"} \cup (IF MayFail THEN {"failing"} ELSE {}) :
          handler' = [Overtake(TokenOf(h)) EXCEPT ![h] = Over(h, next)]
    /\ UNCHANGED <<queue, cached, requeuing, swapTokens, givenUp, crashes>>

\* The _id of a cached copy is a string by now, and the database refuses to
\* change the _id of a document.
SaveRefused(h) ==
    /\ At(h, "saving")
    /\ handler[h].source = "cache"
    /\ Becomes(h, Over(h, "failing"))
    /\ UNCHANGED cached

\* A call is rejected and had no effect; that of a contract without valid answers
\* is, every time.
CallFails(h) ==
    /\ MayFail
    /\ handler[h].phase \in {"finding", "fetching", "saving"}
    /\ Becomes(h, Over(h, "failing"))
    /\ UNCHANGED cached

Ack(h) ==
    /\ At(h, "acking")
    /\ handler' = [handler EXCEPT ![h] = Idle]
    /\ UNCHANGED <<queue, documents, cached, requeuing, swapTokens, givenUp, crashes>>

\* A faulty variant of the next definition: one delivery too many.
MayRetry_FaultyExtra(again) == again <= MaxRetries + 1

\* Whether messageCanBeRetried grants a message one more delivery.
MayRetry(again) == again <= MaxRetries

\* The executor sends a failed message round again, or buries it; when the
\* publication for that is rejected, the nack discards it.
Retry(h) ==
    LET again == handler[h].retries + 1
    IN  /\ At(h, "failing")
        /\ handler' = [handler EXCEPT ![h] = Idle]
        /\ \/ /\ MayRetry(again)
              /\ queue' = queue \cup {<<TokenOf(h), again>>} /\ UNCHANGED givenUp
           \/ /\ ~MayRetry(again) \/ MayFail
              /\ givenUp' = givenUp \cup {TokenOf(h)} /\ UNCHANGED queue
        /\ UNCHANGED <<documents, cached, requeuing, swapTokens, crashes>>

Execute(h) ==
    \/ FindCached(h) \/ FindStored(h) \/ FindNothing(h) \/ CacheCopy(h)
    \/ FetchToken(h) \/ Save(h) \/ SaveRefused(h)
    \/ CallFails(h) \/ Ack(h) \/ Retry(h)
-----------------------------------------------------------------------------
\* processBlockchain asks for the tokens of recorded swaps.  Without a recorded
\* swap the answer is undefined, and taking it apart throws.
QuerySwaps ==
    /\ loop = "querying"
    /\ swapTokens # {}
    /\ loop' = "comparing"
    /\ addresses' = swapTokens
    /\ UNCHANGED <<queue, handler, documents, cached, swapTokens, givenUp, crashes>>

\* Tokens are published; the next round is scheduled.
Requeue(tokens) ==
    /\ loop = "comparing"
    /\ queue' = queue \cup (tokens \X {0})
    /\ loop' = "sleeping" /\ addresses' = {}
    /\ UNCHANGED <<handler, documents, cached, swapTokens, givenUp, crashes>>

\* A faulty variant of the next definition: the tokens found are requeued.
RequeueMissing_FaultyFound == Requeue(addresses \cap stored)

\* The documents among the addresses are read, the rest is published ...
RequeueMissing == Requeue(addresses \ stored)

\* ... or a part of it, as nobody hears of a publication that is rejected.
RequeuePartly ==
    /\ MayFail
    /\ \E accepted \in SUBSET (addresses \ stored) :
          accepted # addresses \ stored /\ Requeue(accepted)

\* Five minutes have passed.
NextRound ==
    /\ loop = "sleeping"
    /\ loop' = "querying"
    /\ UNCHANGED <<queue, handler, documents, cached, addresses, swapTokens, givenUp, crashes>>

\* A round that throws is swallowed, and with it the next round.
RoundFails ==
    /\ \/ loop = "querying" /\ (swapTokens = {} \/ MayFail)
       \/ loop = "comparing" /\ MayFail
    /\ loop' = "stopped" /\ addresses' = {}
    /\ UNCHANGED <<queue, handler, documents, cached, swapTokens, givenUp, crashes>>

Loop == QuerySwaps \/ RequeueMissing \/ RequeuePartly \/ NextRound \/ RoundFails
-----------------------------------------------------------------------------
\* The pipeline records a swap with this token ...
RecordSwap(t) ==
    /\ t \notin swapTokens
    /\ swapTokens' = swapTokens \cup {t}
    /\ UNCHANGED <<queue, handler, documents, cached, requeuing, givenUp, crashes>>

\* ... and it, somebody at the HTTP API or the daily recovery of the dead queue
\* announces the token.
Discover(t) ==
    /\ queue' = queue \cup {<<t, 0>>}
    /\ UNCHANGED <<swapTokens, handler, documents, cached, requeuing, givenUp, crashes>>

\* POST /tokens: an operator's document is saved whole.
Configure(t) ==
    /\ stored' = stored \cup {t}
    /\ marked' = marked \cup {t}
    /\ handler' = Overtake(t)
    /\ UNCHANGED <<queue, cached, requeuing, swapTokens, givenUp, crashes>>

\* The time to live of a cached copy passes.
Expire(t) ==
    /\ t \in cached
    /\ cached' = cached \ {t}
    /\ UNCHANGED <<queue, handler, documents, requeuing, swapTokens, givenUp, crashes>>

\* A faulty variant of the next definition: messages are acknowledged when they
\* are delivered.
Crash_FaultyAutoAck(p) ==
    /\ crashes < MaxCrashes
    /\ crashes' = crashes + 1
    /\ handler' = [h \in Handler |-> IF Home[h] = p THEN Idle ELSE handler[h]]
    /\ UNCHANGED <<queue, documents, cached, requeuing, swapTokens, givenUp>>

\* A consumer process exits: RabbitMQ requeues what it had not acknowledged.
Crash(p) ==
    LET busy == {h \in Handler : Home[h] = p /\ Busy(h)}
    IN  /\ crashes < MaxCrashes
        /\ crashes' = crashes + 1
        /\ handler' = [h \in Handler |-> IF h \in busy THEN Idle ELSE handler[h]]
        /\ queue' = queue \cup {<<TokenOf(h), handler[h].retries>> : h \in busy}
        /\ UNCHANGED <<documents, cached, requeuing, swapTokens, givenUp>>

\* The blocklistener process exits and is restarted, and start() begins a round.
Restart ==
    /\ crashes < MaxCrashes
    /\ crashes' = crashes + 1
    /\ loop' = "querying" /\ addresses' = {}
    /\ UNCHANGED <<queue, handler, documents, cached, swapTokens, givenUp>>

Next ==
    \/ \E h \in Handler : Execute(h) \/ \E m \in queue : Take(h, m)
    \/ Loop
    \/ \E t \in Token : RecordSwap(t) \/ Discover(t) \/ Configure(t) \/ Expire(t)
    \/ \E p \in Process : Crash(p)
    \/ Restart

\* Handlers and the loop run as long as they have something to do, and a message
\* waiting is delivered before those that come later: strong fairness, as the
\* loop may keep all handlers busy with new ones.  A broker that is asked round
\* after round accepts everything some time.
Fairness ==
    /\ \A h \in Handler : WF_vars(Execute(h))
    /\ \A m \in Token \X (0..MaxRetries) : SF_vars(\E h \in Handler : Take(h, m))
    /\ WF_vars(Loop)
    /\ SF_vars(RequeueMissing)

Spec     == Init /\ [][Next]_vars
FairSpec == Spec /\ Fairness
-----------------------------------------------------------------------------
TypeOK ==
    /\ swapTokens \subseteq Token
    /\ queue \subseteq Token \X (0..MaxRetries)
    /\ handler \in [Handler -> HandlerState \cup {Idle}]
    /\ stored \subseteq Token /\ marked \subseteq stored /\ cached \subseteq stored
    /\ loop \in {"querying", "comparing", "sleeping", "stopped"}
    /\ addresses \subseteq Token
    /\ givenUp \subseteq Token
    /\ crashes \in Nat

\* CopiesOK: a handler that holds an answer of the database or the chain, and whom
\* no write has overtaken, agrees with the document on what an operator set, and
\* what it is about to cache (CachedMongoBaseRepository.ts:44) exists.
CopiesOK ==
    \A h \in Handler :
        /\ At(h, "caching") => TokenOf(h) \in stored
        /\ handler[h].phase \in Holding /\ handler[h].source # "cache" /\ ~handler[h].overlapped
           => (handler[h].mark <=> TokenOf(h) \in marked)

\* MarksNeedOverlap: SaveToken takes away what an operator set on a token only if
\* somebody wrote the token while the handler held its copy: SaveToken.ts:29-42
\* reads, asks etherscan.io and writes the whole document back, and what it finds
\* in the cache it cannot write.
MarksNeedOverlap ==
    [][\A t \in marked \ marked' :
         \E h \in Handler : At(h, "saving") /\ TokenOf(h) = t /\ handler[h].overlapped]_vars

\* Tokens somebody asked for: a message about them waits or is executed.
Pending == {m[1] : m \in queue} \cup {TokenOf(h) : h \in {g \in Handler : Busy(g)}}

\* RequestsKept: a token that was asked for is not forgotten: its last message is
\* gone only when the token has a document or the executor gave a message of it up,
\* whatever SaveToken (SaveToken.ts:28-47) was doing when it failed or exited.
RequestsKept == [][\A t \in Pending \ Pending' : t \in stored' \cup givenUp']_vars

\* Recovered: the token of a recorded swap is saved in the end, or one of its
\* messages is given up, or the loop has stopped (a single failed round does that,
\* RequeueMissingTokens.ts:27-39): no publication that SaveTxOfInterest leaves out,
\* and none that gets lost on the way, leaves it missing.
Recovered ==
    \A t \in Token : t \in swapTokens ~> t \in stored \cup givenUp \/ loop = "stopped"
=============================================================================
