----------------------------- MODULE QueueStatus ------------------------------
(* What the status report says of the queues of an executor: StatusController  *)
(* (GET /) reads RabbitMQ's list of queues and counts, and StatusNotifier posts *)
(* the dead messages among them every twelve hours.  The other executors'      *)
(* queues have entries of their own, in the same way.                          *)
EXTENDS Executor

LOCAL INSTANCE FiniteSets
LOCAL INSTANCE SequencesExt

\* getAllQueueStatus: ready and unacknowledged messages of a queue.
Messages(q) == Cardinality({s \in Used : copy[s].queue = q})

\* The orders RabbitMQ may list the queues in.
Listings == SetToSeqs({WorkQueue, RetryQueue, DeadQueue})

\* q.name.startsWith: the auxiliary names start with an underscore, "_dead_".
StartsWith(q, prefix) == q.prefix = prefix

\* q.name.replace("dead_", "").replace("retry_", ""): the underscore is left.
Entry(q) == IF q.prefix \in {"_dead_", "_retry_"}
            THEN [prefix |-> "_", base |-> q.base] ELSE q

\* What a queue adds to the report; its count is the number of retries in any case.
Reported(report, q) ==
    LET before == IF Entry(q) \in DOMAIN report THEN report[Entry(q)]
                  ELSE [processing |-> 0, retrying |-> 0, dead |-> 0]
        status == CASE StartsWith(q, "dead_")  -> [before EXCEPT !.dead = Messages(q)]
                    [] StartsWith(q, "retry_") -> [before EXCEPT !.retrying = Messages(q)]
                    [] OTHER                   -> [before EXCEPT !.processing = Messages(q)]
    IN  [e \in DOMAIN report \cup {Entry(q)} |->
            IF e = Entry(q) THEN [status EXCEPT !.retrying = Messages(q)] ELSE report[e]]

getBrokerStatus(listing) == FoldLeft(Reported, <<>>, listing)

\* buildStatusMessageFromApi: a line for each entry with dead messages.
DeadLines(report) == {e \in DOMAIN report : report[e].dead # 0}

\* DeadReported: as the heading of StatusNotifier.ts:78 ("Broker Dead Messages:")
\* has it, a message that was buried appears in the report.
DeadReported ==
    Messages(DeadQueue) > 0 =>
        \A listing \in Listings : DeadLines(getBrokerStatus(listing)) # {}
=============================================================================
