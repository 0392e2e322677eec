----------------------------- MODULE AtLeastOnce -----------------------------
(* What the executor promises its publishers: a message handed to the broker   *)
(* is held until a handler has completed it, whatever crashes, failures and    *)
(* retries happen in between.  A message that keeps failing is parked in the   *)
(* dead queue, where it is still held.  Only when MayDrop is TRUE may a        *)
(* message be given up.                                                        *)
CONSTANTS Msg,      \* the messages
          MayDrop   \* whether a message may be discarded

VARIABLES held,     \* messages the broker holds at least one copy of
          parked,   \* messages with a copy in the dead queue
          done,     \* messages some execution of the handler completed
          dropped   \* messages discarded at least once

vars == <<held, parked, done, dropped>>

TypeOK ==
    /\ held \subseteq Msg
    /\ parked \subseteq held
    /\ done \subseteq Msg
    /\ dropped \subseteq Msg

\* Some messages may have been handed over already.
Init == held \subseteq Msg /\ parked = {} /\ done = {} /\ dropped = {}

Send(m) ==
    /\ held' = held \cup {m}
    /\ UNCHANGED <<parked, done, dropped>>

Complete(m) ==
    /\ m \in held
    /\ done' = done \cup {m}
    /\ UNCHANGED <<held, parked, dropped>>

Park(m) ==
    /\ m \in held
    /\ parked' = parked \cup {m}
    /\ UNCHANGED <<held, done, dropped>>

\* The dead copy was put back to work; the message itself is still held.
Revive(m) ==
    /\ parked' = parked \ {m}
    /\ UNCHANGED <<held, done, dropped>>

\* The last copy goes away: only once the message is done or was dropped.
Forget(m) ==
    /\ m \in done \cup dropped
    /\ held' = held \ {m}
    /\ parked' = parked \ {m}
    /\ UNCHANGED <<done, dropped>>

\* One copy is discarded; others may remain.
Drop(m) ==
    /\ MayDrop
    /\ m \in held
    /\ dropped' = dropped \cup {m}
    /\ held' \in {held, held \ {m}}
    /\ parked' \in {parked, parked \ {m}}
    /\ parked' \subseteq held'
    /\ UNCHANGED done

Next == \E m \in Msg : \/ Send(m) \/ Complete(m) \/ Park(m)
                       \/ Revive(m) \/ Forget(m) \/ Drop(m)

Spec == Init /\ [][Next]_vars

\* A held message gets an outcome: the handler completes it, it is parked, or
\* (when that may happen) it is dropped.
Outcome(m) == Complete(m) \/ Park(m) \/ Drop(m)

FairSpec ==
    Spec /\ \A m \in Msg :
        WF_vars(m \notin done \cup parked \cup dropped /\ Outcome(m))
-----------------------------------------------------------------------------
\* Kept: what a publisher may rely on: a message is not forgotten before some
\* execution completed it, or, where that may happen, it was discarded.
Kept ==
    [][\A m \in held \ held' : m \in done \/ (MayDrop /\ m \in dropped')]_vars

\* Where nothing may be dropped nothing was: the invariant behind Kept.
NeverDropped == ~MayDrop => dropped = {}
=============================================================================
