----------------------------- MODULE MCExecutor ------------------------------
(* Instances of Executor, and of the report on its queues, for TLC.            *)
EXTENDS QueueStatus, TLC

CONSTANTS m1, c1, c2, s1, s2, s3

\* Messages published with the default budget, as TokenDiscovered is, and with a
\* larger one, as TxDiscovered is (30 against 10 in the code).
DeclaredDefault == [m \in Msg |-> DefaultMaxRetries]
DeclaredLarger  == [m \in Msg |-> DefaultMaxRetries + 2]

Symmetry == Permutations(Slot) \cup Permutations(Consumer) \cup Permutations(Msg)
=============================================================================
