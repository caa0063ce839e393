-------------------------- MODULE MCEmbeddingRetry --------------------------
(* Small instances of EmbeddingRetry for TLC. *)
EXTENDS EmbeddingRetry, TLC

\* Every retry is due again at the next tick: the most crowded queue.
MCCrowded == [n \in 1 .. MaxAttempts |-> 1]

=============================================================================
