----------------------------- MODULE MCMempool -----------------------------
(* Instances of Mempool for TLC.                                           *)
EXTENDS Mempool

\* Two transactions that share node a; the first also declares b.
SharedNode == [o \in Originals |-> IF o = 1 THEN {"a", "b"} ELSE {"a"}]

\* Retries hash after originals.
AttemptFirst == [t \in Txs |-> 10 * t[2] + t[1]]

=============================================================================
