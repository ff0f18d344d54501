--------------------------- MODULE MCQueueManager ---------------------------
(* QueueManager on small sets of queries and cancelling threads. *)
EXTENDS QueueManager, TLC

\* Every reading of the clock gives a new id.
FineClock == {1}

\* Two readings may give the same id.
CoarseClock == {0, 1}

\* Queries are interchangeable, and so are cancelling threads.
Symmetry == Permutations(Queries) \union Permutations(Cancellers)
=============================================================================
