--------------------------- MODULE MCUpdatePipeline ---------------------------
(* UpdatePipeline for TLC: one key fed with two weights and two deadlines, *)
(* so that the order of two jobs shows in the weight and in the deadline;  *)
(* three jobs through a queue of two and batches of up to two, so that a   *)
(* batch holds two jobs of the key, a job waits behind a batch, and the    *)
(* queue is full; apply times 0..1, so that a deadline can be due.         *)
EXTENDS UpdatePipeline

MCTerms == {1}
MCDocs == {1}
MCWeights == {"w1", "w2"}
MCTimes == 0 .. 1

=============================================================================
