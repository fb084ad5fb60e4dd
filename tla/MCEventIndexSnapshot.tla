------------------------ MODULE MCEventIndexSnapshot ------------------------
(* EventIndexSnapshot for TLC: two keys under a capacity of one, one     *)
(* weight, deadlines and apply times 0..1: enough for a posting to be    *)
(* published, dumped, shed by an apply (by deadline or by capacity) and  *)
(* restored.                                                             *)
EXTENDS EventIndexSnapshot

MCTerms == {1, 2}
MCDocs == {1}
MCWeights == {"w1"}
MCTimes == 0 .. 1

=============================================================================
