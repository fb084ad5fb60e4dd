---------------------------- MODULE MCEventIndex ----------------------------
(* EventIndex for TLC: two terms and two docs drawn from the same ids, so  *)
(* that a (term, doc) and a (doc, term) are both keys; two weights, so     *)
(* that an overwrite shows; deadlines 1..2 and apply times 0..2, so that   *)
(* a posting can be due, not yet due, or overtaken by a later update; a    *)
(* capacity of 2 under 4 keys, so that apply sheds by capacity as well.    *)
EXTENDS EventIndex

MCTerms == {1, 2}
MCDocs == {1, 2}
MCWeights == {"w1", "w2"}
MCTimes == 0 .. 2

=============================================================================
