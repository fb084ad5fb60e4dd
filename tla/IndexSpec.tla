------------------------------ MODULE IndexSpec ------------------------------
(***************************************************************************)
(* What the event index promises its clients, without the changeset and   *)
(* without the heap: the index accepts updates, which readers do not see, *)
(* and from time to time publishes.  After a publication readers see      *)
(* exactly the last accepted weight of every posting that is neither due  *)
(* nor shed for capacity (testable properties 2, 3 and 4 of the design).  *)
(***************************************************************************)
EXTENDS Integers, FiniteSets, Functions

CONSTANTS Terms, Docs, Weights, Times, MaxSize

VARIABLES
    store,      \* the accepted postings: (term, doc) -> [weight, expire]
    visible     \* what readers see: (term, doc) -> weight

specVars == <<store, visible>>

Postings == [weight : Weights, expire : Times]

SpecInit == store = <<>> /\ visible = <<>>

(* Updates are accepted: postings are added or overwritten, none is     *)
(* removed, and readers see no change.                                  *)
Accept ==
    /\ DOMAIN store \subseteq DOMAIN store'
    /\ DOMAIN store' \subseteq Terms \X Docs
    /\ \A k \in DOMAIN store' : store'[k] \in Postings
    /\ visible' = visible

(* `gone` is what a publication at `time` removes: every due posting,   *)
(* then the earliest of the others while more than MaxSize are left,    *)
(* and nothing else.                                                    *)
IsShed(gone, time) ==
    LET kept == DOMAIN store \ gone
        due == {k \in DOMAIN store : store[k].expire <= time}
    IN  /\ due \subseteq gone
        /\ Cardinality(kept) <= MaxSize
        /\ gone # due => Cardinality(kept) = MaxSize
        /\ \A g \in gone, k \in kept : store[g].expire <= store[k].expire

(* A publication: readers now see the weight of every posting kept. *)
Publish ==
    \E time \in Times, gone \in SUBSET DOMAIN store :
        /\ IsShed(gone, time)
        /\ store' = Restrict(store, DOMAIN store \ gone)
        /\ visible' = [k \in DOMAIN store' |-> store'[k].weight]

SpecNext == Accept \/ Publish

IndexSpec == SpecInit /\ [][SpecNext]_specVars

=============================================================================
