----------------------------- MODULE EventIndex -----------------------------
(***************************************************************************)
(* BaseEventIndex (src/main/core/impl/base_event_index-inl.h): the index   *)
(* of expiring postings.  It binds the posting index of its base class    *)
(* to the expiration table `expire_`, stages every edit in `changeset_`   *)
(* and publishes the staged edits, together with the removals that        *)
(* expiration implies, in apply().                                        *)
(*                                                                         *)
(* update, batch_update and apply each hold `changeset_mutex_` from their *)
(* first statement to their return, so each is one atomic action here.    *)
(* Readers see `index` only; it changes in apply() alone.                 *)
(*                                                                         *)
(* The base class and the expiration table are not in the source tree:    *)
(* create_update_internal, remove_internal and apply_internal are written *)
(* from the design text (the changeset is an ordered log of UPSERT and    *)
(* DELETE edits that apply drains), the table from module ExpireTable.    *)
(***************************************************************************)
EXTENDS Integers, Sequences, FiniteSets, SequencesExt, TLC, ExpireTable

CONSTANTS
    Terms,       \* the TermIds fed to the index
    Docs,        \* the DocIds fed to the index
    Weights,     \* the TermWeights
    Times,       \* the ExpireTimes: deadlines and the arguments of apply
    MaxSize,     \* max_size_: the capacity of the expiration table
    MaxBatch,    \* bound: the longest batch batch_update is given
    MaxPending   \* bound: the most edits staged between two applies

ASSUME
    /\ Times \subseteq Nat
    /\ MaxSize \in Nat /\ MaxBatch \in Nat /\ MaxPending \in Nat

VARIABLES
    expire,      \* expire_: the deadline of every tracked (term, doc)
    changeset,   \* changeset_: the edits staged since the last apply
    index,       \* the published postings: (term, doc) -> weight
    applied      \* history: the argument of the last apply, -1 before it

vars == <<expire, changeset, index, applied>>

-----------------------------------------------------------------------------
(* The key of a posting, in the order the expiration table takes it. *)
Key(term_id, doc_id) == <<term_id, doc_id>>

Keys == {Key(t, d) : t \in Terms, d \in Docs}

(* An EventTuple: <<doc id, term id, weight, expire time>>. *)
EventTuples == Docs \X Terms \X Weights \X Times

Edits == [op : {"upsert"}, key : Keys, weight : Weights] \cup [op : {"remove"}, key : Keys]

PartialFunctions(S, T) == UNION {[D -> T] : D \in SUBSET S}

TypeOK ==
    /\ expire \in PartialFunctions(Keys, Times)
    /\ changeset \in Seq(Edits) /\ Len(changeset) <= MaxPending
    /\ index \in PartialFunctions(Keys, Weights)
    /\ applied \in Times \cup {-1}

-----------------------------------------------------------------------------
(* The operations of the base class and of the table that the methods call *)

(* Mutant: the table is keyed {doc, term}, the edits {term, doc}. *)
update_expire_swapped(tbl, doc_id, term_id, expire_time) ==
    TableUpdate(tbl, Key(doc_id, term_id), expire_time)

(* Mutant: a tracked key keeps the later of its deadlines. *)
update_expire_later(tbl, doc_id, term_id, expire_time) ==
    IF Key(term_id, doc_id) \in DOMAIN tbl /\ tbl[Key(term_id, doc_id)] > expire_time
    THEN tbl
    ELSE TableUpdate(tbl, Key(term_id, doc_id), expire_time)

(* update_expire_internal: expire_.update({term_id, doc_id}, expire_time). *)
update_expire_internal(tbl, doc_id, term_id, expire_time) ==
    TableUpdate(tbl, Key(term_id, doc_id), expire_time)

create_update_internal(cs, doc_id, term_id, weight) ==
    Append(cs, [op |-> "upsert", key |-> Key(term_id, doc_id), weight |-> weight])

remove_internal(cs, doc_id, term_id) ==
    Append(cs, [op |-> "remove", key |-> Key(term_id, doc_id)])

(* One edit applied to the postings: an upsert overwrites, a remove of an *)
(* absent posting does nothing.                                           *)
ApplyEdit(postings, edit) ==
    IF edit.op = "upsert"
    THEN (edit.key :> edit.weight) @@ postings
    ELSE Restrict(postings, DOMAIN postings \ {edit.key})

(* apply_internal: the staged edits in the order they were staged. *)
apply_internal(postings, cs) == FoldLeft(ApplyEdit, postings, cs)

-----------------------------------------------------------------------------
(* The constructor without a loader (it is not in the source tree): an   *)
(* empty index and an empty table.                                       *)
Init ==
    /\ expire = <<>>
    /\ changeset = <<>>
    /\ index = <<>>
    /\ applied = -1

(* update(doc_id, term_id, weights, expire_time).  The code takes the     *)
(* mutex and has no other condition: the guard, here and in batch_update, *)
(* is the bound MaxPending that keeps the changeset finite.               *)
Update(doc_id, term_id, weights, expire_time) ==
    /\ Len(changeset) < MaxPending
    /\ expire' = update_expire_internal(expire, doc_id, term_id, expire_time)
    /\ changeset' = create_update_internal(changeset, doc_id, term_id, weights)
    /\ UNCHANGED <<index, applied>>

(* Mutant: the loop of batch_update walks the batch from its end. *)
BatchUpdateReversed(batch) ==
    /\ Len(changeset) + Len(batch) <= MaxPending
    /\ expire' = FoldRight(LAMBDA tu, tbl : update_expire_internal(tbl, tu[1], tu[2], tu[4]),
                           batch, expire)
    /\ changeset' = FoldRight(LAMBDA tu, cs : create_update_internal(cs, tu[1], tu[2], tu[3]),
                              batch, changeset)
    /\ UNCHANGED <<index, applied>>

(* batch_update(batch): the tuples in order, under one hold of the mutex. *)
BatchUpdate(batch) ==
    /\ Len(changeset) + Len(batch) <= MaxPending
    /\ expire' = FoldLeft(LAMBDA tbl, tu : update_expire_internal(tbl, tu[1], tu[2], tu[4]),
                          expire, batch)
    /\ changeset' = FoldLeft(LAMBDA cs, tu : create_update_internal(cs, tu[1], tu[2], tu[3]),
                             changeset, batch)
    /\ UNCHANGED <<index, applied>>

(* Mutant: the removals are staged ahead of the edits already waiting. *)
StageRemovalsAhead(cs, results) ==
    FoldLeft(LAMBDA acc, item : remove_internal(acc, item[1][2], item[1][1]), <<>>, results) \o cs

(* The removals apply stages: one per expired item, in the order popped, *)
(* behind the edits already waiting.                                      *)
StageRemovals(cs, results) ==
    FoldLeft(LAMBDA acc, item : remove_internal(acc, item[1][2], item[1][1]), cs, results)

(* Mutant: the changeset is published and not cleared. *)
ApplyKeepsChangeset(expire_time) ==
    \E results \in ExpireWithLimit(expire, expire_time, MaxSize) :
        /\ expire' = TableAfter(expire, results)
        /\ index' = apply_internal(index, StageRemovals(changeset, results))
        /\ changeset' = StageRemovals(changeset, results)
        /\ applied' = expire_time

(* Mutant: the changeset is published before the removals are staged, *)
(* which then wait for the next apply.                                *)
ApplyPublishesFirst(expire_time) ==
    \E results \in ExpireWithLimit(expire, expire_time, MaxSize) :
        /\ expire' = TableAfter(expire, results)
        /\ index' = apply_internal(index, changeset)
        /\ changeset' = StageRemovals(<<>>, results)
        /\ applied' = expire_time

(* apply(expire_time): expire the table, stage a removal for every item   *)
(* it gave up, publish the whole changeset and clear it.                  *)
Apply(expire_time) ==
    \E results \in ExpireWithLimit(expire, expire_time, MaxSize) :
        /\ expire' = TableAfter(expire, results)
        /\ index' = apply_internal(index, StageRemovals(changeset, results))
        /\ changeset' = <<>>
        /\ applied' = expire_time

Next ==
    \/ \E tu \in EventTuples : Update(tu[1], tu[2], tu[3], tu[4])
    \/ \E batch \in BoundedSeq(EventTuples, MaxBatch) : BatchUpdate(batch)
    \/ \E time \in Times : Apply(time)

Spec == Init /\ [][Next]_vars

-----------------------------------------------------------------------------
(* Properties *)

(* The keys with an edit waiting in the changeset. *)
PendingKeys == {changeset[i].key : i \in DOMAIN changeset}

(* No posting outlives its deadline: a published posting is tracked by the *)
(* expiration table, and its deadline is later than the time of the last  *)
(* apply unless an edit of it is waiting for the next one.  It is what    *)
(* apply() owes its callers by popping the table and staging the removals *)
(* behind the waiting edits under one hold of the mutex; a posting the    *)
(* table has forgotten would never be removed.                            *)
PostingsHaveDeadline ==
    \A k \in DOMAIN index :
        /\ k \in DOMAIN expire
        /\ expire[k] <= applied => k \in PendingKeys

(* No accepted update is dropped: a key the table tracks is published or  *)
(* has an edit waiting.  update() and batch_update() refresh the table    *)
(* and stage the edit for the same (term, doc), although one takes the    *)
(* key as {term, doc} and the other as (doc, term).                       *)
TrackedIsPostedOrPending ==
    \A k \in DOMAIN expire : k \in DOMAIN index \/ k \in PendingKeys

-----------------------------------------------------------------------------
(* Refinement *)

(* The weight the index has accepted for a tracked key: that of the last *)
(* edit of the key still waiting, or else the published one.             *)
AcceptedWeight(k) ==
    LET last == SelectLastInSeq(changeset, LAMBDA edit : edit.key = k)
    IN  IF last # 0 THEN changeset[last].weight ELSE index[k]

AcceptedStore ==
    [k \in DOMAIN expire |-> [weight |-> AcceptedWeight(k), expire |-> expire[k]]]

Abstract == INSTANCE IndexSpec WITH store <- AcceptedStore, visible <- index

(* The event index implements IndexSpec: update and batch_update accept, *)
(* leaving readers' view alone, and every apply() publishes exactly the  *)
(* last staged weight of each key the table kept, having shed the due    *)
(* keys and then the earliest ones over max_size_.  It ties the order of *)
(* the changeset, the table and the published postings together across  *)
(* any number of updates and applies.                                    *)
ImplementsIndexSpec == Abstract!IndexSpec

=============================================================================
