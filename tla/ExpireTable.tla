---------------------------- MODULE ExpireTable ----------------------------
(***************************************************************************)
(* The expiration table `expire_` of BaseEventIndex: one deadline per     *)
(* (term, doc) key, with a minimum-deadline view that drives eviction.    *)
(* The class is not part of the source tree; its operations are written   *)
(* from the design text (section 4.2) and from the way                     *)
(* base_event_index-inl.h calls them.  A table is a function from the     *)
(* tracked keys to their deadlines; the heap and its handle map are the   *)
(* representation, left out.                                              *)
(***************************************************************************)
EXTENDS Integers, FiniteSets, Sequences, Functions

(* update(key, expire_time): idempotent, replaces any prior deadline. *)
TableUpdate(tbl, key, time) ==
    [k \in DOMAIN tbl \cup {key} |-> IF k = key THEN time ELSE tbl[k]]

(* size(): the number of tracked pairs. *)
TableSize(tbl) == Cardinality(DOMAIN tbl)

(* The keys at the top of the heap: those no other key precedes.  Which  *)
(* of several keys with the same deadline the heap yields first is not    *)
(* fixed by the design, so every one of them may be the next popped.      *)
Earliest(tbl) == {k \in DOMAIN tbl : \A j \in DOMAIN tbl : tbl[k] <= tbl[j]}

(* Whether the pop loop takes one more entry: the top is due, or the      *)
(* table is still over its capacity.                                      *)
MustPop(tbl, now, limit) ==
    /\ DOMAIN tbl # {}
    /\ \/ \E k \in Earliest(tbl) : tbl[k] <= now
       \/ TableSize(tbl) > limit

(* expire_with_limit(now, limit): pops the earliest entry while it is due *)
(* or the table holds more than `limit` pairs.  The value is the set of   *)
(* result vectors the call can return, each a sequence of <<key, time>>   *)
(* in the order popped.                                                   *)
RECURSIVE ExpireWithLimit(_, _, _)
ExpireWithLimit(tbl, now, limit) ==
    IF ~MustPop(tbl, now, limit) THEN {<<>>}
    ELSE UNION {{<<<<k, tbl[k]>>>> \o rest :
                    rest \in ExpireWithLimit(Restrict(tbl, DOMAIN tbl \ {k}), now, limit)} :
                k \in Earliest(tbl)}

(* The keys of a result vector, and the table the call leaves behind. *)
PoppedKeys(results) == {results[i][1] : i \in DOMAIN results}

TableAfter(tbl, results) == Restrict(tbl, DOMAIN tbl \ PoppedKeys(results))

=============================================================================
