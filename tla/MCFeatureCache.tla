--------------------------- MODULE MCFeatureCache ---------------------------
(***************************************************************************)
(* FeatureCache for TLC: an integer space "A", a string space that takes  *)
(* its place, a string space "B" with the id of the first, and three      *)
(* keys.  "7" and "07" are the same integer and "xy" is none; the hash    *)
(* sends "07" and "xy" to one part and "7" to the part the integer space  *)
(* gives it, so that keys collide within a space and between spaces.      *)
(***************************************************************************)
EXTENDS FeatureCache

MCSpaceNames == {"A", "B"}
MCSpaceIds == {1, 2}
MCFeatureKeys == {"7", "07", "xy"}
MCParts == {7, 8}
MCCreatable ==
    {[name |-> "A", id |-> 1, type |-> "kInteger"],
     [name |-> "A", id |-> 2, type |-> "kString"],
     [name |-> "B", id |-> 1, type |-> "kString"]}
MCIntegerOf == [key \in MCFeatureKeys |-> IF key = "xy" THEN NoPart ELSE 7]
MCHashOf == [key \in MCFeatureKeys |-> IF key = "7" THEN 7 ELSE 8]

=============================================================================
