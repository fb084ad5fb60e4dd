---------------------------- MODULE FeatureCache ----------------------------
(***************************************************************************)
(* FeatureCache (src/main/model/feature_cache.cc): the table of feature   *)
(* spaces by name and the table of Feature objects by FeatureId, filled   *)
(* on demand by create_or_get_feature.                                    *)
(*                                                                         *)
(* A Feature is handed out as a shared pointer; `obj` is the identity of  *)
(* the object pointed to.  create_space and FeatureSpace are not in the   *)
(* source tree: CreateSpace is written from test_create_feature_space     *)
(* (a second space of a name replaces the first), calculate_feature_id    *)
(* from test_create_feature (an id is the id of the space and a part; an  *)
(* integer space takes the part from the digits of the key and has no id  *)
(* for other keys, a string space hashes the key).                        *)
(***************************************************************************)
EXTENDS Integers, FiniteSets, TLC

CONSTANTS
    SpaceNames,    \* the names spaces are created under
    SpaceIds,      \* the ids spaces are created with
    FeatureKeys,   \* the feature keys asked for
    Parts,         \* the within-space parts of a FeatureId
    Creatable,     \* the spaces create_space is called for
    IntegerOf,     \* key -> the part an integer space gives it, or NoPart
    HashOf         \* key -> the part a string space gives it

NoPart == 0
kInvalidId == <<0, NoPart>>
nullptr == [obj |-> 0]
NoKey == ""

ASSUME
    /\ Parts \subseteq Nat \ {NoPart} /\ SpaceIds \subseteq Nat \ {0}
    /\ Creatable \subseteq [name : SpaceNames, id : SpaceIds, type : {"kInteger", "kString"}]
    /\ IntegerOf \in [FeatureKeys -> Parts \cup {NoPart}]
    /\ HashOf \in [FeatureKeys -> Parts]

VARIABLES
    spaces_,     \* space name -> FeatureSpace
    features_,   \* FeatureId -> Feature
    handles,     \* the FeatureSpace pointers callers hold
    created,     \* the Feature objects made so far
    asked,       \* history: the key the last create_or_get_feature was given
    result       \* what that call returned

vars == <<spaces_, features_, handles, created, asked, result>>

FeatureIds == SpaceIds \X Parts
FeatureSpaces == [name : SpaceNames, id : SpaceIds, type : {"kInteger", "kString"}]
Features == [key : FeatureKeys, id : FeatureIds, obj : Nat \ {0}]

TypeOK ==
    /\ DOMAIN spaces_ \subseteq SpaceNames
    /\ \A name \in DOMAIN spaces_ : spaces_[name] \in FeatureSpaces /\ spaces_[name].name = name
    /\ DOMAIN features_ \subseteq FeatureIds
    /\ \A id \in DOMAIN features_ : features_[id] \in Features
    /\ handles \subseteq FeatureSpaces
    /\ created \in Nat
    /\ asked \in FeatureKeys \cup {NoKey}
    /\ result \in Features \cup {nullptr}

Init ==
    /\ spaces_ = <<>>
    /\ features_ = <<>>
    /\ handles = {}
    /\ created = 0
    /\ asked = NoKey
    /\ result = nullptr

-----------------------------------------------------------------------------
calculate_feature_id(space, feature_key) ==
    LET part == IF space.type = "kInteger" THEN IntegerOf[feature_key] ELSE HashOf[feature_key]
    IN  IF part = NoPart THEN kInvalidId ELSE <<space.id, part>>

(* create_space(name, id, type): the space is stored under its name, in   *)
(* place of an older one, and returned.                                    *)
CreateSpace(space) ==
    /\ spaces_' = (space.name :> space) @@ spaces_
    /\ handles' = handles \cup {space}
    /\ UNCHANGED <<features_, created, asked, result>>

(* std::make_shared<Feature>(feature_key, id): an object not seen before. *)
NewFeature(feature_key, id) == [key |-> feature_key, id |-> id, obj |-> created + 1]

(* `return feature`, leaving `cache` as features_. *)
Return(feature, cache) ==
    /\ result' = feature
    /\ features_' = cache
    /\ created' = IF feature.obj > created THEN created + 1 ELSE created

(* Mutant: an id the space cannot compute is cached like any other. *)
IsInvalidNever(id) == FALSE

(* `id == FeatureSpace::kInvalidId` *)
IsInvalid(id) == id = kInvalidId

(* Mutant: a Feature is made for every call and stored over the old one. *)
IsCachedNever(id) == FALSE

(* `features_.find(id) != features_.end()` *)
IsCached(id) == id \in DOMAIN features_

(* Mutant: a new Feature is returned and not cached. *)
InsertForgotten(id, feature) == features_

(* `features_[id] = feature` *)
Insert(id, feature) == (id :> feature) @@ features_

(* create_or_get_feature(feature_key, space): nullptr for a key without   *)
(* id, the cached Feature of the id if there is one, else a new Feature   *)
(* that is cached and returned.                                            *)
GetBySpace(feature_key, space) ==
    LET id == calculate_feature_id(space, feature_key)
        feature == NewFeature(feature_key, id)
    IN  /\ asked' = feature_key
        /\ \/ IsInvalid(id) /\ Return(nullptr, features_)
           \/ ~IsInvalid(id) /\ IsCached(id) /\ Return(features_[id], features_)
           \/ ~IsInvalid(id) /\ ~IsCached(id) /\ Return(feature, Insert(id, feature))

(* create_or_get_feature(feature_key, space_name): nullptr for an unknown *)
(* name, else the call above with the space of that name.                  *)
GetByName(feature_key, space_name) ==
    \/ space_name \notin DOMAIN spaces_ /\ asked' = feature_key /\ Return(nullptr, features_)
    \/ space_name \in DOMAIN spaces_ /\ GetBySpace(feature_key, spaces_[space_name])

Next ==
    \/ \E space \in Creatable : CreateSpace(space)
    \/ \E key \in FeatureKeys, space \in handles :
           GetBySpace(key, space) /\ UNCHANGED <<spaces_, handles>>
    \/ \E key \in FeatureKeys, name \in SpaceNames :
           GetByName(key, name) /\ UNCHANGED <<spaces_, handles>>

Spec == Init /\ [][Next]_vars

-----------------------------------------------------------------------------
(* Properties *)

(* One Feature object per FeatureId, for the life of the cache: a Feature *)
(* that create_or_get_feature has cached is never replaced or dropped, so *)
(* every caller that asks for an id, by space or by name, before or after *)
(* a space was replaced, holds the same object (f3 == f4 in               *)
(* test_get_feature).                                                      *)
OneFeaturePerId ==
    [][\A id \in DOMAIN features_ :
           id \in DOMAIN features_' /\ features_'[id] = features_[id]]_vars

(* What a caller gets is what the cache holds: a Feature returned is the  *)
(* cached Feature of its own id, and no two ids share an object.          *)
ResultIsCached ==
    /\ result # nullptr => result.id \in DOMAIN features_ /\ features_[result.id] = result
    /\ \A id \in DOMAIN features_ : features_[id].id = id
    /\ \A i, j \in DOMAIN features_ : features_[i].obj = features_[j].obj => i = j

(* A Feature returned carries the key it was asked for, as the unit tests *)
(* assert of every Feature they get (`f4->get_key()` is "222" in          *)
(* test_get_feature, where f4 comes from the cache).  The cached branch   *)
(* of create_or_get_feature returns the Feature of the id without         *)
(* looking at feature_key.                                                *)
ReturnedKeyIsKeyAsked == result # nullptr => result.key = asked

=============================================================================
