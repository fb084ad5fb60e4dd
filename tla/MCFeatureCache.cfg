SPECIFICATION Spec
CONSTANTS
    SpaceNames <- MCSpaceNames
    SpaceIds <- MCSpaceIds
    FeatureKeys <- MCFeatureKeys
    Parts <- MCParts
    Creatable <- MCCreatable
    IntegerOf <- MCIntegerOf
    HashOf <- MCHashOf
INVARIANTS
    TypeOK
    ResultIsCached
PROPERTIES
    OneFeaturePerId
CHECK_DEADLOCK TRUE
