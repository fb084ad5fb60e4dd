SPECIFICATION Spec
CONSTANTS
    SpaceNames <- MCSpaceNames
    SpaceIds <- MCSpaceIds
    FeatureKeys <- MCFeatureKeys
    Parts <- MCParts
    Creatable <- MCCreatable
    IntegerOf <- MCIntegerOf
    HashOf <- MCHashOf
INVARIANT
    ReturnedKeyIsKeyAsked
CHECK_DEADLOCK TRUE
