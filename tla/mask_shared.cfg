CONSTANTS
    Texts <- SomeTexts
    RuleLists <- SharedRuleLists
    RoleSets <- SomeRoleSets
    Wide <- WideChar
    Lower <- LowerCase
    Within <- Parts
    Ends <- Endings
    RegionMaps <- SomeMaps
    Regions <- SomeRegions
    MaxUpdates = 2
    HoldsOperator <- Operators
    EndsInOrder <- Orders
    StartsWithBy <- Bys
    VectorNodes <- SomeVectorNodes
SPECIFICATION PathSpec
INVARIANT EveryRuleMasks
CHECK_DEADLOCK FALSE
