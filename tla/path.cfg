CONSTANTS
    Texts <- SomeTexts
    RuleLists <- SomeRuleLists
    RoleSets <- SomeRoleSets
    Wide <- WideChar
    Lower <- LowerCase
    Within <- Parts
    Ends <- Endings
    RegionMaps <- SomeMaps
    Regions <- SomeRegions
    MaxUpdates = 2
    HoldsOperator <- Operators
    EndsInOrder <- Orders
    StartsWithBy <- Bys
    VectorNodes <- SomeVectorNodes
SPECIFICATION PathSpec
INVARIANTS
    PathTypeOK
    MaskedAtOnce
    SecondPassIdle
    TrapsOnWideOnly
    MaskKeepsVectorRoute
    AnswerOfAMoment
    AnswerIsGrounded
CHECK_DEADLOCK FALSE
