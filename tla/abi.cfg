CONSTANTS
    Half = 64
    BumpStart = 8
    ProgramStart = 28
    Page = 8
    InitSize = 32
    MaxSize = 56
SPECIFICATION Spec
INVARIANTS
    TypeOK
    SlotsInv
    ArgsIntact
    ResultIntact
    NoneIsEmpty
    RoomSuffices
