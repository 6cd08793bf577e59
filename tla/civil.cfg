CONSTANT Inputs <- SomeSeconds
SPECIFICATION Spec
INVARIANTS
    TypeOK
    LoopInv
    Correct
PROPERTY Terminates
CHECK_DEADLOCK FALSE
