CONSTANTS
    c1 = c1
    c2 = c2
    c3 = c3
    c4 = c4
    Calls <- ThreeCalls
    MaxInstances = 2
    MaxFailures = 0
SPECIFICATION Spec
INVARIANT EachRecordEmbedsPrevious
CHECK_DEADLOCK FALSE
