\* Every call ends after a while: the end of the run is not a deadlock.
CONSTANTS
    step1 = step1
    tool1 = tool1
    step2 = step2
    tool2 = tool2
    files = files
    idle = idle
    NoCall = NoCall
    Calls <- MCCalls
    Owner <- MCOwner
    Outer <- MCOuter
    Wants <- MCWants
SPECIFICATION Spec
INVARIANTS Exclusion WaitsForAnother
PROPERTY WaitsEnd
CHECK_DEADLOCK FALSE
