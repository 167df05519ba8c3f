SPECIFICATION ProcessSpec
CONSTANT MaxServers = 3
CHECK_DEADLOCK FALSE
INVARIANTS
    ProcessTypeOK
    WaitGroupExact
    CleanExit
PROPERTIES
    RestartFreesPort
    ServerFailureEndsProcess
