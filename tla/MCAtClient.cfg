CONSTANTS
    main = main
    tshell = tshell
    Callers <- MCCallers
    None = none
    MaxCalls <- MCMaxCalls
    MaxTries = 2
    MaxData = 1
    Cap = 1
SPECIFICATION Spec
INVARIANT TypeOK
INVARIANT RespIsOfLockHolder
INVARIANT WildWriteNeedsTimeout
INVARIANT CleanExecIsExact
INVARIANT TokensComeFromTimeouts
PROPERTY ImplementsChannel
CHECK_DEADLOCK FALSE
