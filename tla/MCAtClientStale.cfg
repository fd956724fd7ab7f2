CONSTANTS
    main = main
    tshell = tshell
    Callers <- MCCallers
    None = none
    MaxCalls <- MCMaxCalls
    MaxTries = 2
    MaxData = 1
    Cap = 1
SPECIFICATION Spec
INVARIANT SuccessMeansAnswered
CHECK_DEADLOCK FALSE
