CONSTANTS
    main = main
    tshell = tshell
    slot0 = slot0
    Callers <- MCCallers
    Slots = {slot0}
    NoFlow = noflow
    MaxSends <- MCMaxSends
    Lines = 2
    MaxCmds = 2
SPECIFICATION Spec
INVARIANT OneFlowPerSlot
INVARIANT ResponseIsWhole
INVARIANT LeftoverNeedsFailure
PROPERTY SendEnds
CHECK_DEADLOCK FALSE
