CONSTANTS
    main = main
    tshell = tshell
    low = low
    Basic = Basic
    Http = Http
    Mqtt = Mqtt
    Makers <- MCMakers
    Types <- MCTypes
    Silent = {Basic}
    Nobody = nobody
    MaxMade = 3
SPECIFICATION Spec
INVARIANT WalkNeedsQuiet
INVARIANT OneInstancePerTurn
INVARIANT UrcsAddedOnce
SYMMETRY MCSymmetry
CHECK_DEADLOCK FALSE
