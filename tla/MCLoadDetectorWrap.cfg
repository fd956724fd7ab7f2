CONSTANTS
    N = 4
    W = 3
    Ratio = 60
    TickMod = 8
    OldTicks = {0}
    MaxTime = 12
    MaxPulses = 4
SPECIFICATION DetectorSpec
INVARIANT OnNeedsPulses
CHECK_DEADLOCK FALSE
