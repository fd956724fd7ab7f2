CONSTANTS
    N = 4
    W = 3
    Ratio = 60
    TickMod = 2147483647
    OldTicks = {0, 3}
    MaxTime = 6
    MaxPulses = 7
SPECIFICATION DetectorSpec
INVARIANT OnNeedsPulses
INVARIANT MissedAtMostOnce
CHECK_DEADLOCK FALSE
