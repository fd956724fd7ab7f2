CONSTANTS
    Cards = {a, b}
    NoCard = nocard
    Junk = {0, 7}
    MaxMoves = 3
    MaxFaults = 2
    MaxFails = 2
SPECIFICATION Spec
PROPERTY SteadyCardStays
PROPERTY ReportIsTrue
PROPERTY GoneCardIsDropped
PROPERTY OtherTimersRun
CHECK_DEADLOCK FALSE
