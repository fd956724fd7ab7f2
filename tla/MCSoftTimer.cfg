CONSTANTS
    lodet = lodet
    once = once
    Timers <- MCTimers
    Period <- MCPeriod
    OneShot = {once}
    Users <- MCUsers
    Mod = 10
    MaxLag = 1
    NoTimer = none
SPECIFICATION Spec
INVARIANT SleepsUntilDue
INVARIANT NeverEarly
INVARIANT RunningIsListed
INVARIANT TornNeedsLateUser
PROPERTY IsCalled
