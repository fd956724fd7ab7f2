CONSTANTS
    main = main
    tshell = tshell
    slot0 = slot0
    Callers <- MCCallers
    Slots = {slot0}
    None = none
    MaxMakes <- MCMaxMakes
    MaxCmds = 2
SPECIFICATION MqttSpec
INVARIANT ResultIsOwn
INVARIANT MessagesGoHome
CHECK_DEADLOCK FALSE
