CONSTANTS
    main = main
    tshell = tshell
    Http = Http
    MqttFactory = MqttFactory
    Other = Other
    Adders = {main, tshell}
    Types = {Http, MqttFactory, Other}
    Urcs <- MCUrcs
    Nothing = nothing
    Junk = junk
    Lines <- MCLines
SPECIFICATION Spec
INVARIANT TornNeedsCause
INVARIANT AddedIsListed
INVARIANT FieldsFindParameters
