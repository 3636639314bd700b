CONSTANTS
    AuthServices = {"EIM"}
    Vehicles = {v1}
    Values = {x1}
    NoCert = NoCert
    NoValue = NoValue
    NoMessage = NoMessage
    SEQUENCE_MS = 4
    ONGOING_MS = 3
    EIM_ONGOING_MS = 5
    CONTACTOR_MS = 1
    CLOSE_MS = 2
    MaxLag = 1
    MaxOutstanding = 1
    MaxQueue = 1
    EvRequests <- DcRequests
    AppEvents <- DcEvents
    PauseContexts <- Unset
    InitialServices <- DcOnly
    Certs <- Plain
    Unencodable = {}
SPECIFICATION Spec
INVARIANTS
    AnsweredIsHandled
