CONSTANTS
    AuthServices = {"EIM"}
    Vehicles = {v1}
    Values = {x1}
    NoCert = NoCert
    NoValue = NoValue
    NoMessage = NoMessage
    SEQUENCE_MS = 1
    ONGOING_MS = 1
    EIM_ONGOING_MS = 1
    CONTACTOR_MS = 1
    CLOSE_MS = 1
    MaxLag = 0
    MaxOutstanding = 2
    MaxQueue = 1
    EvRequests <- ShortRequests
    AppEvents <- VisitEvents
    PauseContexts <- Unset
    InitialServices <- AcOnly
    Certs <- TlsOnly
    Unencodable = {}
    Updates <- AcOrDc
    MaxSessions = 2
SPECIFICATION FairTbdSpec
PROPERTIES
    ControllerFreed
