CONSTANTS
    AuthServices = {"EIM"}
    Vehicles = {v1}
    Values = {x1}
    NoCert = NoCert
    NoValue = NoValue
    NoMessage = NoMessage
    SEQUENCE_MS = 1
    ONGOING_MS = 1
    EIM_ONGOING_MS = 1
    CONTACTOR_MS = 1
    CLOSE_MS = 1
    MaxLag = 0
    MaxOutstanding = 1
    MaxQueue = 1
    EvRequests <- ShortRequests
    AppEvents <- VisitEvents
    PauseContexts <- Unset
    InitialServices <- AcOnly
    Certs <- TlsOnly
    Unencodable = {}
    Updates <- AcStays
    MaxSessions = 2
SPECIFICATION TbdSpec
PROPERTIES
    DlinkBeforeDestruction
