CONSTANTS
    AuthServices = {"EIM"}
    Vehicles = {v1, v2}
    Values = {x1}
    NoCert = NoCert
    NoValue = NoValue
    NoMessage = NoMessage
    SEQUENCE_MS = 1
    ONGOING_MS = 1
    EIM_ONGOING_MS = 1
    CONTACTOR_MS = 1
    CLOSE_MS = 1
    MaxLag = 0
    MaxOutstanding = 1
    MaxQueue = 1
    EvRequests <- VisitRequests
    AppEvents <- VisitEvents
    PauseContexts <- Unset
    InitialServices <- AcAndVas
    Certs <- TlsOrPlain
    Unencodable = {"ServiceDiscoveryReq"}
    Updates <- ToDc
    MaxSessions = 3
SPECIFICATION TbdSpec
SYMMETRY VehicleSymmetry
INVARIANTS
    ServiceAgreed
    PauseContextOwn
    FailureEndsSession
    ResumedAsPaused
PROPERTIES
    EverySessionKeepsPromise
