CONSTANTS
    AuthServices = {"EIM"}
    Vehicles = {v1}
    Values = {x1, x2}
    NoCert = NoCert
    NoValue = NoValue
    NoMessage = NoMessage
    SEQUENCE_MS = 1
    ONGOING_MS = 1
    EIM_ONGOING_MS = 1
    CONTACTOR_MS = 1
    CLOSE_MS = 1
    MaxLag = 0
    MaxOutstanding = 2
    MaxQueue = 1
    EvRequests <- OverlapRequests
    AppEvents <- OverlapEvents
    PauseContexts <- StoredAc
    InitialServices <- DcOnly
    Certs <- TlsOnly
    Unencodable = {}
SPECIFICATION Spec
INVARIANTS
    LatestParameters
    HealthyAnswersInOrder
    ContactorTimerScoped
