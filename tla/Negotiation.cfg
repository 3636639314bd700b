SPECIFICATION Spec
CONSTANTS
    Setups <- SetupSet
    VasServices <- VasServiceSet
    VasReplies <- VasReplySet
    CustomResults <- CustomResultSet
    SelectionRequests <- SelectionSet
    MaxDetails = 3
INVARIANTS
    SelectedAsTold
    PreflightDecides
    LoopAgreesWithCpd
    DerDataComplete
CHECK_DEADLOCK FALSE
