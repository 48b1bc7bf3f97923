\* Seven configurations, twenty-three calls, three runs of hardhat.
SPECIFICATION FairSpec
CONSTANTS
    Configs <- MCConfigs
    Requests <- MCRequests
    Outputs <- MCOutputs
INVARIANTS BuiltIsValid EventsArrive CompletionAddsUp
PROPERTIES StreamEnds
CHECK_DEADLOCK FALSE
