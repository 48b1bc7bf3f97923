\* A deployment reported as completed although its process was killed.
SPECIFICATION Spec
CONSTANTS
    Configs <- MCConfigs
    Requests <- MCRequests
    Outputs <- MCOutputs
INVARIANT CompletedMeansDeployed
CHECK_DEADLOCK FALSE
