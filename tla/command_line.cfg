\* Five configurations of three services, and one service of another one.
CONSTANTS
    db = db api = api app = app
    Services = {db, api, app}
    Names = {db, api, app, other}
    other = other
    Configurations <- MCConfigurations
SPECIFICATION FairSpec
INVARIANT DependenciesFirst
INVARIANT ReferencesResolve
INVARIANT DependentsFirst
PROPERTY CommandEnds
INVARIANT OkMeansDone
CHECK_DEADLOCK FALSE
