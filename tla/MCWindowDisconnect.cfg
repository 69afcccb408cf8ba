\* A Disconnect that meets a result.
SPECIFICATION Spec
CONSTANTS
    Ids = {1, 2}
    Bodies <- MCBodies
    SessionBodies <- MCSessionBodies
    Endpoint <- MCEndpoint
    Redis = {2}
    Capacity = 2
    Scenarios <- DisconnectScenarios
CHECK_DEADLOCK FALSE
INVARIANT ConnectedIsCached
