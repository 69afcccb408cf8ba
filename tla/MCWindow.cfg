\* Every button for few operations, longer connections, overtaken statements, refused deletions, and prompts.
SPECIFICATION Spec
CONSTANTS
    Ids = {1, 2}
    Bodies <- MCBodies
    SessionBodies <- MCSessionBodies
    Endpoint <- MCEndpoint
    Redis = {2}
    Capacity = 2
    Scenarios <- MCScenarios
CHECK_DEADLOCK FALSE
INVARIANTS
    TypeOK
    ConnectedBelongsToActive
    PendingIsAnswered
    GenerationsSound
