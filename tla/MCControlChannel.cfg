SPECIFICATION FairSpec
CONSTANTS
    CommandCapacity = 2
    EventCapacity = 1
    FerryCapacity = 1
    MaxHandles = 2
    MaxRequests = 2
    Asks = {"plain", "after"}
CHECK_DEADLOCK FALSE
INVARIANTS RepliesFindTheirRequest
PROPERTIES RequestsInOrder EventsInOrder ActorFinishes
