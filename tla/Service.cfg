SPECIFICATION Spec
CONSTANTS
    Requests = {q, r}
    Clients = {x}
    Workers = {w}
    Loop = Loop
    Sizes = {1, 3}
    MaxPayload = 2
    Findings <- Replies
    QueueSize = 1
    MaxResults = 16
    None = None
INVARIANTS
    RepliesPacked
PROPERTIES
    SearchesAnswered
    LoopReturns
    ServiceEnds
CHECK_DEADLOCK FALSE
