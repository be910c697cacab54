SPECIFICATION FairSpec
CONSTANTS
    Nothing = Nothing
    Replicas = {"p", "q"}
    Streams = {"s"}
    Publishers = {"a", "b"}
    Home <- TheHome
    Serving = {"p"}
    Tenants = {"own"}
    Own = "own"
    Provider = "own"
    OutboxSize = 1
    QueueSize = 1
    HistorySize = 2
    ReplaySize = 1
    MaxEvents = 2
    MaxChanges = 1
INVARIANT OnceInOrder
PROPERTY ReachesStreams
CHECK_DEADLOCK FALSE
