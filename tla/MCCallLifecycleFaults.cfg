\* One failed post is enough for a second delivery.
CONSTANTS
    ws = ws
    runtime = runtime
    limit = limit
    NoTask = NoTask
    Tasks <- MCTasks
    CallReasons <- MCReasons
    MaxFaults = 1
SPECIFICATION Spec
INVARIANT DeliveredAtMostOnce
