CONSTANTS
    ws = ws
    runtime = runtime
    limit = limit
    NoTask = NoTask
    Tasks <- MCTasks
    CallReasons <- MCReasons
    MaxFaults = 2
SPECIFICATION Spec
INVARIANTS TypeOK OneSendAtATime AckedIsFinal QueueIsWaiting StatusNeverRegresses
PROPERTIES FinishedIsSilent FinishReturns ImplementsReport
