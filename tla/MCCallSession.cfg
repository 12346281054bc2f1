\* One call with every failure of the provider and one failing post.
CONSTANTS
    NoTask = NoTask
    MaxFaults = 1
    Failures <- AllFailures
SPECIFICATION Spec
INVARIANTS TypeOK NoPostCancelled ReportedBeforeTeardown MutualAwaitIsExplained
           HandlerLeavesNothing PeerLeakIsExplained
PROPERTIES ReturnedHandlerEndsCall AnsweredIsReported UsesLifecycle UsesRuntime
\* A call that has ended takes no further step.
CHECK_DEADLOCK FALSE
