CONSTANTS
    Failures <- AllFailures
    MaxFrames = 3
SPECIFICATION AudioSpec
INVARIANTS AudioTypeOK SenderInsideConnection LeakIsExplained CancelledNeverCompletes
           NothingLost ForwardedInOrder
PROPERTIES CancelledEnds AbandonedEnds
\* A run that ended, or a provider that stays silent, takes no further step.
CHECK_DEADLOCK FALSE
