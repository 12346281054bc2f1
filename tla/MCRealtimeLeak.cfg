\* Nothing raises: the run completes and is then cancelled.
CONSTANTS
    Failures <- NoFailures
    MaxFrames = 0
SPECIFICATION AudioSpec
INVARIANT ConnectionReleased
CHECK_DEADLOCK FALSE
