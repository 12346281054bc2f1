\* The provider pauses for longer than a frame and then goes on.
CONSTANTS
    FrameSamples = 1
    MaxSamples = 3
    MaxTime = 3
    Prompt = TRUE
SPECIFICATION Spec
INVARIANT Paced
CHECK_DEADLOCK FALSE
