CONSTANTS
    FrameSamples = 2
    MaxSamples = 5
    MaxTime = 3
    Prompt = FALSE
SPECIFICATION Spec
INVARIANTS TypeOK SpokenInOrder InterruptSilences
PROPERTY TrackEnds
\* A track that is closed and a sender that has stopped take no further step.
CHECK_DEADLOCK FALSE
