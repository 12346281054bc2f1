CONSTANTS
    Sessions = {p1, p2}
    First = p1
    Segments <- SomeSegments
    ForbiddenTopics <- Topics
    MaxSegments = 2
    MaxChunks = 2
    MaxPieces = 1
    Settings <- SomeSettings
    RawEvents <- SomeRawEvents
    MaxEvents = 1
SPECIFICATION MCSpec
INVARIANTS TypeOK RunsAreExclusive ReturnedIsComplete TranscriptsMatchSpeech
PROPERTIES SplitEvaluationEnds
\* Evaluations end.
CHECK_DEADLOCK FALSE
