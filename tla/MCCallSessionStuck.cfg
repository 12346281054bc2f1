\* The provider has refused the audio of a run that the time limit cancels.
CONSTANTS
    NoTask = NoTask
    MaxFaults = 0
    Failures <- SenderFailures
SPECIFICATION Spec
PROPERTY TimeLimitClosesMedia
CHECK_DEADLOCK FALSE
