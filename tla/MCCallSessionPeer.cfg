\* Nothing fails: a hangup while the time limit closes the peer connection.
CONSTANTS
    NoTask = NoTask
    MaxFaults = 0
    Failures <- NoFailures
SPECIFICATION Spec
INVARIANT PeerReleased
CHECK_DEADLOCK FALSE
