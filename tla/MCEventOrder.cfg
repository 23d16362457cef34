SPECIFICATION PipelineSpec
CONSTANTS
    Session = {"s1"}
    Request = {"r1"}
    Provider = {}
    MaxTime = 0
    Missing = Missing
    MaxSessions = 1
    MaxMessagesPerSession = 1
    Directory = "here"
    Workloads <- OrderWorkloads
PROPERTY HeartbeatsFollowHost
CHECK_DEADLOCK FALSE
