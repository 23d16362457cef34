SPECIFICATION PipelineSpec
CONSTANTS
    Session = {"s1", "s2"}
    Request = {"r1"}
    Provider = {"p1"}
    MaxTime = 0
    Missing = Missing
    MaxSessions = 1
    MaxMessagesPerSession = 2
    Directory = "here"
    Workloads <- MCWorkloads
INVARIANT PipelineInv
PROPERTIES ShutdownSettlesDebounce OnlyMainSessionsEmit CacheServes CallsResolve
CHECK_DEADLOCK FALSE
