SPECIFICATION IngestSpec
CONSTANTS
    MaxEvents = 2
    Pushed = {1}
    Socket = {s1}
    Device = {d1}
    MaxTokens = 2
    MaxRetries = 1
    MaxCommitted = 1
INVARIANTS IngestTypeOK
PROPERTIES ConnectedClientsHaveIt RepeatsExcused NothingHangs AtLeastOnce
