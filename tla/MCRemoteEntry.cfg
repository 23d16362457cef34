SPECIFICATION EntrySpec
CONSTANTS
    Req = {q1, q2}
    Session = {s1}
    Setups <- MCSetups
    Limits <- MCLimits
    MaxStale = 1
INVARIANTS EntryTypeOK EntryFollowsSessions DownMeansDown
PROPERTIES EntryComesUp UpstreamCancelled
CHECK_DEADLOCK FALSE
