SPECIFICATION FairSpec
CONSTANTS
    Session = {s1}
    Request = {r1}
    Provider = {p1, p2}
    MaxTime = 2
INVARIANTS TypeOK RoundInv
PROPERTIES OneTerminalPerRound ElapsedIsWorkingTime ResolvedWasAnnounced TimersServe
