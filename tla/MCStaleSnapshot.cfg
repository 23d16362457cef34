SPECIFICATION ControlSpec
CONSTANTS
    Question = {q1}
    Permission = {p1}
    MaxOutcomes = 1
    Budgets <- StaleBudgets
    Session = {}
    Limit = 1
    MaxBookmarks = 1
INVARIANT StaleIsResolved
