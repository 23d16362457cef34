SPECIFICATION ControlSpec
CONSTANTS
    Question = {q1}
    Permission = {p1}
    MaxOutcomes = 1
    Budgets <- MCBudgets
    Session = {s1, s2}
    Limit = 1
    MaxBookmarks = 1
INVARIANTS InteractionTypeOK OutcomesTruthful CatalogTruthful
PROPERTIES OutcomesFinal RequestsEnd
