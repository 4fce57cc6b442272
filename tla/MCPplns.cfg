SPECIFICATION Spec
CONSTANTS
    Workers = {1, 2}
    Window = 2
    BankBuckets = 2
    BankWorkersMax = 2
    SaveEvery = 2
    Horizons = {2, 4}
    Pots = {1, 3}
    Starts = {1}
    MaxTime = 5
    Budgets <- MCBudgets
INVARIANTS
    LedgerShape
    EveryUnitOnce
    PlanSound
PROPERTIES
    BurstErasesNothing
    RestartKeepsCredit
CHECK_DEADLOCK FALSE
