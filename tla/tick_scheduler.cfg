CONSTANTS
    D = 10
    MaxCatchup = 2
    Policies = {"Skip", "CatchUp", "Drop"}
    Jitter = 3
    Delays = {1, 9, 35}
    MaxTime = 64
    None = None
SPECIFICATION TickSpec
INVARIANTS TickTypeOK NeverAhead
PROPERTIES NoBurst DebtIsCapped SkipsCounted
