SPECIFICATION FairSpec
CONSTANTS
    Process = {p1, p2}
    Batch = 1
    Overlap = 1
    Lookback = 1
    IndexDelay = 0
    SyncTime = 1
    MaxAlerts = 2
    MaxTime = 2
    Past <- MCPast
    None = None
INVARIANTS
    TypeOK
    CounterNeverAhead
PROPERTIES
    IntakeSpec
    EveryAlertSettled
    ConnectsAgain
