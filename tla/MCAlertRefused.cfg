SPECIFICATION Spec
CONSTANTS
    a1 = a1
    a2 = a2
    a3 = a3
    g1 = g1
    g2 = g2
    h1 = h1
    h2 = h2
    loop = loop
    manual = manual
    NoRow = NoRow
    Alert <- MCAlert
    Level <- MCLevel
    Group = {g1, g2}
    GroupOf <- MCTwoGroups
    Policy = {p1}
    PolicyPayload <- MCPolicies
    SyncTask = {loop}
    Process = {1, 2}
    ProcessOf <- MCOneTask
    Handler = {h1}
    GroupInput = {"new", "suppressed"}
    IncidentInput = {"closed", "unset"}
    SeverityInput = {0, 1}
    MinRuleLevel = 12
    RepetitionThreshold = 2
    BatchSize = 2
    Concurrency = 1
    MaxIncidents = 2
INVARIANTS
    RefusedOnlyWhileIncidentOpen
