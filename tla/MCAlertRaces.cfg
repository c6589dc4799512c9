SPECIFICATION Spec
CONSTANTS
    a1 = a1
    a2 = a2
    a3 = a3
    g1 = g1
    g2 = g2
    h1 = h1
    h2 = h2
    loop = loop
    manual = manual
    NoRow = NoRow
    Alert <- MCAlert
    Level <- MCLevel
    Group = {g1}
    GroupOf <- MCOneGroup
    Policy = {p1}
    PolicyPayload <- MCSuppression
    SyncTask = {loop, manual}
    Process = {1, 2}
    ProcessOf <- MCSameProcess
    Handler = {h1}
    GroupInput = {"new", "suppressed"}
    IncidentInput = {"closed"}
    SeverityInput = {0}
    MinRuleLevel = 12
    RepetitionThreshold = 2
    BatchSize = 1
    Concurrency = 2
    MaxIncidents = 2
INVARIANTS
    GroupSummarisesItsAlerts
    IncidentNeverAhead
PROPERTIES
    IncidentLinkKept
    OneIncidentUnlessRaced
    IncidentFollowsUnlessRaced
    EscalatesUnlessRaced
SYMMETRY Symmetry
