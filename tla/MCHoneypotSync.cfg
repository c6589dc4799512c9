SPECIFICATION FairSpec
CONSTANTS
    Process = {p1, p2}
    Event = {e1}
    Alert = {a1}
    Attacker = {}
    MaxValue <- MCMaxValue
    SeverityInput = {2}
    None = None
INVARIANTS
    TypeOK
    CountsNeverAhead
PROPERTIES
    GroupMovesOnlyByInsertion
    Converges
