SPECIFICATION MCFairSpec
CONSTANTS
    Replica = {r1, r2}
    Dating <- MCDating
    NewStatus <- MCNewStatus
    Slots = 1
    Default <- MCDefault
    RuleInput <- MCRuleInput
    None = None
INVARIANTS
    TypeOK
PROPERTIES
    HeartbeatAheadOnlyByFallback
    SilenceReported
    RecoversAgain
    RunSettles
    FinishedStaysFinished
    EveryReplicaServes
