SPECIFICATION FairSpec
CONSTANTS
    NoCall = NoCall
    MaxEvents = 4
    MaxFailures = 3
    MaxCrashes = 1
INVARIANTS
    TypeOK
    OneFailureHeals
    StateFileOnChain
PROPERTIES
    LogSpec
    LockedOutForGood
    SpoolDrains
