SPECIFICATION Spec
CONSTANTS
    NoCall = NoCall
    MaxEvents = 4
    MaxFailures = 3
    MaxCrashes = 0
INVARIANT SpooledEventKept
