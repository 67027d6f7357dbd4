CONSTANTS
    Callers = {c1, c2}
    NoCaller = NoCaller
    MaxPollers = 2
    MaxFails = 5
    MaxBackoff = 5
    HealthCap = 1
SPECIFICATION ReachableSpec
INVARIANTS
    TypeOK
    AtMostOnePoller
    BackoffMatchesFailures
PROPERTIES
    StopMeansStopped
    StopReturns
