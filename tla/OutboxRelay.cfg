SPECIFICATION FairSpec
CONSTANTS
    Events = {e1, e2, e3}
    Relays = {r1, r2}
    BatchSize = 2
    MaxFaults = 1
INVARIANTS
    TypeOK
    BatchesAreApart
    PublishedOnceOrLost
    AttemptsForgetFailures
PROPERTIES
    DeliversAtLeastOnce
    EveryEventDelivered
