SPECIFICATION FairSpec
CONSTANTS
    Deliveries = {d1, d2}
    Lifecycle = {d2}
    Processors = {p1, p2}
    MAX_ATTEMPTS = 2
    MaxFaults = 3
INVARIANTS TypeOK ClaimsNumbered EffectsBounded ProcessedIsApplied
PROPERTY DeliveriesSettle
CHECK_DEADLOCK FALSE
