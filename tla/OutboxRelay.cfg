SPECIFICATION FairSpec
CONSTANTS
    Relays = {r1, r2}
    Queues = {ai, analytics}
    MaxEvents = 2
    BATCH_SIZE = 2
    MAX_ATTEMPTS = 2
    MaxFaults = 1
INVARIANTS TypeOK RelayInv NoSpuriousDuplicates
PROPERTIES ImplementsDelivery EventuallySettled
CHECK_DEADLOCK FALSE
