SPECIFICATION Spec
CONSTANTS
    Relays = {r1}
    Queues = {ai, analytics}
    MaxEvents = 2
    BATCH_SIZE = 2
    MAX_ATTEMPTS = 2
    MaxFaults = 0
PROPERTY PublishOrder
CHECK_DEADLOCK FALSE
