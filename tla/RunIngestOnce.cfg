SPECIFICATION Spec
CONSTANTS
    Runs = {1}
    Deployable = {1}
    Unlisted = {}
    Processors = {p1, p2}
    Backfills = {}
    MaxFetches = 0
    MaxAborts = 1
INVARIANT AnnouncedOnce
CHECK_DEADLOCK FALSE
