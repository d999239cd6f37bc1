SPECIFICATION FairSpec
CONSTANTS
    Runs = {1}
    Deployable = {1}
    Unlisted = {}
    Processors = {p1}
    Backfills = {b1}
    MaxFetches = 1
    MaxAborts = 0
PROPERTY JobsReachTheirRun
CHECK_DEADLOCK FALSE
