SPECIFICATION FairSpec
CONSTANTS
    Runs = {1}
    Deployable = {1}
    Unlisted = {}
    Processors = {p1, p2}
    Backfills = {b1}
    MaxFetches = 2
    MaxAborts = 2
INVARIANTS TypeOK CompletedIsAnnounced AnnouncedIsTrue DeployedOnce
PROPERTY CompletionReachesOutbox
CHECK_DEADLOCK FALSE
