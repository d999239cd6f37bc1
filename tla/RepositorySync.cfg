SPECIFICATION FairSpec
CONSTANTS
    s1 = s1
    s2 = s2
    Syncs = {s1, s2}
    Populated = {"branches", "pull_requests"}
    Length = 2
    MaxItems = 3
    PerPage = 1
    Scopes <- MCScopes
INVARIANTS TypeOK SuccessIsComplete StatusIsHonest FirstReviewIsReal
PROPERTIES FirstReviewOnlyEarlier SyncsSettle
CHECK_DEADLOCK FALSE
