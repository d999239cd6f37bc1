SPECIFICATION Spec
CONSTANTS
    run = run
    day = day
    Events = {e1}
    Reports = {run}
    ReportOf <- MCReportOf
    Health = {}
    NoReport = NoReport
    NoEvent = NoEvent
    NoTask = NoTask
    Consumers = {c1}
    Schedulers = {s1}
    Retriggers = {c1}
    Cap = 3
    MaxCopies = 1
    MaxRetries = 0
    MaxMonth = 1
    MaxFaults = 0
INVARIANT PaidOnce
CHECK_DEADLOCK FALSE
