SPECIFICATION FairSpec
CONSTANTS
    run = run
    day = day
    Events = {e1}
    Reports = {run, day}
    ReportOf <- MCReportOf
    Health = {day}
    NoReport = NoReport
    NoEvent = NoEvent
    NoTask = NoTask
    Consumers = {c1}
    Schedulers = {s1}
    Retriggers = {c1}
    Cap = 1
    MaxCopies = 1
    MaxRetries = 1
    MaxMonth = 2
    MaxFaults = 1
INVARIANTS TypeOK SpendingIsSerial BudgetAccounted ReceiptHasReport
PROPERTY ReportsSettle
CHECK_DEADLOCK FALSE
