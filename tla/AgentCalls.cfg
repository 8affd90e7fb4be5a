\* Two personas share one thread, so that an attempt can time out before it
\* gets one.
CONSTANTS
    PanelSize = 2
    MaxAttempts = 2
    MaxReask = 1
    Threads = 1
SPECIFICATION FairSpec
INVARIANTS
    TypeOK
    RetryPolicyKept
    ReportCountsPanel
PROPERTIES
    Terminates
CHECK_DEADLOCK FALSE
