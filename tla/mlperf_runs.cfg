SPECIFICATION Spec
CONSTANTS
    MaxRuns = 3
    MaxPrompts = 3
    Modes <- AllModes
    KeepAllArgs = {FALSE, TRUE}
    GateArgs = {FALSE, TRUE}
    NoExitArgs = {FALSE, TRUE}
    QpsArgs <- MCQpsArgs
    Latencies = {1, 3}
    OfflineTokens = {0, 6}
    OfflineDurations = {0, 1, 20}
    MaxNewTokens = 128
INVARIANT TypeOK
INVARIANT AutoQpsFromLastOffline
INVARIANT IssueSpacing
INVARIANT PercentileMatchesReference
CHECK_DEADLOCK FALSE
