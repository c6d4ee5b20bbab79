\* One caller that comes back after each crash, two keepers, the pooled
\* transport.
CONSTANTS
    Caller = {a}
    NoCaller = none
    MaxTries = 2
    MaxRuns = 2
    Authoritative = FALSE
    OwnerBound = FALSE
    Receipts = TRUE
    Keeper = {k, m}
    KeepLatest = 1
    RuleOutcomes = {"failed", "succeeded"}
    KeepLogs = TRUE
    Thaws = {TRUE, FALSE}
SPECIFICATION RSpec
INVARIANTS
    PinnedStaysWhole
    StandingKeepsItsWorkspace
PROPERTIES
    RemovalIsRecorded
    KeepersDisturbNothing
SYMMETRY KeeperSymmetry
CHECK_DEADLOCK FALSE
