\* Two submissions, one of which may be stopped by force, stops and a close at
\* any time, and a startup that may fail.
CONSTANTS
    Sub = {s, t}
    Forced = {s}
SPECIFICATION RTFairSpec
INVARIANTS
    StopsAreDelivered
    ReceiptsAreTrue
    ClosedIsDrained
PROPERTIES
    EveryReceiptCompletes
CHECK_DEADLOCK FALSE
