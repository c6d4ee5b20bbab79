\* One submission whose run_prepared append may fail, which the log's own guard
\* does not notice.
CONSTANTS
    submission1 = submission1
    solve = solve
    Writer = {submission1}
    Inv = {solve}
    MaxNumber = 1
    Foreign = {}
    FailingAppends = {"run_prepared"}
    Questions = {"read_run"}
SPECIFICATION HSpec
INVARIANTS
    HistoryStaysReadable
CHECK_DEADLOCK FALSE
