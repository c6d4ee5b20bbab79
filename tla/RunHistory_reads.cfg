\* Two submissions of a Plan of one invocation, and two numbers; the append
\* of run_prepared and those of outcomes may fail.
CONSTANTS
    submission2 = submission2
    submission1 = submission1
    solve = solve
    Writer = {submission1, submission2}
    Inv = {solve}
    MaxNumber = 2
    Foreign = {2}
    FailingAppends = {"run_prepared", "invocation_outcome"}
    Questions = {"read_run", "reproducibility"}
SPECIFICATION HSpec
SYMMETRY WriterSymmetry
INVARIANTS
    RefusalsAreExplained
    CompleteIsWhole
    OccurrencesAreNeverReused
CHECK_DEADLOCK FALSE
