\* Two commands that are both forced, and two workers, of which one may be the
\* replacement of the other.
CONSTANTS
    Command = {c, d}
    NoCommand = nocommand
    Worker = {w, x}
    NoWorker = noworker
    Forced = {c, d}
SPECIFICATION ISpec
SYMMETRY PoolSymmetry
INVARIANTS
    ConfirmedIsStopped
    CopiesAreOnRecord
    NothingStaysFenced
    NobodyIsStranded
PROPERTIES
    OnlyItsOwnDies
CHECK_DEADLOCK FALSE
