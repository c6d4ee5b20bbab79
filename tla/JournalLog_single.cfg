\* One AttemptJournal per operation, as execute and the commands use it; a torn
\* write stops inside the JSON object or exactly before its newline.
CONSTANTS
    Journal = {a, b, c}
    NoJournal = none
    Unread = unread
    MaxLines = 8
    Reused = FALSE
    Cuts = {"cut", "bare"}
SPECIFICATION Spec
INVARIANTS
    ObserversCanRead
    AcknowledgedIsSeen
