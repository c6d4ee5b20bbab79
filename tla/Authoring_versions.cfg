SPECIFICATION Spec
CONSTANTS
    Definitions <- Versions
    FlowNames = {}
    Addresses = {}
    Contents = {"c1"}
    Values = {1}
    ExplicitKeys <- Keys
    Points <- NoPoints
    MaxCalls <- JustTwo
    MaxDepth = 0
    Escapes = FALSE
INVARIANTS
    ResultsMeanWhatWasAuthored
CHECK_DEADLOCK FALSE
