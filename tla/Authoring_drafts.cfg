SPECIFICATION Spec
CONSTANTS
    Definitions <- Edited
    FlowNames = {"inner"}
    Addresses = {"a"}
    Contents = {"c1", "c2"}
    Values = {1}
    ExplicitKeys <- NoKeys
    Points <- TwoPoints
    MaxCalls <- ThreeThenOne
    MaxDepth = 1
    Escapes = FALSE
INVARIANTS
    DraftsValidate
    KeysAreConsecutive
    ResultsMeanWhatWasAuthored
    AcceptedPlansCanRun
CHECK_DEADLOCK FALSE
