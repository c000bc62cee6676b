SPECIFICATION Spec
CONSTANTS
    Nil = Nil
    w1 = w1
    Workers = {w1}
    buffer = buffer
    endpoint = endpoint
    device = device
    FlawSets <- UpToTwoFlaws
INVARIANTS
    DirectOnlyIfAllCurrent
    RejectionNamesAFlaw
    FallbackIsVisible
    DirectionIsKept
CHECK_DEADLOCK FALSE
