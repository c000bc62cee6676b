SPECIFICATION DirectSpec
CONSTANTS
    Nil = Nil
    Workers = {w1}
    BufferIds = {b1}
    EndpointIds = {e1}
    DeviceIds = {d1}
    RegistrationIds = {r1}
    PlanIds = {p1}
    AttemptIds = {t1}
    Callers = {c1}
    Boots = {1, 2}
    MaxEpoch = 2
    MaxGeneration = 1
    IdSources = {"backend"}
    Authorities <- MCFewTokens
    BufferShapes <- MCDeviceBuffers
    EndpointShapes <- MCNic
    ProviderUpdates <- MCNone
    CapabilityUpdates <- MCNone
    Requests <- MCDirectRequest
    RegistrationSupport <- MCSupport
    Outcomes <- MCSuccess
    LimitSettings <- MCLimits
PROPERTIES
    StalePathIsNotUsed
