SPECIFICATION ServerSpec
CONSTANTS
    Nil = Nil
    Workers = {w1}
    BufferIds = {b1, b2}
    EndpointIds = {e1, e2}
    DeviceIds = {d1, d2}
    RegistrationIds = {r1, r2}
    PlanIds = {}
    AttemptIds = {}
    Callers = {}
    Boots = {1, 2}
    MaxEpoch = 1
    MaxGeneration = 1
    IdSources = {"coordinator"}
    Connections = {k1, k2}
    Program <- worker_main
    Authorities <- MCTokens
    BufferShapes <- MCGpuBuffer
    EndpointShapes <- MCNic
    ProviderUpdates <- MCNone
    CapabilityUpdates <- MCUpdates
    Requests <- MCNone
    RegistrationSupport <- MCSupport
    Outcomes <- MCNone
    LimitSettings <- MCLimits
PROPERTIES
    StaleConnectionCannotKill
CHECK_DEADLOCK FALSE
