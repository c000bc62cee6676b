SPECIFICATION ConcurrentSpec
CONSTANTS
    Nil = Nil
    Workers = {w1}
    BufferIds = {b1}
    EndpointIds = {e1}
    DeviceIds = {d1}
    RegistrationIds = {r1}
    PlanIds = {1}
    AttemptIds = {}
    Callers = {c1}
    Boots = {1}
    MaxEpoch = 2
    MaxGeneration = 2
    IdSources = {"backend"}
    Authorities <- MCWorkerTokens
    BufferShapes <- MCDeviceBuffers
    EndpointShapes <- MCNic
    ProviderUpdates <- MCNone
    CapabilityUpdates <- MCNone
    Requests <- MCDirectRequest
    RegistrationSupport <- MCSupport
    Outcomes <- MCNone
    LimitSettings <- MCLimits
    DefaultLimits <- MCDefault
INVARIANTS
    DanglingReferencesAreRejected
