SPECIFICATION StagedSpec
CONSTANTS
    Nil = Nil
    Workers = {w1}
    BufferIds = {b1, b2}
    EndpointIds = {e1}
    DeviceIds = {d1}
    RegistrationIds = {r1}
    PlanIds = {1, 2}
    AttemptIds = {}
    Callers = {c1}
    Boots = {1}
    MaxEpoch = 2
    MaxGeneration = 2
    IdSources = {"backend"}
    Authorities <- MCWorkerTokens
    BufferShapes <- MCDeviceBuffers
    EndpointShapes <- MCNic
    ProviderUpdates <- MCNone
    CapabilityUpdates <- MCNone
    Requests <- MCRequests
    RegistrationSupport <- MCSupport
    Outcomes <- MCNone
    LimitSettings <- MCLimits
    DefaultLimits <- MCDefault
INVARIANTS
    SavedPlansAreRestored
