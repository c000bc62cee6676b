SPECIFICATION SeededSpec
CONSTANTS
    Nil = Nil
    Workers = {w1}
    BufferIds = {b1, b2}
    EndpointIds = {e1}
    DeviceIds = {d1}
    RegistrationIds = {r1}
    PlanIds = {p1}
    AttemptIds = {}
    Callers = {c1}
    Boots = {1}
    MaxEpoch = 2
    MaxGeneration = 2
    IdSources = {"backend", "coordinator"}
    Authorities <- MCFirstEpoch
    BufferShapes <- MCDeviceBuffers
    EndpointShapes <- MCNic
    ProviderUpdates <- MCProviders
    CapabilityUpdates <- MCNone
    Requests <- MCRequests
    RegistrationSupport <- MCSupport
    Outcomes <- MCNone
    LimitSettings <- MCOneBuffer
SYMMETRY Symmetry
CONSTRAINT CollisionsComeEarly
INVARIANTS
    PlanFence
    PlanBinding
    StagingOnlyWhenAllowed
    BuffersAreBounded
PROPERTIES
    CommitMatchesSnapshot
