SPECIFICATION Spec
CONSTANTS
    Nil = Nil
    Workers = {w1}
    BufferIds = {b1}
    EndpointIds = {e1}
    DeviceIds = {d1}
    RegistrationIds = {r1, r2}
    PlanIds = {}
    AttemptIds = {}
    Callers = {}
    Boots = {1, 2}
    MaxEpoch = 2
    MaxGeneration = 2
    IdSources = {"backend"}
    Authorities <- MCFewTokens
    BufferShapes <- MCGpuBuffers
    EndpointShapes <- MCNic
    ProviderUpdates <- MCNone
    CapabilityUpdates <- MCDirect
    Requests <- MCNone
    RegistrationSupport <- MCSupport
    Outcomes <- MCNone
    LimitSettings <- MCLimits
SYMMETRY Symmetry
CONSTRAINT DevicesComeEarly
INVARIANTS
    TypeOK
    IncarnationFence
    RegistrationCurrent
    OneActiveRegistration
PROPERTIES
    StaleOwnerCannotMutate
    CountersNeverDecrease
    DeadTokensStayDead
    ImplementsLease
