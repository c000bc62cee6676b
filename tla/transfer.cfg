SPECIFICATION DirectSpec
CONSTANTS
    Nil = Nil
    Workers = {w1}
    BufferIds = {b1}
    EndpointIds = {e1}
    DeviceIds = {d1}
    RegistrationIds = {r1}
    PlanIds = {p1}
    AttemptIds = {t1}
    Callers = {c1}
    Boots = {1}
    MaxEpoch = 2
    MaxGeneration = 2
    IdSources = {"backend"}
    Authorities <- MCFirstEpoch
    BufferShapes <- MCDeviceBuffers
    EndpointShapes <- MCNic
    ProviderUpdates <- MCProviders
    CapabilityUpdates <- MCNone
    Requests <- MCDirectRequest
    RegistrationSupport <- MCSupport
    Outcomes <- MCOutcomes
    LimitSettings <- MCOneBuffer
INVARIANTS
    ReceiptMatchesAttempt
    IntegrityNeverOverstated
PROPERTIES
    DirectDecisionIsCurrent
    DirectBeginIsFenced
    CompletionIsCurrent
    ImplementsLifecycle
