SPECIFICATION TransportSpec
CONSTANTS
    Frames <- MCFrames
    MessageType <- MCMessageType
    kProtoMaxPayload = 3
    MaxFrames = 2
INVARIANTS
    FailureHasACause
    ReceiveBufferIsBounded
PROPERTIES
    ImplementsChannel
    SentFramesArrive
CHECK_DEADLOCK FALSE
