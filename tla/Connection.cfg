SPECIFICATION ConnSpec
CONSTANTS
    RotateEvery = 2
    ChannelSize = 2
    MaxData = 3
INVARIANTS RotationInStep 
PROPERTIES HandshakeEnds EventuallyHandled
CHECK_DEADLOCK FALSE
