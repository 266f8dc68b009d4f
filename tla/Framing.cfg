SPECIFICATION FairSpec
CONSTANTS
    Messages <- SmallMessages
    ReceiverTimeout = FALSE
    Window = 5
    MaxSent = 2
INVARIANT TypeOK
PROPERTIES
    ChannelSpec
    MessageArrives
    EndIsNoticed
