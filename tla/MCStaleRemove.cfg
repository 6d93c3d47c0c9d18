\* c2 reconnects from the peer address of c1.
CONSTANTS
    c1 = c1
    c2 = c2
    a1 = a1
    a2 = a2
    NoWriter = NoWriter
    NoErr = NoErr
    Conns <- MCConns
    TransientKinds = {"Other"}
    MaxReadLen = 2
    FrameLen = 1
    Addrs <- MCOneAddr
    PeerAddr <- MCPeerAddrShared
    NODE_MAILBOX_CAPACITY = 6
    DispatcherCapacity = 3
    MaxSent = 0
    MaxTransmits = 0
    ResetKinds = {"ConnectionReset"}
    PeerMayClose = FALSE
    EarlyReset = FALSE
    BindFirst = TRUE
SPECIFICATION Spec
PROPERTY WriterRemovedOnlyByOwner
CHECK_DEADLOCK FALSE
