\* One connection, two transmits to its address, mailboxes too large to fill:
\* the connection may be reset while both Transmits wait in the pool's mailbox.
CONSTANTS
    c1 = c1
    c2 = c2
    a1 = a1
    a2 = a2
    NoWriter = NoWriter
    NoErr = NoErr
    Conns <- MCOneConn
    Addrs <- MCOneAddr
    PeerAddr <- MCPeerAddrOne
    NODE_MAILBOX_CAPACITY = 5
    DispatcherCapacity = 3
    MaxSent = 0
    MaxReadLen = 1
    FrameLen = 1
    MaxTransmits = 2
    ResetKinds = {"ConnectionReset"}
    TransientKinds = {"Other"}
    PeerMayClose = FALSE
    EarlyReset = FALSE
    BindFirst = TRUE
SPECIFICATION Spec
PROPERTY TransmitAfterFailureFindsNoStream
CHECK_DEADLOCK FALSE
