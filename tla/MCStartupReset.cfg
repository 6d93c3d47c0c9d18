\* One connection, mailboxes too large to fill, no FIN and no transmits: the
\* connection is reset after the pool has set it up, possibly before its
\* reader thread has asked for the peer address.
CONSTANTS
    c1 = c1
    c2 = c2
    a1 = a1
    a2 = a2
    NoWriter = NoWriter
    NoErr = NoErr
    Conns <- MCOneConn
    Addrs <- MCOneAddr
    PeerAddr <- MCPeerAddrOne
    NODE_MAILBOX_CAPACITY = 4
    DispatcherCapacity = 3
    MaxSent = 1
    MaxReadLen = 1
    FrameLen = 1
    MaxTransmits = 0
    ResetKinds = {"ConnectionReset"}
    TransientKinds = {"Other"}
    PeerMayClose = FALSE
    EarlyReset = TRUE
    BindFirst = TRUE
SPECIFICATION FairSpec
PROPERTY DeadStreamWriterDropped
CHECK_DEADLOCK FALSE
