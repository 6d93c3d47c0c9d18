\* The peer closes its side of the connection (FIN).
CONSTANTS
    c1 = c1
    c2 = c2
    a1 = a1
    a2 = a2
    NoWriter = NoWriter
    NoErr = NoErr
    Conns <- MCConns
    TransientKinds = {"Other"}
    MaxReadLen = 2
    FrameLen = 1
    Addrs <- MCAddrs
    PeerAddr <- MCPeerAddrDistinct
    NODE_MAILBOX_CAPACITY = 6
    DispatcherCapacity = 5
    MaxSent = 1
    MaxTransmits = 0
    ResetKinds = {"ConnectionReset"}
    PeerMayClose = TRUE
    EarlyReset = FALSE
    BindFirst = TRUE
SPECIFICATION FairSpec
PROPERTY EveryClosedStreamTornDown
CHECK_DEADLOCK FALSE
