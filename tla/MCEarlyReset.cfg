\* Mailboxes too large to fill; a connection may be reset at any time.
CONSTANTS
    c1 = c1
    c2 = c2
    a1 = a1
    a2 = a2
    NoWriter = NoWriter
    NoErr = NoErr
    Conns <- MCConns
    TransientKinds = {"Other"}
    MaxReadLen = 2
    FrameLen = 1
    Addrs <- MCAddrs
    PeerAddr <- MCPeerAddrDistinct
    NODE_MAILBOX_CAPACITY = 6
    DispatcherCapacity = 3
    MaxSent = 0
    MaxTransmits = 0
    ResetKinds = {"ConnectionReset"}
    PeerMayClose = FALSE
    EarlyReset = TRUE
    BindFirst = TRUE
SPECIFICATION Spec
PROPERTY PoolSurvivesStreamErrors
CHECK_DEADLOCK FALSE
