\* Mailboxes too large to fill and no connection dying before the pool and
\* its reader have set it up: the panics of MCSafety cannot happen, so
\* the teardown a reader starts must be completed by the pool.  The
\* supervisor may send Adds and Transmits before PoolBindMessage, and the
\* second connection is a reconnection from the first one's peer address.
CONSTANTS
    c1 = c1
    c2 = c2
    a1 = a1
    a2 = a2
    NoWriter = NoWriter
    NoErr = NoErr
    Conns <- MCConns
    Addrs <- MCOneAddr
    PeerAddr <- MCPeerAddrShared
    NODE_MAILBOX_CAPACITY = 6
    DispatcherCapacity = 3
    MaxSent = 1
    MaxReadLen = 2
    FrameLen = 1
    MaxTransmits = 1
    ResetKinds = {"ConnectionReset", "TimedOut"}
    TransientKinds = {"Other"}
    PeerMayClose = TRUE
    EarlyReset = FALSE
    BindFirst = FALSE
SPECIFICATION FairSpec
PROPERTY ReaderTeardownCompletes
PROPERTY FailedWriterDropped
CHECK_DEADLOCK FALSE
