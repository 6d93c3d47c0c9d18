\* Small mailboxes, so that full mailboxes and the panics they cause happen,
\* and two-unit frames, so that a read can leave an unframed remainder.  The
\* safety invariants, and StreamPoolSpec as a property of the detailed model.
CONSTANTS
    c1 = c1
    c2 = c2
    a1 = a1
    a2 = a2
    NoWriter = NoWriter
    NoErr = NoErr
    Conns <- MCConns
    Addrs <- MCAddrs
    PeerAddr <- MCPeerAddrDistinct
    NODE_MAILBOX_CAPACITY = 2
    DispatcherCapacity = 1
    MaxSent = 3
    MaxReadLen = 2
    FrameLen = 2
    MaxTransmits = 1
    ResetKinds = {"ConnectionReset"}
    TransientKinds = {"Other"}
    PeerMayClose = TRUE
    EarlyReset = TRUE
    BindFirst = TRUE
SPECIFICATION Spec
INVARIANT TypeOK
INVARIANT NoLeakedWriter
PROPERTY RefinesStreamPoolSpec
CHECK_DEADLOCK FALSE
