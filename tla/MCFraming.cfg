\* Two peers, one-unit frames and reads of up to three units, so that one read
\* frames several chunks; a dispatcher mailbox of two, so that it can fill in
\* the middle of the take_chunk loop.  Peers may close and connections may be
\* reset at any time.
CONSTANTS
    c1 = c1
    c2 = c2
    a1 = a1
    a2 = a2
    NoWriter = NoWriter
    NoErr = NoErr
    Conns <- MCConns
    Addrs <- MCAddrs
    PeerAddr <- MCPeerAddrDistinct
    NODE_MAILBOX_CAPACITY = 2
    DispatcherCapacity = 2
    MaxSent = 3
    MaxReadLen = 3
    FrameLen = 1
    MaxTransmits = 1
    ResetKinds = {"ConnectionReset"}
    TransientKinds = {"Other"}
    PeerMayClose = TRUE
    EarlyReset = TRUE
    BindFirst = TRUE
SPECIFICATION Spec
INVARIANT StreamOrder
CHECK_DEADLOCK FALSE
