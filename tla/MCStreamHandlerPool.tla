------------------------- MODULE MCStreamHandlerPool -------------------------
(* Instantiation of StreamHandlerPool for TLC: one or two connections,   *)
(* from distinct peer addresses or reconnecting from one.                 *)
EXTENDS StreamHandlerPool, TLC

CONSTANTS c1, c2, a1, a2

MCConns == {c1, c2}
MCAddrs == {a1, a2}
MCOneAddr == {a1}
MCOneConn == {c1}

\* Each connection from its own peer.
MCPeerAddrDistinct == (c1 :> a1) @@ (c2 :> a2)

\* c2 is a reconnection from the peer address of c1.
MCPeerAddrShared == (c1 :> a1) @@ (c2 :> a1)

\* A single connection.
MCPeerAddrOne == c1 :> a1
=============================================================================
