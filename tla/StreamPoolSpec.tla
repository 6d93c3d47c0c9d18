--------------------------- MODULE StreamPoolSpec ---------------------------
(***************************************************************************)
(* What the stream handler pool promises, without mailboxes, threads or    *)
(* sockets.  A connection is accepted once and its writer is filed under   *)
(* its peer address.  Units arrive on it; the dispatcher is told every     *)
(* chunk they frame, in order and once each, and at most one terminal      *)
(* message, which follows every chunk framed so far and ends the stream's  *)
(* inbound traffic.  A connection is closed (shut down locally, or reset)  *)
(* at most once, and the pool forgets a writer only after its connection   *)
(* has been closed.                                                        *)
(***************************************************************************)
EXTENDS Integers, Sequences

CONSTANTS Conns, Addrs, PeerAddr, NoWriter, FrameLen, MaxSent

VARIABLES
    accepted,   \* connections the pool has taken on (writer and reader set up)
    writers,    \* Addrs -> Conns \cup {NoWriter}
    received,   \* Conns -> units read from the connection
    closed,     \* connections shut down locally or reset
    inbound     \* Conns -> InboundClientData the dispatcher was sent

absVars == <<accepted, writers, received, closed, inbound>>

Chunk(k) == [last_data |-> FALSE, chunk |-> k]
Terminal == [last_data |-> TRUE, chunk |-> 0]

Delivered(c) == Len(SelectSeq(inbound[c], LAMBDA m : ~m.last_data))
Ended(c) == \E i \in 1..Len(inbound[c]) : inbound[c][i].last_data
Framed(c) == received[c] \div FrameLen

Init ==
    /\ accepted = {}
    /\ writers = [a \in Addrs |-> NoWriter]
    /\ received = [c \in Conns |-> 0]
    /\ closed = {}
    /\ inbound = [c \in Conns |-> <<>>]

\* The Add handler: a live connection gets a writer under its peer address,
\* replacing whatever writer that address had.
Register(c) ==
    /\ c \notin accepted \cup closed
    /\ accepted' = accepted \cup {c}
    /\ writers' = [writers EXCEPT ![PeerAddr[c]] = c]
    /\ UNCHANGED <<received, closed, inbound>>

\* The reader reads more of the stream.
Receive(c) ==
    /\ c \in accepted
    /\ \E n \in 1..(MaxSent - received[c]) :
          received' = [received EXCEPT ![c] = @ + n]
    /\ UNCHANGED <<accepted, writers, closed, inbound>>

\* The next framed chunk goes to the dispatcher.
Deliver(c) ==
    /\ c \in accepted /\ ~Ended(c)
    /\ Delivered(c) < Framed(c)
    /\ inbound' = [inbound EXCEPT ![c] = Append(@, Chunk(Delivered(c) + 1))]
    /\ UNCHANGED <<accepted, writers, received, closed>>

\* The stream is torn down: the terminal message follows every chunk, and
\* the connection is (or already was) closed.
Terminate(c) ==
    /\ c \in accepted /\ ~Ended(c)
    /\ Delivered(c) = Framed(c)
    /\ inbound' = [inbound EXCEPT ![c] = Append(@, Terminal)]
    /\ closed' = closed \cup {c}
    /\ UNCHANGED <<accepted, writers, received>>

\* A connection is shut down or reset, by either side.
Close(c) ==
    /\ c \notin closed
    /\ closed' = closed \cup {c}
    /\ UNCHANGED <<accepted, writers, received, inbound>>

\* The Remove handler forgets the writer of a closed connection.
Drop(a) ==
    /\ writers[a] \in closed
    /\ writers' = [writers EXCEPT ![a] = NoWriter]
    /\ UNCHANGED <<accepted, received, closed, inbound>>

Next ==
    \/ \E c \in Conns : Register(c) \/ Receive(c) \/ Deliver(c)
                        \/ Terminate(c) \/ Close(c)
    \/ \E a \in Addrs : Drop(a)

Spec == Init /\ [][Next]_absVars

=============================================================================
