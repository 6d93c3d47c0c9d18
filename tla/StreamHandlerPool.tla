-------------------------- MODULE StreamHandlerPool --------------------------
(***************************************************************************)
(* node/src/stream_handler_pool.rs: the StreamHandlerPool actor, the       *)
(* StreamReaderReal thread it spawns for every connection, the             *)
(* StreamWriterReal it keeps for every connection, and what they share:    *)
(* the pool's bounded mailbox, the dispatcher's bounded mailbox and the    *)
(* TCP socket behind the two cloned handles of each connection.            *)
(*                                                                         *)
(* Bytes are abstracted to units: a peer sends units 1, 2, ... on a        *)
(* connection, a read returns the next few of them, and the discriminator  *)
(* frames every FrameLen units into one chunk; chunk k of a connection     *)
(* is identified by k.                                                     *)
(***************************************************************************)
EXTENDS Integers, Sequences, FiniteSets, IoErrors

CONSTANTS
    Conns,                  \* connections accepted and handed to the pool
    Addrs,                  \* peer socket addresses (StreamKey)
    PeerAddr,               \* Conns -> Addrs: peer address of a connection
    NoWriter,               \* no entry in stream_writers
    NoErr,                  \* no socket error pending
    NODE_MAILBOX_CAPACITY,  \* bound of the pool's mailbox
    DispatcherCapacity,     \* bound of the dispatcher's mailbox
    MaxSent,                \* units a peer sends on one connection
    MaxReadLen,             \* most units one read returns
    FrameLen,               \* units per chunk framed by the discriminator
    MaxTransmits,           \* TransmitDataMsgs the supervisor sends
    ResetKinds,             \* error kinds the OS reports for a dead connection
    TransientKinds,         \* error kinds a read may return on a live connection
    PeerMayClose,           \* whether peers may close (send FIN)
    EarlyReset,             \* whether a connection may die before the pool
                            \* and its reader have asked for its peer address
    BindFirst               \* whether the supervisor sends PoolBindMessage
                            \* before anything else (spec.md 6)

ASSUME PeerAddr \in [Conns -> Addrs]
ASSUME ResetKinds \subseteq DeadStreamKinds \cup TimeoutKinds
ASSUME TransientKinds \subseteq ErrorKinds \ DeadStreamKinds
ASSUME FrameLen >= 1 /\ MaxReadLen >= 1

VARIABLES
    (* the pool actor *)
    poolQ,          \* its mailbox, a FIFO of messages
    bound,          \* dispatcher_subs and self_subs are set
    poolAlive,      \* the actor has not panicked
    stream_writers, \* Addrs -> Conns \cup {NoWriter}
    selfSend,       \* connection whose failed writer is sending the pool its
                    \* RemoveStreamMsg, or NoWriter
    writeFailed,    \* connections whose writer failed with a dead-stream error
                    \* (history, for the properties)
    (* the reader threads *)
    reader,         \* Conns -> state of the connection's StreamReaderReal
    disc,           \* Conns -> the discriminator: unframed units, chunks taken
    warned,         \* Conns -> "Continuing after read error" was logged
    (* the socket of each connection, shared by its reader and writer *)
    sent,           \* units the peer has sent
    rcvd,           \* units read
    peerFin,        \* the peer closed its side (FIN received)
    rst,            \* the connection was reset or timed out
    sockErr,        \* error the socket reports once, to the next read or write
    shut,           \* shutdown(Both) was called locally
    (* the dispatcher *)
    dispLen,        \* messages waiting in its mailbox
    icd,            \* Conns -> InboundClientData sent for the connection
    (* the supervisor *)
    added,          \* connections whose AddStreamMsg was sent
    transmits,      \* TransmitDataMsgs sent
    bindSent        \* PoolBindMessage was sent

poolVars   == <<poolQ, bound, poolAlive, stream_writers, selfSend, writeFailed>>
readerVars == <<reader, disc, warned>>
netVars    == <<sent, rcvd, peerFin, rst, sockErr, shut>>
dispVars   == <<dispLen, icd>>
supVars    == <<added, transmits, bindSent>>
vars == <<poolVars, readerVars, netVars, dispVars, supVars>>

ReaderStates == {"none", "spawned", "reading", "draining", "done", "crashed"}

-----------------------------------------------------------------------------
(* Messages *)

PoolBindMessage == [type |-> "Bind"]

AddStreamMsg(c) == [type |-> "Add", conn |-> c]

\* "from" is not a field of the Rust message: it records which connection's
\* reader or writer raised it, so that properties can talk about it.
RemoveStreamMsg(a, c) == [type |-> "Remove", socket_addr |-> a, from |-> c]

TransmitDataMsg(a, l) == [type |-> "Transmit", socket_addr |-> a, last_data |-> l]

PoolMsgs ==
    {PoolBindMessage}
    \cup {AddStreamMsg(c) : c \in Conns}
    \cup {RemoveStreamMsg(a, c) : a \in Addrs, c \in Conns}
    \cup {TransmitDataMsg(a, l) : a \in Addrs, l \in BOOLEAN}

\* InboundClientData: a framed chunk, or the terminal message.
DataIcd(k) == [last_data |-> FALSE, chunk |-> k]
TerminalIcd == [last_data |-> TRUE, chunk |-> 0]

IcdMsgs == {DataIcd(k) : k \in 1..MaxSent} \cup {TerminalIcd}

\* Recipient::try_send succeeds only while the mailbox has room.
PoolHasRoom(q) == Len(q) < NODE_MAILBOX_CAPACITY
DispatcherHasRoom == dispLen < DispatcherCapacity

-----------------------------------------------------------------------------
(* The socket of a connection, as Linux reports it to read and write.     *)
(* A pending error (reset, keepalive timeout) is reported once, to the    *)
(* first read or write that asks, and is then cleared.  Received data is  *)
(* read before anything else; after the peer's FIN a read returns 0 even  *)
(* when an error is pending; after a local shutdown or a reported reset a *)
(* read returns 0 and a write fails with BrokenPipe.                       *)

Available(c) == sent[c] - rcvd[c]

\* The errors a read with nothing left to return may report: the pending
\* error if there is one; none after a local shutdown or a reported reset
\* (the read returns 0); a transient error if it is blocked on a live
\* connection.  After the peer's FIN the read returns 0 instead.
ReadErrors(c) ==
    IF sockErr[c] # NoErr THEN {sockErr[c]}
    ELSE IF shut[c] \/ rst[c] THEN {}
    ELSE TransientKinds

\* The error a write reports, or NoErr if the write succeeds.
WriteResult(c) ==
    IF sockErr[c] # NoErr THEN sockErr[c]
    ELSE IF shut[c] \/ rst[c] THEN "BrokenPipe"
    ELSE NoErr

-----------------------------------------------------------------------------
Init ==
    /\ poolQ = IF BindFirst THEN <<PoolBindMessage>> ELSE <<>>
    /\ bound = FALSE
    /\ poolAlive = TRUE
    /\ stream_writers = [a \in Addrs |-> NoWriter]
    /\ selfSend = NoWriter
    /\ writeFailed = {}
    /\ reader = [c \in Conns |-> "none"]
    /\ disc = [c \in Conns |-> [buf |-> 0, taken |-> 0]]
    /\ warned = [c \in Conns |-> FALSE]
    /\ sent = [c \in Conns |-> 0]
    /\ rcvd = [c \in Conns |-> 0]
    /\ peerFin = [c \in Conns |-> FALSE]
    /\ rst = [c \in Conns |-> FALSE]
    /\ sockErr = [c \in Conns |-> NoErr]
    /\ shut = [c \in Conns |-> FALSE]
    /\ dispLen = 0
    /\ icd = [c \in Conns |-> <<>>]
    /\ added = {}
    /\ transmits = 0
    /\ bindSent = BindFirst

-----------------------------------------------------------------------------
(* The pool actor: one handler per message, taken from the head of its    *)
(* mailbox.  A panic in a handler stops the actor for good.                *)

\* Handler<PoolBindMessage>
PoolBind ==
    /\ Head(poolQ) = PoolBindMessage
    /\ poolQ' = Tail(poolQ)
    /\ bound' = TRUE
    /\ UNCHANGED <<poolAlive, stream_writers, selfSend, writeFailed, readerVars, netVars>>

\* Fault variant: the writer is filed under the address the connection was
\* accepted from, without asking the socket for its peer address again.
PoolAddStreamNoPeerCheck ==
    /\ Head(poolQ).type = "Add"
    /\ bound
    /\ poolQ' = Tail(poolQ)
    /\ LET c == Head(poolQ).conn IN
       \/ UNCHANGED <<poolAlive, stream_writers, reader>>
       \/ /\ stream_writers' = [stream_writers EXCEPT ![PeerAddr[c]] = c]
          /\ reader' = [reader EXCEPT ![c] = "spawned"]
          /\ UNCHANGED poolAlive
    /\ UNCHANGED <<bound, selfSend, writeFailed, disc, warned, netVars>>

\* Handler<AddStreamMsg>, with set_up_stream_writer and set_up_stream_reader.
\* peer_addr() of a reset socket fails (ENOTCONN) and its expect panics, and
\* so does the expect on self_subs before the pool is bound.
PoolAddStream ==
    /\ Head(poolQ).type = "Add"
    /\ poolQ' = Tail(poolQ)
    /\ LET c == Head(poolQ).conn IN
       \/ \* a try_clone fails: logged, nothing kept
          UNCHANGED <<poolAlive, stream_writers, reader>>
       \/ /\ rst[c] \/ ~bound
          /\ poolAlive' = FALSE
          /\ UNCHANGED <<stream_writers, reader>>
       \/ /\ ~rst[c] /\ bound
          /\ stream_writers' = [stream_writers EXCEPT ![PeerAddr[c]] = c]
          /\ reader' = [reader EXCEPT ![c] = "spawned"]
          /\ UNCHANGED poolAlive
    /\ UNCHANGED <<bound, selfSend, writeFailed, disc, warned, netVars>>

\* Fault variant: the handler looks the entry up instead of removing it.
PoolRemoveStreamKeeps ==
    /\ Head(poolQ).type = "Remove"
    /\ poolQ' = Tail(poolQ)
    /\ UNCHANGED <<stream_writers, bound, poolAlive, selfSend, writeFailed, readerVars, netVars>>

\* Handler<RemoveStreamMsg>: an absent entry is not an error.
PoolRemoveStream ==
    /\ Head(poolQ).type = "Remove"
    /\ poolQ' = Tail(poolQ)
    /\ stream_writers' = [stream_writers EXCEPT ![Head(poolQ).socket_addr] = NoWriter]
    /\ UNCHANGED <<bound, poolAlive, selfSend, writeFailed, readerVars, netVars>>

\* Fault variant: a dead-stream error shuts the socket down but sends the
\* pool no RemoveStreamMsg.
transmitNoRemove(w, last_data) ==
    LET err  == WriteResult(w)
        dead == err # NoErr /\ indicates_dead_stream(err)
    IN
    /\ sockErr' = [sockErr EXCEPT ![w] = NoErr]
    /\ shut' = [shut EXCEPT ![w] = @ \/ dead \/ last_data]
    /\ selfSend' = NoWriter
    /\ writeFailed' = IF dead THEN writeFailed \cup {w} ELSE writeFailed
    /\ UNCHANGED <<sent, rcvd, peerFin, rst>>

\* StreamWriterReal::transmit on connection w: the write.  A dead-stream
\* error shuts the socket down and starts the RemoveStreamMsg to the pool
\* itself (PoolWriterRemove); other threads run while the write blocks.  A
\* terminal TransmitDataMsg then shuts the socket down.
transmit(w, last_data) ==
    LET err  == WriteResult(w)
        dead == err # NoErr /\ indicates_dead_stream(err)
    IN
    /\ sockErr' = [sockErr EXCEPT ![w] = NoErr]
    /\ shut' = [shut EXCEPT ![w] = @ \/ dead \/ last_data]
    /\ selfSend' = IF dead THEN w ELSE NoWriter
    /\ writeFailed' = IF dead THEN writeFailed \cup {w} ELSE writeFailed
    /\ UNCHANGED <<sent, rcvd, peerFin, rst>>

\* The end of a failed transmit: remove_sub.try_send from inside the pool's
\* own handler, which panics when the mailbox is full.
PoolWriterRemove ==
    /\ selfSend # NoWriter
    /\ \/ /\ PoolHasRoom(poolQ)
          /\ poolQ' = Append(poolQ, RemoveStreamMsg(PeerAddr[selfSend], selfSend))
          /\ UNCHANGED poolAlive
       \/ /\ ~PoolHasRoom(poolQ)
          /\ poolAlive' = FALSE
          /\ UNCHANGED poolQ
    /\ selfSend' = NoWriter
    /\ UNCHANGED <<bound, writeFailed, stream_writers, readerVars, netVars>>

\* Handler<TransmitDataMsg> for an Endpoint::Socket.
PoolTransmitData ==
    /\ Head(poolQ).type = "Transmit"
    /\ poolQ' = Tail(poolQ)
    /\ LET m == Head(poolQ)
           w == stream_writers[m.socket_addr]
       IN
       \/ \* "Cannot transmit N bytes to <addr>: nonexistent stream"
          /\ w = NoWriter
          /\ UNCHANGED <<selfSend, writeFailed, netVars>>
       \/ /\ w # NoWriter
          /\ transmit(w, m.last_data)
    /\ UNCHANGED <<bound, poolAlive, stream_writers, readerVars>>

PoolStep ==
    /\ poolAlive
    /\ \/ /\ selfSend = NoWriter
          /\ poolQ # <<>>
          /\ \/ PoolBind
             \/ PoolAddStream
             \/ PoolRemoveStream
             \/ PoolTransmitData
       \/ PoolWriterRemove
    /\ UNCHANGED <<dispVars, supVars>>

-----------------------------------------------------------------------------
(* A StreamReaderReal thread.  Its try_sends panic ("StreamHandlerPool is  *)
(* dead", "Dispatcher is dead") when the receiving mailbox is full or its  *)
(* actor has stopped; a panic ends the thread.                             *)

\* StreamReaderReal::new and the start of handle_traffic: peer_addr() of a
\* reset socket fails and its expect panics; local_addr and
\* set_read_timeout(None) succeed on any TCP socket.
ReaderStart(c) ==
    /\ reader[c] = "spawned"
    /\ reader' = [reader EXCEPT ![c] = IF rst[c] THEN "crashed" ELSE "reading"]
    /\ UNCHANGED <<disc, warned, poolVars, netVars, dispLen, icd>>

\* Ok(length > 0): wrangle_discriminators feeds buf[..length] to add_data.
ReaderReadData(c) ==
    /\ reader[c] = "reading"
    /\ \E n \in 1..MaxReadLen :
          /\ n <= Available(c)
          /\ rcvd' = [rcvd EXCEPT ![c] = @ + n]
          /\ disc' = [disc EXCEPT ![c].buf = @ + n]
    /\ reader' = [reader EXCEPT ![c] = "draining"]
    /\ UNCHANGED <<warned, poolVars, sent, peerFin, rst, sockErr, shut, dispLen, icd>>

\* Fault variant: the dead-stream branch forgets the RemoveStreamMsg.
ReaderDeadStreamNoRemove(c) ==
    /\ shut' = [shut EXCEPT ![c] = TRUE]
    /\ UNCHANGED poolQ
    /\ \/ /\ DispatcherHasRoom
          /\ icd' = [icd EXCEPT ![c] = Append(@, TerminalIcd)]
          /\ dispLen' = dispLen + 1
          /\ reader' = [reader EXCEPT ![c] = "done"]
       \/ /\ ~DispatcherHasRoom
          /\ reader' = [reader EXCEPT ![c] = "crashed"]
          /\ UNCHANGED <<dispLen, icd>>

\* The dead-stream branch: RemoveStreamMsg to the pool, shutdown(Both),
\* the terminal InboundClientData to the dispatcher, break.
ReaderDeadStream(c) ==
    \/ /\ ~(poolAlive /\ PoolHasRoom(poolQ))
       /\ reader' = [reader EXCEPT ![c] = "crashed"]
       /\ UNCHANGED <<poolQ, shut, dispLen, icd>>
    \/ /\ poolAlive /\ PoolHasRoom(poolQ)
       /\ poolQ' = Append(poolQ, RemoveStreamMsg(PeerAddr[c], c))
       /\ shut' = [shut EXCEPT ![c] = TRUE]
       /\ \/ /\ DispatcherHasRoom
             /\ icd' = [icd EXCEPT ![c] = Append(@, TerminalIcd)]
             /\ dispLen' = dispLen + 1
             /\ reader' = [reader EXCEPT ![c] = "done"]
          \/ /\ ~DispatcherHasRoom
             /\ reader' = [reader EXCEPT ![c] = "crashed"]
             /\ UNCHANGED <<dispLen, icd>>

\* Err(e) from read: a timeout-like kind sleeps, then a dead-stream kind
\* ends the stream, and any other kind is logged and the loop goes on.
\* An error pending on the socket is reported to this read and cleared; a
\* read blocked on a live connection may return a transient error.
ReaderReadError(c) ==
    /\ reader[c] = "reading"
    /\ Available(c) = 0 /\ ~peerFin[c]
    /\ \E e \in ReadErrors(c) :
          \/ /\ indicates_timeout(e)
             /\ UNCHANGED <<reader, warned, poolQ, shut, dispLen, icd>>
          \/ /\ ~indicates_timeout(e) /\ indicates_dead_stream(e)
             /\ ReaderDeadStream(c)
             /\ UNCHANGED warned
          \/ /\ ~indicates_timeout(e) /\ ~indicates_dead_stream(e)
             /\ warned' = [warned EXCEPT ![c] = TRUE]
             /\ UNCHANGED <<reader, poolQ, shut, dispLen, icd>>
    /\ sockErr' = [sockErr EXCEPT ![c] = NoErr]
    /\ UNCHANGED <<disc, bound, poolAlive, stream_writers, selfSend, writeFailed, sent, rcvd, peerFin, rst>>

\* Fault variant: the discriminator frames a chunk one unit too early.
ReaderTakeChunkEarly(c) ==
    /\ reader[c] = "draining"
    /\ \/ /\ disc[c].buf >= FrameLen - 1 /\ DispatcherHasRoom
          /\ disc' = [disc EXCEPT ![c] = [buf |-> @.buf - FrameLen, taken |-> @.taken + 1]]
          /\ icd' = [icd EXCEPT ![c] = Append(@, DataIcd(disc[c].taken + 1))]
          /\ dispLen' = dispLen + 1
          /\ UNCHANGED reader
       \/ /\ disc[c].buf < FrameLen
          /\ reader' = [reader EXCEPT ![c] = "reading"]
          /\ UNCHANGED <<disc, dispLen, icd>>
    /\ UNCHANGED <<warned, poolVars, netVars>>

\* Fault variant: take_chunk leaves the chunk it returns in the buffer, so the
\* same chunk is framed again.
ReaderTakeChunkKeeps(c) ==
    /\ reader[c] = "draining"
    /\ \/ /\ disc[c].buf >= FrameLen /\ DispatcherHasRoom
          /\ icd' = [icd EXCEPT ![c] = Append(@, DataIcd(disc[c].taken + 1))]
          /\ dispLen' = dispLen + 1
          /\ UNCHANGED <<reader, disc>>
       \/ /\ disc[c].buf >= FrameLen /\ ~DispatcherHasRoom
          /\ reader' = [reader EXCEPT ![c] = "crashed"]
          /\ UNCHANGED <<disc, dispLen, icd>>
       \/ /\ disc[c].buf < FrameLen
          /\ reader' = [reader EXCEPT ![c] = "reading"]
          /\ UNCHANGED <<disc, dispLen, icd>>
    /\ UNCHANGED <<warned, poolVars, netVars>>

\* Fault variant: wrangle_discriminators calls take_chunk once per read and
\* leaves any further complete chunk in the discriminator.
ReaderTakeChunkOnce(c) ==
    /\ reader[c] = "draining"
    /\ \/ /\ disc[c].buf >= FrameLen
          /\ \/ /\ DispatcherHasRoom
                /\ disc' = [disc EXCEPT ![c] = [buf |-> @.buf - FrameLen, taken |-> @.taken + 1]]
                /\ icd' = [icd EXCEPT ![c] = Append(@, DataIcd(disc[c].taken + 1))]
                /\ dispLen' = dispLen + 1
                /\ reader' = [reader EXCEPT ![c] = "reading"]
             \/ /\ ~DispatcherHasRoom
                /\ reader' = [reader EXCEPT ![c] = "crashed"]
                /\ UNCHANGED <<disc, dispLen, icd>>
       \/ /\ disc[c].buf < FrameLen
          /\ reader' = [reader EXCEPT ![c] = "reading"]
          /\ UNCHANGED <<disc, dispLen, icd>>
    /\ UNCHANGED <<warned, poolVars, netVars>>

\* The take_chunk loop of wrangle_discriminators: every framed chunk goes
\* to the dispatcher, until take_chunk returns None.
ReaderTakeChunk(c) ==
    /\ reader[c] = "draining"
    /\ \/ /\ disc[c].buf >= FrameLen
          /\ \/ /\ DispatcherHasRoom
                /\ disc' = [disc EXCEPT ![c] = [buf |-> @.buf - FrameLen, taken |-> @.taken + 1]]
                /\ icd' = [icd EXCEPT ![c] = Append(@, DataIcd(disc[c].taken + 1))]
                /\ dispLen' = dispLen + 1
                /\ UNCHANGED reader
             \/ /\ ~DispatcherHasRoom
                /\ reader' = [reader EXCEPT ![c] = "crashed"]
                /\ UNCHANGED <<disc, dispLen, icd>>
       \/ /\ disc[c].buf < FrameLen
          /\ reader' = [reader EXCEPT ![c] = "reading"]
          /\ UNCHANGED <<disc, dispLen, icd>>
    /\ UNCHANGED <<warned, poolVars, netVars>>

ReaderStep(c) ==
    /\ \/ ReaderStart(c)
       \/ ReaderReadData(c)
       \/ ReaderReadError(c)
       \/ ReaderTakeChunk(c)
    /\ UNCHANGED supVars

-----------------------------------------------------------------------------
(* The dispatcher takes InboundClientData from its mailbox. *)
DispatcherReceive ==
    /\ dispLen > 0
    /\ dispLen' = dispLen - 1
    /\ UNCHANGED <<icd, poolVars, readerVars, netVars, supVars>>

(* The peers.  A peer sends units, closes its side, or its connection is   *)
(* reset or times out; the socket then holds one pending error.            *)
PeerSend(c) ==
    /\ ~peerFin[c] /\ ~rst[c]
    /\ sent[c] < MaxSent
    /\ sent' = [sent EXCEPT ![c] = @ + 1]
    /\ UNCHANGED <<rcvd, peerFin, rst, sockErr, shut>>

PeerClose(c) ==
    /\ PeerMayClose
    /\ ~peerFin[c] /\ ~rst[c]
    /\ peerFin' = [peerFin EXCEPT ![c] = TRUE]
    /\ UNCHANGED <<sent, rcvd, rst, sockErr, shut>>

PeerReset(c) ==
    /\ ~rst[c]
    /\ EarlyReset \/ reader[c] \notin {"none", "spawned"}
    /\ \E k \in ResetKinds :
          /\ rst' = [rst EXCEPT ![c] = TRUE]
          /\ sockErr' = [sockErr EXCEPT ![c] = k]
    /\ UNCHANGED <<sent, rcvd, peerFin, shut>>

PeerStep(c) ==
    /\ PeerSend(c) \/ PeerClose(c) \/ PeerReset(c)
    /\ UNCHANGED <<poolVars, readerVars, dispVars, supVars>>

(* The supervisor hands each accepted connection to the pool once and     *)
(* sends TransmitDataMsgs to any peer address.                              *)
SupervisorAddStream(c) ==
    /\ c \notin added
    /\ poolAlive /\ PoolHasRoom(poolQ)
    /\ poolQ' = Append(poolQ, AddStreamMsg(c))
    /\ added' = added \cup {c}
    /\ UNCHANGED <<transmits, bindSent, bound, poolAlive, stream_writers, selfSend, writeFailed, readerVars, netVars, dispVars>>

SupervisorTransmit(a, l) ==
    /\ transmits < MaxTransmits
    /\ poolAlive /\ PoolHasRoom(poolQ)
    /\ poolQ' = Append(poolQ, TransmitDataMsg(a, l))
    /\ transmits' = transmits + 1
    /\ UNCHANGED <<added, bindSent, bound, poolAlive, stream_writers, selfSend, writeFailed, readerVars, netVars, dispVars>>

\* The supervisor binds the pool once; unless BindFirst, its Adds and
\* Transmits may already be in the mailbox.
SupervisorBind ==
    /\ ~bindSent
    /\ poolAlive /\ PoolHasRoom(poolQ)
    /\ poolQ' = Append(poolQ, PoolBindMessage)
    /\ bindSent' = TRUE
    /\ UNCHANGED <<added, transmits, bound, poolAlive, stream_writers, selfSend, writeFailed, readerVars, netVars, dispVars>>

-----------------------------------------------------------------------------
Next ==
    \/ PoolStep
    \/ \E c \in Conns : ReaderStep(c)
    \/ DispatcherReceive
    \/ \E c \in Conns : PeerStep(c)
    \/ \E c \in Conns : SupervisorAddStream(c)
    \/ \E a \in Addrs, l \in BOOLEAN : SupervisorTransmit(a, l)
    \/ SupervisorBind

Spec == Init /\ [][Next]_vars

\* The actix arbiter runs the pool and the dispatcher whenever their
\* mailboxes hold messages, and every reader has a thread of its own.  The
\* peers and the supervisor need not do anything.
FairSpec ==
    /\ Spec
    /\ WF_vars(PoolStep)
    /\ WF_vars(DispatcherReceive)
    /\ \A c \in Conns : WF_vars(ReaderStep(c))

-----------------------------------------------------------------------------
(* Properties *)

TypeOK ==
    /\ poolQ \in Seq(PoolMsgs)
    /\ Len(poolQ) <= NODE_MAILBOX_CAPACITY
    /\ bound \in BOOLEAN /\ poolAlive \in BOOLEAN
    /\ stream_writers \in [Addrs -> Conns \cup {NoWriter}]
    /\ selfSend \in Conns \cup {NoWriter}
    /\ writeFailed \subseteq Conns
    /\ reader \in [Conns -> ReaderStates]
    /\ disc \in [Conns -> [buf : 0..MaxSent, taken : 0..MaxSent]]
    /\ warned \in [Conns -> BOOLEAN]
    /\ sent \in [Conns -> 0..MaxSent] /\ rcvd \in [Conns -> 0..MaxSent]
    /\ peerFin \in [Conns -> BOOLEAN] /\ rst \in [Conns -> BOOLEAN]
    /\ sockErr \in [Conns -> ResetKinds \cup {NoErr}]
    /\ shut \in [Conns -> BOOLEAN]
    /\ dispLen \in 0..DispatcherCapacity
    /\ icd \in [Conns -> Seq(IcdMsgs)]
    /\ added \subseteq Conns /\ transmits \in 0..MaxTransmits
    /\ bindSent \in BOOLEAN

DataSent(c) == SelectSeq(icd[c], LAMBDA m : ~m.last_data)

Terminated(c) == icd[c] # <<>> /\ icd[c][Len(icd[c])].last_data

\* What the dispatcher receives for a connection is the discriminator's
\* output over the bytes read from it, in order, each chunk once, followed
\* by at most one terminal message, which comes only after every chunk of
\* the bytes read was forwarded (handle_traffic and wrangle_discriminators).
StreamOrder ==
    \A c \in Conns :
       /\ \A i \in 1..Len(icd[c]) : icd[c][i].last_data => i = Len(icd[c])
       /\ \A i \in 1..Len(DataSent(c)) : DataSent(c)[i].chunk = i
       /\ Len(DataSent(c)) <= rcvd[c] \div FrameLen
       /\ Terminated(c) => Len(DataSent(c)) = rcvd[c] \div FrameLen

\* A reader that finished its stream leaves no writer behind: while the
\* pool still maps the address to that connection, the reader's
\* RemoveStreamMsg is waiting in the pool's mailbox.
NoLeakedWriter ==
    \A c \in Conns :
       (reader[c] = "done" /\ stream_writers[PeerAddr[c]] = c)
          => \E i \in 1..Len(poolQ) : poolQ[i] = RemoveStreamMsg(PeerAddr[c], c)

\* Once a reader has finished its stream, the pool eventually drops that
\* connection's writer.
ReaderTeardownCompletes ==
    \A c \in Conns : reader[c] = "done" ~> stream_writers[PeerAddr[c]] # c

\* A writer whose transmit failed with a dead-stream error is eventually
\* gone from the pool: its RemoveStreamMsg, sent to the pool's own mailbox
\* from inside the Transmit handler (StreamWriterReal::transmit), is queued
\* behind whatever was already waiting and is still handled (spec.md 4.4 and
\* scenario 6: "the writer is removed").
FailedWriterDropped ==
    \A c \in Conns : c \in writeFailed ~> stream_writers[PeerAddr[c]] # c

\* A writer leaves the pool only on a RemoveStreamMsg raised for its own
\* connection (by its reader or by its own failed write): spec.md says the
\* pool handles Remove for the stream that died, and that a reconnection
\* replaces the stale writer of the same address.
WriterRemovedOnlyByOwner ==
    [][\A a \in Addrs :
          (stream_writers[a] # NoWriter /\ stream_writers'[a] = NoWriter)
             => Head(poolQ).from = stream_writers[a]]_vars

\* A terminal error on one stream tears down only that stream: the pool
\* actor stops only on one of the programmer errors spec.md section 7 lists
\* as fatal, its own mailbox being full when a failing writer sends it its
\* RemoveStreamMsg, or an AddStreamMsg handled before PoolBindMessage; a
\* connection that dies, or a message for a stream it no longer has, never
\* stops it.
PoolSurvivesStreamErrors ==
    [][poolAlive /\ ~poolAlive' =>
          \/ selfSend # NoWriter /\ ~PoolHasRoom(poolQ)
          \/ ~bound /\ poolQ # <<>> /\ Head(poolQ).type = "Add"]_vars

\* Every stream the peer closes, resets or times out, and whose reader is
\* running, is eventually torn down by its reader: the dispatcher gets its
\* terminal InboundClientData (spec.md sections 3, 5 and 8).
EveryClosedStreamTornDown ==
    \A c \in Conns :
       (reader[c] \in {"reading", "draining"} /\ (peerFin[c] \/ rst[c]))
          ~> Terminated(c)

\* A connection that dies while the pool holds its writer does not keep that
\* writer for ever: its reader, which meets the reset, or a failing write
\* has the pool forget it (spec.md 4.3: the reader captures the peer address
\* at construction, and a reader that sees a dead stream sends RemoveStream).
DeadStreamWriterDropped ==
    \A c \in Conns :
       (rst[c] /\ stream_writers[PeerAddr[c]] = c) ~> stream_writers[PeerAddr[c]] # c

\* Once a writer's transmit has failed with a dead-stream error, the pool no
\* longer has that writer when it handles a later TransmitDataMsg for the
\* address: the Transmit meets the "nonexistent stream" error rather than the
\* dead writer (spec.md 6, round trip: "the writer was removed by the first
\* failure").  The writer's RemoveStreamMsg goes to the back of the pool's
\* mailbox, behind Transmits already queued.
TransmitAfterFailureFindsNoStream ==
    [][\A c \in writeFailed :
          (selfSend = NoWriter /\ poolQ # <<>> /\ Head(poolQ).type = "Transmit"
             /\ Head(poolQ).socket_addr = PeerAddr[c])
          => stream_writers[PeerAddr[c]] # c]_vars

-----------------------------------------------------------------------------
(* Refinement: the pool implements StreamPoolSpec.  A connection is        *)
(* accepted once its reader thread exists, and closed once it is shut down *)
(* locally or reset; the writer map, the units read and the dispatcher's   *)
(* messages are the pool's own.                                            *)

Abs == INSTANCE StreamPoolSpec
         WITH accepted <- {c \in Conns : reader[c] # "none"},
              writers  <- stream_writers,
              received <- rcvd,
              closed   <- {c \in Conns : shut[c] \/ rst[c]},
              inbound  <- icd

\* Every step of the pool, its readers, its writers and the peers is a step
\* of StreamPoolSpec or leaves it unchanged: in particular the Remove
\* handler forgets only writers whose connection the reader or the writer
\* has already shut down (or that was reset), and a writer is set up only
\* for a connection that is still open.
RefinesStreamPoolSpec == Abs!Spec

=============================================================================
