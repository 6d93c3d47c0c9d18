# TLA+ model of the Stream Handler Pool

These modules model `node/src/stream_handler_pool.rs`: the actor that owns every
TCP connection of a SubstratumNode, the reader thread it starts for each
connection, and the writer it keeps for each one. Every definition that models
code is listed with its source lines under `"map"` in `PROJECT.json`.

## The system

| Component | Code | State | Operations |
|---|---|---|---|
| StreamHandlerPool actor | `StreamHandlerPool`, its four `Handler` impls | `stream_writers: HashMap<SocketAddr, StreamWriter>`, `dispatcher_subs`, `self_subs`, a bounded actix mailbox | Bind, Add, Remove, Transmit |
| Stream reader | `StreamReaderReal` (one thread per connection) | the read-side clone of the stream, stream key, origin port, the two sinks, one discriminator | new, `handle_traffic` read loop, `wrangle_discriminators` |
| Stream writer | `StreamWriterReal` (runs on the pool's thread) | the write-side clone of the stream, stream key, remove sink | `transmit`, `shutdown` |
| Discriminator | outside this repository (HTTP request start finder in the tests) | framing buffer | `add_data`, `take_chunk` |
| Error classification | `sub_lib::utils` (outside this repository) | none | `indicates_dead_stream`, `indicates_timeout` |
| TCP stream | `TcpStreamWrapper` (outside this repository) | the kernel socket shared by both clones | read, write, shutdown, peer_addr, try_clone |
| Dispatcher, supervisor | other actors | their mailboxes | receive `InboundClientData`; send Bind/Add/Transmit |

How they interact:
- The supervisor sends `PoolBindMessage`, then an `AddStreamMsg` per accepted
  connection and any number of `TransmitDataMsg`s to the pool's mailbox. With
  the constant `BindFirst` FALSE, the model also lets Adds and Transmits reach
  the mailbox before the Bind (`SupervisorBind`).
- For an Add, the pool clones the stream twice and stores a writer under the peer
  address. It then spawns a reader thread.
- The reader reads, feeds the discriminator, and sends every framed chunk to the
  dispatcher's mailbox with `try_send`.
- When the reader meets a dead-stream error, it `try_send`s a `RemoveStreamMsg`
  to the pool, shuts the socket down, and `try_send`s a terminal
  `InboundClientData` to the dispatcher.
- For a Transmit, the pool writes through the writer. A dead-stream write error
  makes the writer shut the socket down and `try_send` a `RemoveStreamMsg` to the
  pool's own mailbox.
- Every `try_send` is followed by `.expect`. A full mailbox
  (`NODE_MAILBOX_CAPACITY`) or a stopped actor panics the sender. That sender is
  the reader thread or, for the writer, the pool actor itself.

What is hard:
- Readers run concurrently with the pool. Their messages interleave with the
  supervisor's in the pool's FIFO mailbox.
- The reader and the writer of a connection share one kernel socket. A pending
  socket error (reset, keepalive timeout) is reported once, to whichever of them
  asks first. After a local `shutdown(Both)`, a peer FIN or a reported reset,
  reads return 0.
- Panics on full mailboxes, and `expect`s on `peer_addr`, which fails with
  ENOTCONN once a connection has been reset.
- The terminal message must eventually be sent, and sent once, for every stream
  that dies.

What makes each component correct:
- Pool: a writer leaves the map only when its own connection dies. A stream error
  never stops the pool. A finished reader's writer is eventually dropped.
- Reader: chunks reach the dispatcher in order, each once. The terminal message
  is last and comes only after every chunk read. Every dead or closed stream is
  eventually torn down.
- Writer: a dead-stream error removes it. Other errors do not.

## Modules

- `IoErrors.tla` holds the `ErrorKind`s and the two classifications. They are
  taken from spec.md 4.1 and from the `indicates_dead_stream` tests in the
  source file.
- `StreamHandlerPool.tla` composes the pool, the readers, the writers, the
  sockets, the dispatcher's mailbox and the supervisor. Bytes are abstracted to
  units numbered in the order the peer sends them. The discriminator frames every
  `FrameLen` units into chunk k, identified by k. State and actions:
  - `poolQ`, `bound`, `poolAlive` and `stream_writers` are the actor.
  - `PoolBind`, `PoolAddStream`, `PoolRemoveStream` and `PoolTransmitData` are
    its handlers. Each handler takes its message from the head of the mailbox.
    `transmit` is the write of `StreamWriterReal::transmit`. Its self-sent
    `RemoveStreamMsg` is a separate step, `PoolWriterRemove`, with `selfSend`
    holding the failed connection. Readers and the supervisor keep filling the
    mailbox while the handler's write blocks, so that self-send can find the
    mailbox full. A panic sets `poolAlive` to FALSE, and the actor does nothing
    after that. `writeFailed` is a history variable: the connections whose
    writer has failed with a dead-stream error.
  - `reader[c]` is the thread's position: none, spawned, reading, draining, done
    or crashed. `disc[c]` is the discriminator. `ReaderStart` is the
    constructor. `ReaderReadData`, `ReaderReadError` and `ReaderDeadStream` are
    the loop's branches. `ReaderTakeChunk` is the take_chunk loop. Ok(0),
    timeouts and benign errors all sleep and go round again. Ok(0) is a stutter
    step; the other two clear the socket's pending error or set `warned`.
  - `sent`, `rcvd`, `peerFin`, `rst`, `sockErr` and `shut` are the socket, with
    the Linux semantics described in the module (`ReadErrors`, `WriteResult`).
    `PeerSend`, `PeerClose` and `PeerReset` are the peer.
  - `dispLen` is the dispatcher's mailbox. `icd[c]` is the history of
    `InboundClientData` sent for connection c.
  - `Abs` instantiates `StreamPoolSpec` with the refinement mapping below.
- `StreamPoolSpec.tla` is what the pool promises, with no mailboxes, threads or
  sockets. A connection is accepted (`Register`), units are read from it
  (`Receive`), its framed chunks go to the dispatcher in order (`Deliver`), and
  one terminal message follows all of them (`Terminate`). Connections close
  (`Close`), and a writer is forgotten only after its connection has closed
  (`Drop`). The mapping from `StreamHandlerPool`:

  | StreamPoolSpec | StreamHandlerPool |
  |---|---|
  | `accepted` | connections whose reader thread exists (`reader[c] # "none"`) |
  | `writers` | `stream_writers` |
  | `received` | `rcvd` |
  | `closed` | connections shut down locally or reset (`shut[c] \/ rst[c]`) |
  | `inbound` | `icd` |

- `Discriminator.tla` is the reader's framing path with a concrete framer. Bytes
  are "M" (a request line starts), "E" (the headers end) and "x". The framer is
  modelled from spec.md 4.2 and from the pool's first unit test, where the
  junk "glorp" between two requests is dropped. `TakeChunk` is `take_chunk`.
  `Drain` (RECURSIVE) is the take_chunk loop and `Wrangle` is
  `wrangle_discriminators`. `Splits` (RECURSIVE) gives every way the peer's
  bytes can arrive as reads. `IsFraming` is a reference definition of framing
  with no algorithm in it: junk, request, junk, request, ..., remainder.
- `PoolUnitTests.tla` runs the five unit tests that drive the pool through its
  mailbox. A test is a record: the results its `TcpStreamWrapperMock`s return
  (peer_addr, set_read_timeout, read, write) and the test thread's steps (send
  Bind, Add or Transmit; wait for a recording count, the read mock's log or a
  log line; assert). `TestStep` is the test thread, `PoolStep` the pool's
  handlers against the mocks, and `ReaderNew` ... `ReaderTerminal` the reader
  thread, with the dead-stream branch split at its three visible effects
  (Remove queued, shutdown logged, terminal message recorded). Framing uses
  `Discriminator!Wrangle`, and the tests' three requests are told apart by
  their lengths. A mock call whose scripted results are used up never
  returns, and an empty factory list panics the reader in `new`, as in the
  recalcitrant-writer test.
- `MCStreamHandlerPool.tla` instantiates the pool model with one or two
  connections:
  - from distinct peer addresses (`MCPeerAddrDistinct`);
  - or with the second reconnecting from the first one's address (`MCPeerAddrShared`).

Fault variants (`...Keeps`, `...NoRemove`, `...Once`, `...Early`,
`...NoPeerCheck`, `...FromStart`, `transmitNoRemove`) sit in front of the definitions they alter.
Each one is a plausible bug that one of the properties must catch (`"mutants"`
in PROJECT.json).

## Runs

| Run | cfg | Result | What it shows |
|---|---|---|---|
| safety | MCSafety.cfg | pass | `TypeOK`, `NoLeakedWriter` and `RefinesStreamPoolSpec`, with mailboxes of 2 (pool) and 1 (dispatcher) that do overflow, so readers and the pool really do panic. `FrameLen` is 2 and up to 3 units are sent, so reads leave unframed remainders. With distinct peer addresses, the pool implements `StreamPoolSpec` (1.2M states). With distinct addresses every Remove is for a closed connection, and each connection has at most one chunk, so the refinement mostly checks `Register` and `Drop`. |
| liveness | MCLiveness.cfg | pass | `ReaderTeardownCompletes`: once a reader finishes, the pool drops that connection's writer. `FailedWriterDropped`: once a writer's transmit fails with a dead-stream error, the pool drops that writer. The self-sent Remove is queued behind everything already waiting, and the pool still handles it. The second connection reconnects from the first one's address, and the Bind may come after Adds and Transmits (200k states). Assumes mailboxes too large to fill and no connection dying before set-up. |
| framing | MCFraming.cfg | pass | `StreamOrder`: each connection's dispatcher traffic is its chunks 1, 2, ... in order and once each, and at most one terminal message, after every complete chunk that was read. `FrameLen` is 1 and a read returns up to 3 units, so one read frames several chunks. The dispatcher mailbox holds 2, so a reader can panic in the middle of the take_chunk loop; what it sent before the panic must still be a gap-free prefix (3.3M states). |
| discriminator | MCDiscriminator.cfg | pass | `ChunksFrameBytesRead`: every string of up to 5 bytes, split into reads in every way. After each read, the dispatcher has exactly the requests that the reference framing finds in the bytes read so far. |
| unit_tests | MCPoolUnitTests.cfg | pass | `TestAssertionsHold`, `TestsComplete`, `DeadReadThenTransmitFindsNoStream`: each test's assertions hold, and each of its waits is eventually satisfied, in every interleaving of the test thread, the pool and the reader. After a dead read, the test's Transmit meets "nonexistent stream", because the reader queues its Remove before it shuts the stream down. |
| stale_remove | MCStaleRemove.cfg | violation | `WriterRemovedOnlyByOwner`: a reconnection from the same address loses its writer to the old reader's RemoveStreamMsg. |
| early_reset | MCEarlyReset.cfg | violation | `PoolSurvivesStreamErrors`: a reset before the Add is handled panics the pool at `peer_addr().expect`. That is a stop spec.md 7 does not allow. |
| peer_close | MCPeerClose.cfg | violation | `EveryClosedStreamTornDown`: after a FIN every read returns 0, the reader sleeps forever, and no terminal message is sent. |
| timed_out | MCTimedOut.cfg | violation | The same property: `TimedOut` is tested as a timeout before it is tested as dead. |
| writer_takes_reset | MCWriterTakesReset.cfg | violation | The same property: the writer consumes the reset and shuts the socket down, so the reader only sees 0. |
| startup_reset | MCStartupReset.cfg | violation | `DeadStreamWriterDropped`: a reset after the Add handler but before the reader thread's `peer_addr` panics that thread (`:130`). The writer then stays in the pool for ever. |
| requeued_transmit | MCRequeuedTransmit.cfg | violation | `TransmitAfterFailureFindsNoStream`: spec.md 6 says a Transmit after a failed dead-stream write meets "nonexistent stream". The writer's RemoveStreamMsg goes to the back of the mailbox (`:188`), so a Transmit queued ahead of it finds the dead writer and writes to the shut socket again. |

Bounds:
- Two connections, so that a reconnection and cross-connection interleaving in
  the pool's mailbox exist.
- `framing`: up to 3 units per connection, reads of up to 3 units and
  `FrameLen` 1, so that one read frames up to three chunks and the take_chunk
  loop runs several times. Its dispatcher mailbox of 2 fills in the middle of
  that loop.
- `FrameLen` 2 in the safety run, so that an unframed remainder is left in the
  discriminator. In the liveness run, one unit per connection, framed as one
  chunk.
- The violation runs `peer_close`, `timed_out` and `writer_takes_reset` have
  a dispatcher mailbox of 5. Two connections send at most 4 messages, so a
  reader panicking on a full dispatcher mailbox cannot stand in for the finding.
- One Transmit, so that writes race reads on the same socket.
- Mailboxes of 2 and 1 in the safety run, so that every overflow panic is
  reachable.
- `requeued_transmit`: one connection and two Transmits, the least that puts a
  second Transmit behind a failing one.
- `liveness`: two connections from the same peer address (a reconnection) and
  one Transmit, with a Bind that may come after them. This is enough for a
  failed write to queue its Remove behind the other connection's Add or Remove.
- `unit_tests`: the tests' own scripts; nothing is bounded beyond them.
- Five bytes in the discriminator run: enough for two requests in one read, a
  request split across reads, and junk before, between and after requests.

Fairness: the actix arbiter runs the pool and the dispatcher whenever their
mailboxes hold messages, and each reader has its own OS thread. So `PoolStep`,
`DispatcherReceive` and each `ReaderStep(c)` are weakly fair. Peers and the
supervisor get no fairness. Deadlock is not checked: the system can legitimately
sit idle, with every reader blocked on a quiet socket. In `PoolUnitTests` the
test thread, the pool and the reader are each weakly fair; a test ends with
its threads blocked on mocks whose results are used up, so deadlock is not
checked there either, and `TestsComplete` says instead that no wait hangs.

## Not modelled

- Logging text.
- `make_subs_from` and the `Debug` impl.
- `Endpoint::Key`/`Endpoint::Ip`, which panic with `unimplemented!` and are never
  sent by the modelled supervisor.
- An empty factory list in the pool model. spec.md 4.3 calls it a programmer
  error, and the reader panics in `new`. `PoolUnitTests` has it, since three
  tests send one.
- Discriminators other than the first (the code uses only `factories[0]`).
- TLS and other framers.
- A write that blocks because the peer does not read. spec.md 5 assumes the
  OS drains writers quickly, so every write returns at once in the model.
- Short writes. spec.md 4.4 has `transmit` return the count written, once,
  and a message's bytes are one unit here.
- The two transmit tests that end with `SystemExit` and `system.run()`
  (smooth write, terminal packet). Whether the pool handles its mailbox
  before the event loop stops depends on actix's scheduling, which is outside
  this repository. The constructor, `indicates_dead_stream` and `Debug` tests
  make one call each and have no interleaving.

The panics that spec.md accepts are reached, but no property calls them
wrong. These are the reader's try_sends to a full pool or dispatcher mailbox
(`:105`, `:163`), the writer's self-send to a full pool mailbox (`:188`), and
an Add handled before the Bind (`:249`). The safety, framing and liveness runs
reach them. `PoolSurvivesStreamErrors` lets them stop the pool, so that the
`early_reset` run reports only the stop spec.md 7 does not allow.

The socket semantics come from `std::net::TcpStream` on Linux, since the wrapper
is outside this repository. That behaviour is the basis for four findings:
reads return 0 at EOF, a socket error is reported once, and `getpeername` fails
after a reset (in the pool and in the reader).

Of `stream_handler_pool.rs`, what no definition maps is:
- the `use` lines;
- the `StreamReader`/`StreamWriter` trait declarations;
- `StreamHandlerPoolSubs`'s `Clone`;
- the constructor tests, the two `SystemExit` tests and the `Debug` test above.

Every state change of the file is an action of a module. The components that
stay "partly" modelled are those whose code is outside this repository: the
discriminator, `TcpStreamWrapper`, and the dispatcher and supervisor.

## Plan

1. (done) `IoErrors`, `StreamHandlerPool` core, MC module, safety and liveness
   runs, and the first five violations.
2. (done) `StreamPoolSpec` and the refinement run. The `:130` start-up reset.
   `Discriminator.tla`. A three-connection reconnect run, since replaced by the
   framing run.
3. (done) Add before Bind (in `liveness`). The re-queued Transmit after a failed
   write (`requeued_transmit`). The unit tests as scripted runs
   (`PoolUnitTests`).
4. (done) The liveness run on a reconnection from one peer address. The
   hazards of the write path (a blocking write, a short write, a Transmit
   keyed only by address), each with the reason no property covers it.

5. (done) `StreamOrder` moved to the framing run, where one read frames several
   chunks. `FailedWriterDropped` replaced the liveness run's check of the
   pool's panics, which held by the shape of the model.

What is left is not worth a module:
- Transmit order per connection. The pool handles Transmits one at a time in
  mailbox order, so the order is a restatement of the FIFO. Its real risks
  are short writes and address-keyed delivery, which are listed as hazards.
- A refinement under shared peer addresses. `StreamPoolSpec` would have to
  allow what `stale_remove` shows, which the spec does not.
- A dispatcher that stops. The code only panics on it, and spec.md 7 calls it
  fatal.
