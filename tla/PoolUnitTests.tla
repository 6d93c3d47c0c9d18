--------------------------- MODULE PoolUnitTests ---------------------------
(***************************************************************************)
(* The unit tests of stream_handler_pool.rs that drive the pool through    *)
(* its mailbox, run against the scripted mocks they set up.  A test is a   *)
(* script: the results its TcpStreamWrapperMocks return (peer_addr,        *)
(* set_read_timeout, read, write) and the steps of the test thread (send   *)
(* Bind, Add or Transmit, wait for a recording, a mock log or a log line,  *)
(* assert).  The test thread, the pool actor and the reader thread the     *)
(* pool spawns run interleaved, as they do in the test.                    *)
(*                                                                         *)
(* The mocks are outside this repository; they are modelled from spec.md   *)
(* section 9: each call takes the next scripted result and is recorded in  *)
(* the mock's log, and a call whose results are used up does not return.   *)
(* Bytes are the abstraction of Discriminator.tla: the three requests of   *)
(* the tests are told apart by their lengths.                              *)
(***************************************************************************)
EXTENDS Integers, Sequences, IoErrors

D == INSTANCE Discriminator WITH MaxBytes <- 0, stream <- <<>>, input <- <<>>,
                                 buf <- <<>>, out <- <<>>

\* The requests of the tests, and the "glorp" between two of them.
GET    == <<"M", "E">>
DELETE == <<"M", "x", "E">>
HEAD   == <<"M", "x", "x", "E">>
Glorp  == <<"x">>

Ok(bytes) == [kind |-> "Ok", data |-> bytes]
Err(kind) == [kind |-> kind, data |-> <<>>]
Step(op, arg) == [op |-> op, arg |-> arg]

DataIcd(bytes) == [last_data |-> FALSE, data |-> bytes]
TerminalIcd == [last_data |-> TRUE, data |-> <<>>]

\* a_newly_added_stream_produces_stream_handler_that_sends_received_data_to_dispatcher
HappyPath ==
    [ peer |-> <<"Ok">>, timeouts |-> 1, factories |-> TRUE, writes |-> <<>>,
      reads |-> <<Ok(GET), Ok(DELETE \o Glorp \o HEAD), Err("BrokenPipe"), Ok(GET)>>,
      steps |-> <<Step("bind", 0), Step("add", 0), Step("await_count", 4),
                  Step("assert", "happy_path")>> ]

\* non_dead_stream_read_errors_log_but_do_not_terminate_handling
NonDeadReadError ==
    [ peer |-> <<"Ok">>, timeouts |-> 1, factories |-> TRUE, writes |-> <<>>,
      reads |-> <<Err("Other"), Ok(GET), Err("BrokenPipe")>>,
      steps |-> <<Step("bind", 0), Step("add", 0), Step("await_count", 1),
                  Step("assert", "warned_then_get")>> ]

\* receiving_from_a_dead_existing_stream_removes_writer_but_writes_no_error_log
DeadRead ==
    [ peer |-> <<"Ok", "NotConnected">>, timeouts |-> 1, factories |-> TRUE,
      writes |-> <<>>, reads |-> <<Err("ConnectionRefused")>>,
      steps |-> <<Step("bind", 0), Step("add", 0), Step("await_read_log", 3),
                  Step("transmit", FALSE), Step("assert", "dead_read")>> ]

\* transmitting_down_a_recalcitrant_existing_stream_produces_an_error_log_and_removes_writer
Recalcitrant ==
    [ peer |-> <<"Ok", "NotConnected">>, timeouts |-> 0, factories |-> FALSE,
      writes |-> <<"BrokenPipe">>, reads |-> <<Ok(Glorp)>>,
      steps |-> <<Step("bind", 0), Step("add", 0), Step("transmit", FALSE),
                  Step("await_log", "cannot_transmit"), Step("transmit", FALSE),
                  Step("await_log", "nonexistent_stream"),
                  Step("assert", "writer_shut_once")>> ]

\* transmitting_on_an_unknown_socket_addr_produces_an_error_log
UnknownAddr ==
    [ peer |-> <<>>, timeouts |-> 0, factories |-> TRUE, writes |-> <<>>, reads |-> <<>>,
      steps |-> <<Step("bind", 0), Step("transmit", FALSE),
                  Step("await_log", "nonexistent_stream")>> ]

Tests == {HappyPath, NonDeadReadError, DeadRead, Recalcitrant, UnknownAddr}

-----------------------------------------------------------------------------
VARIABLES
    test,           \* the test being run
    tpc,            \* index of the test thread's next step
    poolQ,          \* the pool's mailbox
    bound,          \* the pool has handled PoolBindMessage
    stream_writers, \* TRUE while the pool has a writer for the test's address
    reader,         \* "none", "spawned", "started", "reading", "shutting",
                    \* "ending", "done", or "dead" after a panic
    dbuf,           \* the discriminator's unframed bytes
    peerResults,    \* the read mock's peer_addr results still to come
    timeoutResults, \* the read mock's set_read_timeout results still to come
    readResults,    \* the read mock's read results still to come
    writeResults,   \* the write mock's write results still to come
    readLog,        \* the read mock's log
    writeLog,       \* the write mock's log of shutdowns
    writeParams,    \* number of writes the write mock was given
    recording,      \* InboundClientData the dispatcher's Recorder received
    logs            \* the log lines written (as their kinds)

vars == <<test, tpc, poolQ, bound, stream_writers, reader, dbuf, peerResults,
          timeoutResults, readResults, writeResults, readLog, writeLog,
          writeParams, recording, logs>>
mockVars == <<peerResults, timeoutResults, readResults, writeResults>>

Init ==
    /\ test \in Tests
    /\ tpc = 1
    /\ poolQ = <<>>
    /\ bound = FALSE
    /\ stream_writers = FALSE
    /\ reader = "none"
    /\ dbuf = <<>>
    /\ peerResults = test.peer
    /\ timeoutResults = test.timeouts
    /\ readResults = test.reads
    /\ writeResults = test.writes
    /\ readLog = <<>>
    /\ writeLog = <<>>
    /\ writeParams = 0
    /\ recording = <<>>
    /\ logs = {}

-----------------------------------------------------------------------------
(* The test thread.  Sends are try_send(..).unwrap() on the pool's        *)
(* mailbox; the waits (awaiter.await_message_count, wait_until on the read *)
(* mock's log, TestLogHandler.await_log_containing) block until they hold; *)
(* an assertion is checked where the test makes it (TestAssertionsHold).   *)

Waited(s) ==
    CASE s.op = "await_count"    -> Len(recording) >= s.arg
      [] s.op = "await_read_log" -> Len(readLog) = s.arg
      [] s.op = "await_log"      -> s.arg \in logs
      [] OTHER                   -> TRUE

Sent(s) ==
    CASE s.op = "bind"     -> <<[type |-> "Bind"]>>
      [] s.op = "add"      -> <<[type |-> "Add"]>>
      [] s.op = "transmit" -> <<[type |-> "Transmit", last_data |-> s.arg]>>
      [] OTHER             -> <<>>

TestStep ==
    /\ tpc <= Len(test.steps)
    /\ Waited(test.steps[tpc])
    /\ poolQ' = poolQ \o Sent(test.steps[tpc])
    /\ tpc' = tpc + 1
    /\ UNCHANGED <<test, bound, stream_writers, reader, dbuf, mockVars, readLog,
                   writeLog, writeParams, recording, logs>>

-----------------------------------------------------------------------------
(* The pool actor, handling its mailbox in order.  Every test binds the    *)
(* pool first and its mocks clone without error, so the unbound and clone *)
(* failure paths, which StreamHandlerPool.tla covers, do not arise here.   *)

PoolBind ==
    /\ bound' = TRUE
    /\ UNCHANGED <<stream_writers, reader, writeResults, writeLog, writeParams, logs>>

\* Both clones succeed; set_up_stream_writer inserts the writer under the
\* write mock's peer address and set_up_stream_reader spawns the reader.
PoolAddStream ==
    /\ stream_writers' = TRUE
    /\ reader' = "spawned"
    /\ UNCHANGED <<bound, writeResults, writeLog, writeParams, logs>>

\* Fault variant: the Remove handler leaves the writer in the map.
PoolRemoveStreamKeeps ==
    /\ UNCHANGED <<bound, stream_writers, reader, writeResults, writeLog, writeParams, logs>>

PoolRemoveStream ==
    /\ stream_writers' = FALSE
    /\ UNCHANGED <<bound, reader, writeResults, writeLog, writeParams, logs>>

\* Fault variant: a failed write shuts the stream down but never sends the
\* pool its RemoveStreamMsg.
transmitNoRemove(last_data) ==
    LET r    == Head(writeResults)
        dead == r # "Ok" /\ indicates_dead_stream(r)
    IN
    /\ writeResults # <<>>
    /\ writeResults' = Tail(writeResults)
    /\ writeParams' = writeParams + 1
    /\ writeLog' = writeLog \o (IF dead THEN <<"shutdown">> ELSE <<>>)
                             \o (IF last_data THEN <<"shutdown">> ELSE <<>>)
    /\ poolQ' = Tail(poolQ)
    /\ logs' = IF r = "Ok" THEN logs ELSE logs \cup {"cannot_transmit"}

\* The writer's transmit: the write mock takes the data and returns its next
\* result; a dead-stream error shuts the stream down and sends the pool its
\* own RemoveStreamMsg, and every error is logged ("Cannot transmit N
\* bytes: ...").  A terminal message then shuts the stream down.
transmit(last_data) ==
    LET r    == Head(writeResults)
        dead == r # "Ok" /\ indicates_dead_stream(r)
    IN
    /\ writeResults # <<>>
    /\ writeResults' = Tail(writeResults)
    /\ writeParams' = writeParams + 1
    /\ writeLog' = writeLog \o (IF dead THEN <<"shutdown">> ELSE <<>>)
                             \o (IF last_data THEN <<"shutdown">> ELSE <<>>)
    /\ poolQ' = Tail(poolQ) \o (IF dead THEN <<[type |-> "Remove"]>> ELSE <<>>)
    /\ logs' = IF r = "Ok" THEN logs ELSE logs \cup {"cannot_transmit"}

PoolTransmitData ==
    \/ /\ ~stream_writers
       /\ poolQ' = Tail(poolQ)
       /\ logs' = logs \cup {"nonexistent_stream"}
       /\ UNCHANGED <<writeResults, writeLog, writeParams>>
    \/ /\ stream_writers
       /\ transmit(Head(poolQ).last_data)
    /\ UNCHANGED <<bound, stream_writers, reader>>

PoolStep ==
    /\ poolQ # <<>>
    /\ \/ Head(poolQ).type = "Bind"     /\ PoolBind     /\ poolQ' = Tail(poolQ)
       \/ Head(poolQ).type = "Add"      /\ PoolAddStream /\ poolQ' = Tail(poolQ)
       \/ Head(poolQ).type = "Remove"   /\ PoolRemoveStream /\ poolQ' = Tail(poolQ)
       \/ Head(poolQ).type = "Transmit" /\ PoolTransmitData
    /\ UNCHANGED <<test, tpc, dbuf, peerResults, timeoutResults, readResults,
                   readLog, recording>>

-----------------------------------------------------------------------------
(* The reader thread spawned by set_up_stream_reader. *)

\* StreamReaderReal::new: peer_addr().expect, then the panic on an empty
\* factory list; then handle_traffic's local_addr and set_read_timeout(None).
ReaderNew ==
    /\ reader = "spawned"
    /\ peerResults # <<>>
    /\ peerResults' = Tail(peerResults)
    /\ reader' = IF Head(peerResults) = "Ok" /\ test.factories THEN "started" ELSE "dead"
    /\ UNCHANGED <<timeoutResults, readResults, readLog, poolQ, dbuf, recording, logs>>

ReaderSetTimeout ==
    /\ reader = "started"
    /\ timeoutResults > 0
    /\ timeoutResults' = timeoutResults - 1
    /\ readLog' = Append(readLog, "set_read_timeout")
    /\ reader' = "reading"
    /\ UNCHANGED <<peerResults, readResults, poolQ, dbuf, recording, logs>>

\* One pass of the read loop (no test scripts a timeout, which only sleeps;
\* StreamHandlerPool.tla has that branch): Ok(0) sleeps, Ok(n) is framed by
\* wrangle_discriminators, a dead-stream error sends RemoveStreamMsg (and
\* goes on to ReaderShutdown), and any other error is logged as a warning.
ReaderRead ==
    LET r == Head(readResults) IN
    /\ reader = "reading"
    /\ readResults # <<>>
    /\ readResults' = Tail(readResults)
    /\ \/ /\ r.kind = "Ok"
          /\ LET w == D!Wrangle(dbuf, r.data) IN
                /\ recording' = recording \o [i \in 1..Len(w.chunks) |-> DataIcd(w.chunks[i])]
                /\ dbuf' = w.rest
          /\ readLog' = Append(readLog, "read")
          /\ UNCHANGED <<reader, poolQ, logs>>
       \/ /\ r.kind # "Ok" /\ ~indicates_timeout(r.kind) /\ indicates_dead_stream(r.kind)
          /\ poolQ' = Append(poolQ, [type |-> "Remove"])
          /\ readLog' = Append(readLog, "read")
          /\ reader' = "shutting"
          /\ UNCHANGED <<dbuf, recording, logs>>
       \/ /\ r.kind # "Ok" /\ ~indicates_timeout(r.kind) /\ ~indicates_dead_stream(r.kind)
          /\ readLog' = Append(readLog, "read")
          /\ logs' = logs \cup {"continuing_after_read_error"}
          /\ UNCHANGED <<reader, dbuf, poolQ, recording>>
    /\ UNCHANGED <<peerResults, timeoutResults>>

\* The rest of the dead-stream branch: shutdown(Both) on the read mock, then
\* the terminal InboundClientData, and the loop ends.
ReaderShutdown ==
    /\ reader = "shutting"
    /\ readLog' = Append(readLog, "shutdown")
    /\ reader' = "ending"
    /\ UNCHANGED <<peerResults, timeoutResults, readResults, poolQ, dbuf, recording, logs>>

ReaderTerminal ==
    /\ reader = "ending"
    /\ recording' = Append(recording, TerminalIcd)
    /\ reader' = "done"
    /\ UNCHANGED <<peerResults, timeoutResults, readResults, readLog, poolQ, dbuf, logs>>

ReaderStep ==
    /\ ReaderNew \/ ReaderSetTimeout \/ ReaderRead \/ ReaderShutdown \/ ReaderTerminal
    /\ UNCHANGED <<test, tpc, bound, stream_writers, writeResults, writeLog, writeParams>>

Next == TestStep \/ PoolStep \/ ReaderStep

\* The test thread, the pool's event loop and the reader thread all keep
\* running while they can.
Spec == Init /\ [][Next]_vars /\ WF_vars(TestStep) /\ WF_vars(PoolStep) /\ WF_vars(ReaderStep)

-----------------------------------------------------------------------------
(* Properties. *)

\* What each test asserts, at the point where it asserts it.
Asserted(what) ==
    CASE what = "happy_path" ->
              /\ recording = <<DataIcd(GET), DataIcd(DELETE), DataIcd(HEAD), TerminalIcd>>
              /\ readLog[1] = "set_read_timeout"
      [] what = "warned_then_get" ->
              /\ "continuing_after_read_error" \in logs
              /\ recording[1] = DataIcd(GET)
      [] what = "dead_read" ->
              /\ "continuing_after_read_error" \notin logs
              /\ readLog = <<"set_read_timeout", "read", "shutdown">>
      [] what = "writer_shut_once" ->
              writeLog = <<"shutdown">>

\* Every assertion of every test holds in every interleaving of the test
\* thread, the pool actor and the reader thread: the tests are not flaky.
\* The happy-path test in particular sees its three requests framed in
\* order, the "glorp" dropped and one terminal message after them.
TestAssertionsHold ==
    tpc <= Len(test.steps) /\ test.steps[tpc].op = "assert"
        => Asserted(test.steps[tpc].arg)

\* Every wait of every test is eventually satisfied: no test hangs until
\* its awaiter or await_log_containing times out.
TestsComplete == <>(tpc > Len(test.steps))

\* spec.md section 9, scenario 3: after a dead read, a Transmit to the
\* socket address meets "nonexistent stream".  The test sends it once the
\* read mock has logged the reader's shutdown, and the reader queues its
\* RemoveStreamMsg before it shuts the stream down.
DeadReadThenTransmitFindsNoStream ==
    test = DeadRead => <>("nonexistent_stream" \in logs)

=============================================================================
