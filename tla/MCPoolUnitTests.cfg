\* The five unit tests that drive the pool through its mailbox, each with
\* every interleaving of its test thread, the pool actor and the reader.
SPECIFICATION Spec
INVARIANT TestAssertionsHold
PROPERTY TestsComplete DeadReadThenTransmitFindsNoStream
CHECK_DEADLOCK FALSE
