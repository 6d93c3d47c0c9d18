------------------------------ MODULE IoErrors ------------------------------
(***************************************************************************)
(* The std::io::ErrorKind values a TcpStreamWrapper can report, and the    *)
(* two classifications sub_lib::utils puts on them (indicates_dead_stream, *)
(* indicates_timeout).  sub_lib is not part of this repository's sources,  *)
(* so both classifications are taken from spec.md section 4.1 and from the *)
(* indicates_dead_stream tests at the end of stream_handler_pool.rs.       *)
(***************************************************************************)

ErrorKinds ==
    { "NotFound", "PermissionDenied", "ConnectionRefused", "ConnectionReset",
      "ConnectionAborted", "NotConnected", "AddrInUse", "AddrNotAvailable",
      "BrokenPipe", "AlreadyExists", "WouldBlock", "InvalidInput",
      "InvalidData", "TimedOut", "WriteZero", "Interrupted", "Other",
      "UnexpectedEof" }

\* Kinds after which the connection cannot continue.
DeadStreamKinds ==
    { "BrokenPipe", "ConnectionRefused", "ConnectionReset",
      "ConnectionAborted", "TimedOut" }

\* Kinds a reader treats as "nothing arrived yet".
TimeoutKinds == { "WouldBlock", "TimedOut" }

indicates_dead_stream(kind) == kind \in DeadStreamKinds

indicates_timeout(kind) == kind \in TimeoutKinds

=============================================================================
