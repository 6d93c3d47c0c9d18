---------------------------- MODULE Discriminator ----------------------------
(***************************************************************************)
(* The reader's framing path: wrangle_discriminators feeds each read to    *)
(* the connection's discriminator and drains it with take_chunk until it   *)
(* returns None, sending every chunk to the dispatcher.                    *)
(*                                                                         *)
(* The discriminator is outside this repository.  It is modelled from its  *)
(* contract (spec.md 4.2) and from what the unit test of the pool expects  *)
(* of the HTTP request start finder: a request starts at a request line    *)
(* and ends with the blank line after its headers, and bytes between two   *)
(* requests ("glorp") are dropped.  Bytes are abstracted to three kinds:   *)
(* "M" starts a request line, "E" ends a header block, "x" is any other.   *)
(***************************************************************************)
EXTENDS Integers, Sequences, SequencesExt

CONSTANT MaxBytes   \* bytes the peer sends on the connection

Bytes == {"M", "x", "E"}

\* First index at or after from where s holds b, or 0.
FirstAt(s, from, b) == SelectInSubSeq(s, from, Len(s), LAMBDA y : y = b)

\* Fault variant: the chunk starts at the front of the buffer, so the junk
\* before a request line is sent along with it.
TakeChunkFromStart(buf) ==
    LET m == FirstAt(buf, 1, "M")
        e == IF m = 0 THEN 0 ELSE FirstAt(buf, m + 1, "E")
    IN IF e = 0 THEN [some |-> FALSE, chunk |-> <<>>, rest |-> buf]
       ELSE [some |-> TRUE, chunk |-> SubSeq(buf, 1, e),
             rest |-> SubSeq(buf, e + 1, Len(buf))]

\* take_chunk: the first complete request in the buffer, and the buffer
\* after it; none while no request line is followed by an end of headers.
TakeChunk(buf) ==
    LET m == FirstAt(buf, 1, "M")
        e == IF m = 0 THEN 0 ELSE FirstAt(buf, m + 1, "E")
    IN IF e = 0 THEN [some |-> FALSE, chunk |-> <<>>, rest |-> buf]
       ELSE [some |-> TRUE, chunk |-> SubSeq(buf, m, e),
             rest |-> SubSeq(buf, e + 1, Len(buf))]

\* The take_chunk loop: every chunk, in order, until take_chunk returns None.
RECURSIVE Drain(_)
Drain(buf) ==
    LET t == TakeChunk(buf) IN
    IF ~t.some THEN [chunks |-> <<>>, rest |-> buf]
    ELSE LET d == Drain(t.rest) IN [chunks |-> <<t.chunk>> \o d.chunks, rest |-> d.rest]

\* Fault variant: take_chunk is called once per read.
WrangleOnce(buf, data) ==
    LET t == TakeChunk(buf \o data) IN
    [chunks |-> IF t.some THEN <<t.chunk>> ELSE <<>>, rest |-> t.rest]

\* wrangle_discriminators: add_data, then the take_chunk loop.
Wrangle(buf, data) == Drain(buf \o data)

\* The ways the peer's bytes can arrive: every split of s into nonempty reads.
RECURSIVE Splits(_)
Splits(s) ==
    IF s = <<>> THEN {<<>>}
    ELSE UNION {{<<SubSeq(s, 1, k)>> \o r : r \in Splits(SubSeq(s, k + 1, Len(s)))}
                : k \in 1..Len(s)}

-----------------------------------------------------------------------------
VARIABLES
    stream,     \* every byte the peer sends
    input,      \* the reads still to come, in order
    buf,        \* the discriminator's unframed bytes
    out         \* chunks sent to the dispatcher

vars == <<stream, input, buf, out>>

Init ==
    /\ stream \in SeqOf(Bytes, MaxBytes)
    /\ input \in Splits(stream)
    /\ buf = <<>>
    /\ out = <<>>

\* read returns Ok(length > 0): wrangle_discriminators(&buf, length).
ReadData ==
    /\ input # <<>>
    /\ LET w == Wrangle(buf, Head(input)) IN
          /\ out' = out \o w.chunks
          /\ buf' = w.rest
    /\ input' = Tail(input)
    /\ UNCHANGED stream

Spec == Init /\ [][ReadData]_vars

-----------------------------------------------------------------------------
(* The reference: what framing a byte string means, stated without the    *)
(* algorithm.  The bytes are junk, a request, junk, a request, ..., and a *)
(* remainder; junk holds no request line, a request runs from a request   *)
(* line to the first end of headers, and the remainder holds no complete  *)
(* request.                                                                *)

IsRequest(ch) ==
    /\ Len(ch) >= 2 /\ ch[1] = "M" /\ ch[Len(ch)] = "E"
    /\ \A i \in 1..Len(ch) - 1 : ch[i] # "E"

HoldsRequest(r) == \E i, j \in 1..Len(r) : i < j /\ r[i] = "M" /\ r[j] = "E"

IsFraming(s, chunks) ==
    /\ \A k \in 1..Len(chunks) : IsRequest(chunks[k])
    /\ \E junk \in [1..Len(chunks) -> SeqOf({"x", "E"}, Len(s))] :
          LET framed == FlattenSeq([i \in 1..2 * Len(chunks) |->
                           IF i % 2 = 1 THEN junk[(i + 1) \div 2] ELSE chunks[i \div 2]])
          IN /\ IsPrefix(framed, s)
             /\ ~HoldsRequest(SubSeq(s, Len(framed) + 1, Len(s)))

ReadSoFar == SubSeq(stream, 1, Len(stream) - Len(FlattenSeq(input)))

\* After every read the dispatcher has been sent exactly the requests the
\* bytes read so far contain, each once and in order, however the peer's
\* bytes were split into reads: a request split across reads is kept by the
\* discriminator and sent after the read that completes it, and a read that
\* completes several requests sends them all (wrangle_discriminators and the
\* take_chunk contract of spec.md 4.2).
ChunksFrameBytesRead == IsFraming(ReadSoFar, out)

=============================================================================
