---------------------------- MODULE TransferLoops ----------------------------
(***************************************************************************)
(* The hand-written transfer loops of src/asio-cookbook/ch2_io, as pure    *)
(* operators over the outcomes the socket gives each call:                 *)
(*   - WriteToSocket of write_to_tcp_sync.cpp: a write_some loop;          *)
(*   - WriteToSocket + Callback of write_to_tcp_async.cpp: a chain of      *)
(*     async_write_some calls, each issued from the previous callback;     *)
(*   - writeToSocket + callback of write_tcp_async1.cpp: one               *)
(*     asio::async_write of the whole buffer;                              *)
(*   - ReadFromSocket of read_from_tcp_sync.cpp: a read_some loop filling  *)
(*     a fixed-size message;                                               *)
(*   - the *Enhanced variants, which hand the same loops to asio::write,   *)
(*     asio::async_write and asio::read.                                   *)
(*                                                                         *)
(* An outcome is a natural g: 0 is an error (write_some / read_some throw, *)
(* the callback gets ec != 0), otherwise the kernel moves at most g bytes. *)
(* A buffer is a sequence of bytes; the result is what the peer received   *)
(* (or what was read) and whether the call returned normally.              *)
(***************************************************************************)
EXTENDS Naturals, Sequences

Least(a, b) == IF a < b THEN a ELSE b

\* The result of a transfer: the bytes moved and whether it returned
\* without an exception / error code.
Result(bytes, ok) == [bytes |-> bytes, ok |-> ok]

\* The outcome of the next call; the socket fails every call past the
\* outcomes listed.
Outcome(grants) == IF grants = <<>> THEN 0 ELSE Head(grants)
Later(grants) == IF grants = <<>> THEN <<>> ELSE Tail(grants)

\* One write_some(buffer(buf + total, len - total)) accepted by a kernel
\* that takes at most g bytes: the number of bytes written.
WriteSome(buf, total, g) == Least(g, Len(buf) - total)

RECURSIVE WriteToSocketSync(_, _, _), Callback(_, _, _), ReadFromSocket(_, _, _, _)

\* write_to_tcp_sync.cpp WriteToSocket, from total_bytes_written = total:
\* "while (total != len) total += write_some(buf + total, len - total)";
\* a failing write_some throws out of the loop.
WriteToSocketSync(buf, total, grants) ==
    IF total = Len(buf) THEN Result(<<>>, TRUE)
    ELSE IF Outcome(grants) = 0 THEN Result(<<>>, FALSE)
    ELSE LET n    == WriteSome(buf, total, Outcome(grants))
             rest == WriteToSocketSync(buf, total + n, Later(grants))
         IN  Result(SubSeq(buf, total + 1, total + n) \o rest.bytes, rest.ok)

\* Mutant: the callback assigns total_bytes_written = bytes_transferred.
Callback_mut(buf, total, grants) ==
    IF Outcome(grants) = 0 THEN Result(<<>>, FALSE)
    ELSE LET n    == WriteSome(buf, total, Outcome(grants))
             t    == n
             rest == IF t = Len(buf) THEN Result(<<>>, TRUE)
                     ELSE Callback(buf, t, Later(grants))
         IN  Result(SubSeq(buf, total + 1, total + n) \o rest.bytes, rest.ok)

\* write_to_tcp_async.cpp Callback, invoked for the async_write_some of
\* buf[total..] whose outcome is the next one: return on an error; add
\* bytes_transferred; return when all is written, else issue the next
\* async_write_some of the rest with Callback as its handler.
Callback(buf, total, grants) ==
    IF Outcome(grants) = 0 THEN Result(<<>>, FALSE)
    ELSE LET n    == WriteSome(buf, total, Outcome(grants))
             t    == total + n
             rest == IF t = Len(buf) THEN Result(<<>>, TRUE)
                     ELSE Callback(buf, t, Later(grants))
         IN  Result(SubSeq(buf, total + 1, total + n) \o rest.bytes, rest.ok)

\* write_to_tcp_async.cpp WriteToSocket: a Session with
\* total_bytes_written = 0 and async_write_some of the whole buffer.
WriteToSocketAsync(buf, grants) == Callback(buf, 0, grants)

\* write_tcp_async1.cpp writeToSocket: asio::async_write of the whole
\* buffer.  Its composed operation issues async_write_some for the rest
\* until the buffer is written or one fails, and only then calls
\* callback with that ec: ec == 0 means every byte was written.  (The file
\* hands async_write a shared_ptr<string> and tests "ec != 0", which
\* likely does not compile; this is the composed write it means.)
WriteToSocketAsync1(buf, grants) ==
    LET composed == WriteToSocketSync(buf, 0, grants)
    IN  Result(composed.bytes, composed.ok)

\* write_to_tcp_async.cpp WriteToSocketEnhanced + CallbackEnhanced: the
\* same asio::async_write of the whole buffer, with a callback that only
\* tests ec; the bytes moved are those of the composed operation.
WriteToSocketAsyncEnhanced(buf, grants) == WriteToSocketAsync1(buf, grants)

\* write_to_tcp_sync.cpp WriteToSocketEnhanced: asio::write of the whole
\* buffer, whose composed operation calls write_some on the rest until
\* everything is written and throws the first error.
WriteToSocketEnhanced(buf, grants) == WriteToSocketSync(buf, 0, grants)

\* The bytes one read_some(buffer(buf + read, size - read)) takes when at
\* most g are delivered and the peer sent stream.
ReadSome(stream, size, read, g) == Least(Least(g, size - read), Len(stream) - read)

\* Mutant: total_bytes_read = read_some(...) instead of +=.
ReadFromSocket_mut(stream, size, read, grants) ==
    IF read = size THEN Result(<<>>, TRUE)
    ELSE IF Outcome(grants) = 0 \/ read = Len(stream) THEN Result(<<>>, FALSE)
    ELSE LET n    == ReadSome(stream, size, read, Outcome(grants))
             rest == ReadFromSocket(stream, size, n, Later(grants))
         IN  Result(SubSeq(stream, read + 1, read + n) \o rest.bytes, rest.ok)

\* read_from_tcp_sync.cpp ReadFromSocket: "while (total != MESSAGE_SIZE)
\* total += read_some(buf + total, MESSAGE_SIZE - total)" on a stream
\* whose peer sent the bytes of stream and then closed.  read_some takes
\* at most g of the bytes available; at the end of the stream it throws
\* eof, and an error throws.  The result is buf[0 .. total).
ReadFromSocket(stream, size, read, grants) ==
    IF read = size THEN Result(<<>>, TRUE)
    ELSE IF Outcome(grants) = 0 \/ read = Len(stream) THEN Result(<<>>, FALSE)
    ELSE LET n    == ReadSome(stream, size, read, Outcome(grants))
             rest == ReadFromSocket(stream, size, read + n, Later(grants))
         IN  Result(SubSeq(stream, read + 1, read + n) \o rest.bytes, rest.ok)

\* read_from_tcp_sync.cpp ReadFromSocketEnhanced: asio::read into a buffer
\* of size bytes, whose composed operation calls read_some on the rest
\* until the buffer is full and throws eof or the first error.
ReadFromSocketEnhanced(stream, size, grants) == ReadFromSocket(stream, size, 0, grants)

=============================================================================
