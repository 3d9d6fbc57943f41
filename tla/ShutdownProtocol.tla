--------------------------- MODULE ShutdownProtocol ---------------------------
(***************************************************************************)
(* The request/response exchange delimited by shutdown(shutdown_send) of   *)
(* src/asio-cookbook/ch2_io: the client of socket_shutdown_client1.cpp     *)
(* (async_connect, retried from ConnCallback until it succeeds, then       *)
(* Communicate: asio::write the request, shutdown_send, asio::read the     *)
(* response until eof), or the client of socket_shutdown_client.cpp       *)
(* (a blocking connect that throws when refused, then the same             *)
(* Communicate), against socket_shutdown_server.cpp (accept one            *)
(* connection, then ProcessRequest: asio::read the request until eof,      *)
(* asio::write the response, shutdown_send).                               *)
(*                                                                         *)
(* A TCP connection is one byte stream per direction: the bytes in flight  *)
(* (at most Cap, the room the receiver's kernel gives) and a FIN flag.     *)
(* asio::write is a loop of write_some steps, each moving 1..room bytes;   *)
(* asio::read into a streambuf is a loop of read_some steps, each taking   *)
(* some of the bytes in flight, that ends with eof once the FIN is read.   *)
(* The connection may be reset (peer crash, network) at any time: the     *)
(* bytes in flight are lost and every later call fails.                    *)
(***************************************************************************)
EXTENDS Naturals, Sequences, TransferLoops

CONSTANTS
    Request,    \* the bytes of request_buf
    Response,   \* the bytes of response_buf
    Cap         \* bytes a direction holds in flight

ASSUME Cap \in Nat \ {0}

VARIABLES
    variant,  \* which client program runs: client1 (async) or client (sync)
    srv,      \* the server's control point
    cli,      \* the client's control point
    cst,      \* the client's async_connect: pending, or completed ok/refused
    conn,     \* the TCP connection is established
    reset,    \* the connection was reset
    c2s,      \* request bytes in flight
    c2sFin,   \* the client's FIN has been sent
    s2c,      \* response bytes in flight
    s2cFin,   \* the server's FIN has been sent
    cw,       \* request bytes asio::write has written so far
    sreq,     \* request_buf (streambuf) of ProcessRequest
    sw,       \* response bytes asio::write has written so far
    cresp,    \* response_buf (streambuf) of Communicate
    cgrants,  \* ghost: bytes each write_some of the client's asio::write took
    sgrants   \* ghost: bytes each read_some of the server's asio::read took

vars == <<variant, srv, cli, cst, conn, reset, c2s, c2sFin, s2c, s2cFin, cw, sreq, sw, cresp,
          cgrants, sgrants>>

SrvPcs == {"down", "listening", "reading", "writing", "shutdown", "done", "failed"}
CliPcs == {"connecting", "writing", "shutdown", "reading", "done", "failed"}

TypeOK ==
    /\ variant \in {"client1", "client"}
    /\ srv \in SrvPcs /\ cli \in CliPcs
    /\ cst \in {"pending", "ok", "refused"}
    /\ conn \in BOOLEAN /\ reset \in BOOLEAN
    /\ c2sFin \in BOOLEAN /\ s2cFin \in BOOLEAN
    /\ cw \in 0..Len(Request) /\ sw \in 0..Len(Response)
    /\ Len(c2s) <= Cap /\ Len(s2c) <= Cap
    \* a side sends its FIN only after asio::write has written everything
    /\ c2sFin => cw = Len(Request)
    /\ s2cFin => sw = Len(Response)

\* Both programs start: the server has not yet constructed its acceptor;
\* the client has allocated a socket (client1 has issued async_connect).
Init ==
    /\ variant \in {"client1", "client"}
    /\ srv = "down" /\ cli = "connecting" /\ cst = "pending"
    /\ conn = FALSE /\ reset = FALSE
    /\ c2s = <<>> /\ c2sFin = FALSE /\ s2c = <<>> /\ s2cFin = FALSE
    /\ cw = 0 /\ sreq = <<>> /\ sw = 0 /\ cresp = <<>>
    /\ cgrants = <<>> /\ sgrants = <<>>

-----------------------------------------------------------------------------
(* The server (socket_shutdown_server.cpp).                                 *)

\* main: acceptor(ioc, ep) binds and listens, or throws (address in use,
\* address not local) and main returns the error code.
ServerListen ==
    /\ srv = "down"
    /\ srv' \in {"listening", "failed"}
    /\ UNCHANGED <<variant, cli, cst, conn, reset, c2s, c2sFin, s2c, s2cFin, cw, sreq, sw, cresp, cgrants, sgrants>>

\* acceptor.accept(sock) returns the established connection.
ServerAccept ==
    /\ srv = "listening" /\ conn
    /\ srv' = "reading"
    /\ UNCHANGED <<variant, cli, cst, conn, reset, c2s, c2sFin, s2c, s2cFin, cw, sreq, sw, cresp, cgrants, sgrants>>

\* ProcessRequest, asio::read(sock, request_buf, ec): one read_some.
ServerReadSome ==
    /\ srv = "reading" /\ ~reset /\ c2s # <<>>
    /\ \E k \in 1..Len(c2s) :
         /\ sreq' = sreq \o SubSeq(c2s, 1, k)
         /\ c2s' = SubSeq(c2s, k + 1, Len(c2s))
         /\ sgrants' = Append(sgrants, k)
    /\ UNCHANGED <<variant, srv, cli, cst, conn, reset, c2sFin, s2c, s2cFin, cw, sw, cresp, cgrants>>

\* Mutant: asio::read also ends when nothing is in flight, FIN or not.
ServerEof_mut ==
    /\ srv = "reading" /\ ~reset /\ c2s = <<>>
    /\ srv' = "writing"
    /\ UNCHANGED <<variant, cli, cst, conn, reset, c2s, c2sFin, s2c, s2cFin, cw, sreq, sw, cresp, cgrants, sgrants>>

\* asio::read returns ec == eof once the client's FIN is read: the request
\* is complete and the response is written next.
ServerEof ==
    /\ srv = "reading" /\ ~reset /\ c2s = <<>> /\ c2sFin
    /\ srv' = "writing"
    /\ UNCHANGED <<variant, cli, cst, conn, reset, c2s, c2sFin, s2c, s2cFin, cw, sreq, sw, cresp, cgrants, sgrants>>

\* asio::write(sock, buffer(response_buf)): one write_some into the room
\* the connection has; the write returns once all is written.
ServerWriteSome ==
    /\ srv = "writing" /\ ~reset /\ sw < Len(Response) /\ Len(s2c) < Cap
    /\ \E k \in 1..Cap - Len(s2c) :
         /\ k <= Len(Response) - sw
         /\ s2c' = s2c \o SubSeq(Response, sw + 1, sw + k)
         /\ sw' = sw + k
         /\ srv' = IF sw + k = Len(Response) THEN "shutdown" ELSE "writing"
    /\ UNCHANGED <<variant, cli, cst, conn, reset, c2s, c2sFin, s2cFin, cw, sreq, cresp, cgrants, sgrants>>

\* sock.shutdown(shutdown_send): the FIN follows the response; main returns.
ServerShutdown ==
    /\ srv = "shutdown" /\ ~reset
    /\ s2cFin' = TRUE /\ srv' = "done"
    /\ UNCHANGED <<variant, cli, cst, conn, reset, c2s, c2sFin, s2c, cw, sreq, sw, cresp, cgrants, sgrants>>

\* On a reset, asio::read returns ec != eof and ProcessRequest throws;
\* asio::write and shutdown throw.  main catches and returns the code.
ServerError ==
    /\ srv \in {"reading", "writing", "shutdown"} /\ reset
    /\ srv' = "failed"
    /\ UNCHANGED <<variant, cli, cst, conn, reset, c2s, c2sFin, s2c, s2cFin, cw, sreq, sw, cresp, cgrants, sgrants>>

-----------------------------------------------------------------------------
(* The client (socket_shutdown_client1.cpp).                                *)

\* The reactor completes async_connect: the handshake succeeds once the
\* server listens (the kernel queues it until accept), else it is refused.
ConnectCompletes ==
    /\ variant = "client1" /\ cli = "connecting" /\ cst = "pending"
    /\ IF srv = "listening"
         THEN cst' = "ok" /\ conn' = TRUE
         ELSE cst' = "refused" /\ UNCHANGED conn
    /\ UNCHANGED <<variant, srv, cli, reset, c2s, c2sFin, s2c, s2cFin, cw, sreq, sw, cresp, cgrants, sgrants>>

\* ConnCallback: on success Communicate runs (inside the handler); on an
\* error it sleeps, makes a new socket and issues async_connect again.
ConnCallback ==
    /\ variant = "client1" /\ cli = "connecting" /\ cst \in {"ok", "refused"}
    /\ IF cst = "ok"
         THEN cli' = "writing" /\ UNCHANGED cst
         ELSE cst' = "pending" /\ UNCHANGED cli
    /\ UNCHANGED <<variant, srv, conn, reset, c2s, c2sFin, s2c, s2cFin, cw, sreq, sw, cresp, cgrants, sgrants>>

\* socket_shutdown_client.cpp main: sock.connect(ep) returns once the
\* handshake succeeds (the server listens), or throws and main returns
\* the error code: this client does not retry.
SyncConnect ==
    /\ variant = "client" /\ cli = "connecting"
    /\ IF srv = "listening"
         THEN conn' = TRUE /\ cli' = "writing"
         ELSE cli' = "failed" /\ UNCHANGED conn
    /\ UNCHANGED <<variant, srv, cst, reset, c2s, c2sFin, s2c, s2cFin, cw, sreq, sw, cresp, cgrants, sgrants>>

\* Mutant: asio::write reports completion one byte before the end.
ClientWriteSome_mut ==
    /\ cli = "writing" /\ ~reset /\ cw < Len(Request) /\ Len(c2s) < Cap
    /\ \E k \in 1..Cap - Len(c2s) :
         /\ k <= Len(Request) - cw
         /\ c2s' = c2s \o SubSeq(Request, cw + 1, cw + k)
         /\ cw' = cw + k
         /\ cgrants' = Append(cgrants, k)
         /\ cli' = IF cw + k + 1 >= Len(Request) THEN "shutdown" ELSE "writing"
    /\ UNCHANGED <<variant, srv, cst, conn, reset, c2sFin, s2c, s2cFin, sreq, sw, cresp, sgrants>>

\* Communicate, asio::write(sock, buffer(request_buf)): one write_some.
ClientWriteSome ==
    /\ cli = "writing" /\ ~reset /\ cw < Len(Request) /\ Len(c2s) < Cap
    /\ \E k \in 1..Cap - Len(c2s) :
         /\ k <= Len(Request) - cw
         /\ c2s' = c2s \o SubSeq(Request, cw + 1, cw + k)
         /\ cw' = cw + k
         /\ cgrants' = Append(cgrants, k)
         /\ cli' = IF cw + k = Len(Request) THEN "shutdown" ELSE "writing"
    /\ UNCHANGED <<variant, srv, cst, conn, reset, c2sFin, s2c, s2cFin, sreq, sw, cresp, sgrants>>

\* Mutant: Communicate without sock.shutdown(shutdown_send).
ClientShutdown_mut ==
    /\ cli = "shutdown" /\ ~reset
    /\ cli' = "reading"
    /\ UNCHANGED <<variant, srv, cst, conn, reset, c2s, c2sFin, s2c, s2cFin, cw, sreq, sw, cresp, cgrants, sgrants>>

\* sock.shutdown(shutdown_send): the FIN tells the server the request is
\* whole; then asio::read of the response.
ClientShutdown ==
    /\ cli = "shutdown" /\ ~reset
    /\ c2sFin' = TRUE /\ cli' = "reading"
    /\ UNCHANGED <<variant, srv, cst, conn, reset, c2s, s2c, s2cFin, cw, sreq, sw, cresp, cgrants, sgrants>>

\* asio::read(sock, response_buf, ec): one read_some.
ClientReadSome ==
    /\ cli = "reading" /\ ~reset /\ s2c # <<>>
    /\ \E k \in 1..Len(s2c) :
         /\ cresp' = cresp \o SubSeq(s2c, 1, k)
         /\ s2c' = SubSeq(s2c, k + 1, Len(s2c))
    /\ UNCHANGED <<variant, srv, cli, cst, conn, reset, c2s, c2sFin, s2cFin, cw, sreq, sw, cgrants, sgrants>>

\* ec == eof: the whole response has arrived and is printed.
ClientEof ==
    /\ cli = "reading" /\ ~reset /\ s2c = <<>> /\ s2cFin
    /\ cli' = "done"
    /\ UNCHANGED <<variant, srv, cst, conn, reset, c2s, c2sFin, s2c, s2cFin, cw, sreq, sw, cresp, cgrants, sgrants>>

\* On a reset asio::write / shutdown throw, and asio::read returns an error
\* other than eof, which Communicate throws; the exception leaves the
\* handler and ioc->run(), and the client terminates.
ClientError ==
    /\ cli \in {"writing", "shutdown", "reading"} /\ reset
    /\ cli' = "failed"
    /\ UNCHANGED <<variant, srv, cst, conn, reset, c2s, c2sFin, s2c, s2cFin, cw, sreq, sw, cresp, cgrants, sgrants>>

-----------------------------------------------------------------------------

\* The established connection is reset before both sides are done; what
\* was in flight is lost.
Reset ==
    /\ conn /\ ~reset /\ ~(srv = "done" /\ cli = "done")
    /\ reset' = TRUE /\ c2s' = <<>> /\ s2c' = <<>>
    /\ UNCHANGED <<variant, srv, cli, cst, conn, c2sFin, s2cFin, cw, sreq, sw, cresp, cgrants, sgrants>>

\* The server once it has started.
ServerRuns ==
    \/ ServerAccept \/ ServerReadSome \/ ServerEof
    \/ ServerWriteSome \/ ServerShutdown \/ ServerError

Server == ServerListen \/ ServerRuns

Client ==
    \/ ConnectCompletes \/ ConnCallback \/ SyncConnect \/ ClientWriteSome \/ ClientShutdown
    \/ ClientReadSome \/ ClientEof \/ ClientError

Next == Server \/ Client \/ Reset

\* Each program is a running process and the reactor completes the
\* connect; a reset is possible but never guaranteed.  The server's start
\* is the operator's choice: ServerListen gets no fairness.
Fairness ==
    /\ WF_vars(ServerRuns)
    /\ WF_vars(Client)

Spec == Init /\ [][Next]_vars /\ Fairness

-----------------------------------------------------------------------------
(* Properties                                                              *)

\* The shutdown_send protocol delimits the messages: the server answers
\* (writes its response) only once it holds the client's whole request,
\* and the client prints a response only when it is the server's whole
\* response, whatever the chunking of write_some / read_some and resets.
ExchangeIntact ==
    /\ srv \in {"writing", "shutdown", "done"} => sreq = Request
    /\ cli = "done" => cresp = Response

\* Once the server listens, a client that has not given up (client1
\* retries a refused connect, client's connect throws) connects and both
\* programs finish the exchange, unless the connection is reset.
ExchangeCompletes ==
    (srv = "listening" /\ cli # "failed") ~> ((srv = "done" /\ cli = "done") \/ reset)


\* asio::write and asio::read are the loops of write_to_tcp_sync.cpp's
\* WriteToSocket and read_from_tcp_sync.cpp's ReadFromSocket.  Given the
\* bytes each write_some took in this exchange (and a failure after
\* them), the write_some loop, the async_write_some callback chain of
\* write_to_tcp_async.cpp, the async_write of write_tcp_async1.cpp and of
\* write_to_tcp_async.cpp's WriteToSocketEnhanced, and the asio::write of
\* write_to_tcp_sync.cpp's WriteToSocketEnhanced hand over exactly the
\* request bytes asio::write has written, and return normally exactly
\* when all are written.
WritesDeliverBuffer ==
    \A r \in {WriteToSocketSync(Request, 0, cgrants), WriteToSocketAsync(Request, cgrants),
              WriteToSocketAsync1(Request, cgrants), WriteToSocketEnhanced(Request, cgrants),
              WriteToSocketAsyncEnhanced(Request, cgrants)} :
        r = Result(SubSeq(Request, 1, cw), cw = Len(Request))

\* Given the bytes each read_some took, the read_some loop and the
\* asio::read of ReadFromSocketEnhanced, asked for as many bytes as the
\* server has read, return them in the order the client wrote them.
ReadsMessage ==
    \A r \in {ReadFromSocket(SubSeq(Request, 1, cw), Len(sreq), 0, sgrants),
              ReadFromSocketEnhanced(SubSeq(Request, 1, cw), Len(sreq), sgrants)} :
        r = Result(sreq, TRUE)

=============================================================================
