------------------------------ MODULE SyncServers ------------------------------
(***************************************************************************)
(* The synchronous servers of src/asio-cookbook/ch4_server with the        *)
(* synchronous client of ch3_client/sync_tcp_client.cpp.                   *)
(*                                                                         *)
(* Either server (the variable mode, fixed in Init) runs Server::Run on    *)
(* its own thread: an Acceptor that listens, then                          *)
(* "while (!m_stop.load()) acc.Accept();".  The iterative server           *)
(* (sync_iterative_tcp_server.cpp) handles the accepted client inline on   *)
(* that thread; the parallel server (sync_parallel_tcp_server.cpp) starts  *)
(* a detached thread per client, whose Service deletes itself.  Both       *)
(* handle a client with read_until('\n'), a long computation, and          *)
(* asio::write of "Response\n", catching any asio error.  main() starts    *)
(* the server, sleeps, calls Stop() (m_stop = true, join the Run thread)   *)
(* and returns, which ends the process.                                    *)
(*                                                                         *)
(* A client opens a socket, connects (queued in the listen backlog until   *)
(* accept), writes its request line, reads the response line and shuts    *)
(* the socket down; any asio error throws out of main.  Messages are one   *)
(* line each and are abstracted to "arrived" flags.  An asio error on the  *)
(* Run thread (bind, accept) is not caught there and ends the process.     *)
(***************************************************************************)
EXTENDS Naturals, Sequences

CONSTANT Clients   \* the client processes

VARIABLES
    mode,      \* which server program runs: iterative or parallel
    stop,      \* Server::m_stop
    apc,       \* the Run thread: init, loop (the while test), accept, serve, exited
    mpc,       \* the main thread: running, joining (in Stop), joined, exited
    backlog,   \* established connections not yet accepted, in arrival order
    hpc,       \* HandleClient of each client's connection
    cpc,       \* each client's control point
    reqIn,     \* the client's request line has arrived at the server
    respIn,    \* the response line has arrived at the client
    sclosed,   \* the server side of the connection is closed
    cclosed    \* the client side of the connection is closed

vars == <<mode, stop, apc, mpc, backlog, hpc, cpc, reqIn, respIn, sclosed, cclosed>>

HandlerPcs == {"none", "read", "write", "done", "killed"}
ClientPcs == {"connect", "write", "read", "close", "done", "failed"}

TypeOK ==
    /\ mode \in {"iterative", "parallel"}
    /\ stop \in BOOLEAN
    /\ apc \in {"init", "loop", "accept", "serve", "exited"}
    /\ mpc \in {"running", "joining", "joined", "exited"}
    /\ backlog \in Seq(Clients)
    /\ hpc \in [Clients -> HandlerPcs]
    /\ cpc \in [Clients -> ClientPcs]
    /\ reqIn \in [Clients -> BOOLEAN] /\ respIn \in [Clients -> BOOLEAN]
    /\ sclosed \in [Clients -> BOOLEAN] /\ cclosed \in [Clients -> BOOLEAN]
    \* a handler only goes on to process a request that has arrived
    /\ \A c \in Clients : hpc[c] = "write" => reqIn[c]

\* main(): srv.Start() has started the Run thread; each client has opened
\* its socket.
Init ==
    /\ mode \in {"iterative", "parallel"}
    /\ stop = FALSE
    /\ apc = "init"
    /\ mpc = "running"
    /\ backlog = <<>>
    /\ hpc = [c \in Clients |-> "none"]
    /\ cpc = [c \in Clients |-> "connect"]
    /\ reqIn = [c \in Clients |-> FALSE] /\ respIn = [c \in Clients |-> FALSE]
    /\ sclosed = [c \in Clients |-> FALSE] /\ cclosed = [c \in Clients |-> FALSE]

\* The Acceptor of Run exists (it is destroyed when Run returns).
Listening == apc \in {"loop", "accept", "serve"}

-----------------------------------------------------------------------------
(* The server's Run thread.                                                *)

\* Run: Acceptor acc(m_ioc, port_num) binds and listens.
AcceptorListen ==
    /\ apc = "init"
    /\ apc' = "loop"
    /\ UNCHANGED <<mode, stop, mpc, backlog, hpc, cpc, reqIn, respIn, sclosed, cclosed>>

\* Mutant: "while (true)": the loop never reads m_stop.
RunLoop_mut ==
    /\ apc = "loop"
    /\ apc' = "accept"
    /\ UNCHANGED <<mode, stop, mpc, backlog, hpc, cpc, reqIn, respIn, sclosed, cclosed>>

\* while (!m_stop.load()): on to Accept(), or Run returns and acc is
\* destroyed, which resets the connections still in the backlog.
RunLoop ==
    /\ apc = "loop"
    /\ IF stop
         THEN /\ apc' = "exited"
              /\ sclosed' = [c \in Clients |->
                               sclosed[c] \/ \E i \in 1..Len(backlog) : backlog[i] = c]
              /\ backlog' = <<>>
         ELSE /\ apc' = "accept"
              /\ UNCHANGED <<sclosed, backlog>>
    /\ UNCHANGED <<mode, stop, mpc, hpc, cpc, reqIn, respIn, cclosed>>

\* Accept(): m_acceptor.accept blocks until a connection is queued; the
\* iterative server then runs HandleClient itself, the parallel server
\* starts a detached thread running it.
Accept ==
    /\ apc = "accept" /\ backlog # <<>>
    /\ LET c == Head(backlog) IN
         /\ hpc' = [hpc EXCEPT ![c] = "read"]
         /\ IF mode = "iterative"
              THEN apc' = "serve"
              ELSE apc' = "loop"
    /\ backlog' = Tail(backlog)
    /\ UNCHANGED <<mode, stop, mpc, cpc, reqIn, respIn, sclosed, cclosed>>

\* The end of HandleClient: the socket is closed (the iterative server's
\* sock leaves scope at the end of Accept; the parallel server's Service
\* deletes itself and its thread drops the last shared_ptr), and the
\* iterative Run thread goes back to the loop test.
Finish(c) ==
    /\ hpc' = [hpc EXCEPT ![c] = "done"]
    /\ sclosed' = [sclosed EXCEPT ![c] = TRUE]
    /\ apc' = IF mode = "iterative" THEN "loop" ELSE apc

\* Mutant: the error of read_until is not caught; the handler goes on.
HandleRead_mut(c) ==
    /\ hpc[c] = "read" /\ (reqIn[c] \/ cclosed[c])
    /\ hpc' = [hpc EXCEPT ![c] = "write"]
    /\ UNCHANGED <<mode, stop, apc, mpc, backlog, cpc, reqIn, respIn, sclosed, cclosed>>

\* HandleClient: read_until(sock, request, '\n') returns the request line,
\* or throws when the client closed first; the catch prints and the
\* client is finished.
HandleRead(c) ==
    /\ hpc[c] = "read" /\ (reqIn[c] \/ cclosed[c])
    /\ IF reqIn[c]
         THEN hpc' = [hpc EXCEPT ![c] = "write"] /\ UNCHANGED <<apc, sclosed>>
         ELSE Finish(c)
    /\ UNCHANGED <<mode, stop, mpc, backlog, cpc, reqIn, respIn, cclosed>>

\* Mutant: the iterative server does not go back to the loop test.
HandleWrite_mut(c) ==
    /\ hpc[c] = "write"
    /\ respIn' = IF cclosed[c] THEN respIn ELSE [respIn EXCEPT ![c] = TRUE]
    /\ hpc' = [hpc EXCEPT ![c] = "done"]
    /\ sclosed' = [sclosed EXCEPT ![c] = TRUE]
    /\ UNCHANGED <<mode, stop, apc, mpc, backlog, cpc, reqIn, cclosed>>

\* The computation, then asio::write of "Response\n" (it throws if the
\* client is gone), then the end of HandleClient.
HandleWrite(c) ==
    /\ hpc[c] = "write"
    /\ respIn' = IF cclosed[c] THEN respIn ELSE [respIn EXCEPT ![c] = TRUE]
    /\ Finish(c)
    /\ UNCHANGED <<mode, stop, mpc, backlog, cpc, reqIn, cclosed>>

\* Fault: Acceptor acc throws (bind to a port in use) or accept() throws
\* on a queued connection.  Nothing on the Run thread catches it, so
\* std::terminate ends the process: main's try/catch is never reached,
\* handler threads die and every server socket is closed, resetting the
\* connections still in the backlog.
RunThrows ==
    /\ \/ apc = "init"
       \/ apc = "accept" /\ backlog # <<>>
    /\ apc' = "exited" /\ mpc' = "exited"
    /\ hpc' = [c \in Clients |-> IF hpc[c] \in {"read", "write"} THEN "killed" ELSE hpc[c]]
    /\ sclosed' = [c \in Clients |-> TRUE]
    /\ backlog' = <<>>
    /\ UNCHANGED <<mode, stop, cpc, reqIn, respIn, cclosed>>

-----------------------------------------------------------------------------
(* main(): after the sleep, Stop() and return.                            *)

\* Stop(): m_stop.store(true), then m_thread->join() blocks.
Stop ==
    /\ mpc = "running"
    /\ stop' = TRUE /\ mpc' = "joining"
    /\ UNCHANGED <<mode, apc, backlog, hpc, cpc, reqIn, respIn, sclosed, cclosed>>

\* join() returns once Run has returned.
Join ==
    /\ mpc = "joining" /\ apc = "exited"
    /\ mpc' = "joined"
    /\ UNCHANGED <<mode, stop, apc, backlog, hpc, cpc, reqIn, respIn, sclosed, cclosed>>

\* main returns 0 and the process ends: detached HandleClient threads are
\* killed and every server socket is closed.
Exit ==
    /\ mpc = "joined"
    /\ mpc' = "exited"
    /\ hpc' = [c \in Clients |-> IF hpc[c] \in {"read", "write"} THEN "killed" ELSE hpc[c]]
    /\ sclosed' = [c \in Clients |-> TRUE]
    /\ UNCHANGED <<mode, stop, apc, backlog, cpc, reqIn, respIn, cclosed>>

-----------------------------------------------------------------------------
(* A client (sync_tcp_client.cpp).                                         *)

\* client.Connect(): the handshake completes into the backlog while the
\* acceptor listens, and is refused otherwise (connect throws).
Connect(c) ==
    /\ cpc[c] = "connect"
    /\ IF Listening
         THEN backlog' = Append(backlog, c) /\ cpc' = [cpc EXCEPT ![c] = "write"]
         ELSE cpc' = [cpc EXCEPT ![c] = "failed"] /\ UNCHANGED backlog
    /\ UNCHANGED <<mode, stop, apc, mpc, hpc, reqIn, respIn, sclosed, cclosed>>

\* EmulateLongComputationOp: SendRequest (asio::write of the request line),
\* which throws once the server side is closed.
SendRequest(c) ==
    /\ cpc[c] = "write"
    /\ IF sclosed[c]
         THEN cpc' = [cpc EXCEPT ![c] = "failed"] /\ UNCHANGED reqIn
         ELSE cpc' = [cpc EXCEPT ![c] = "read"] /\ reqIn' = [reqIn EXCEPT ![c] = TRUE]
    /\ UNCHANGED <<mode, stop, apc, mpc, backlog, hpc, respIn, sclosed, cclosed>>

\* ReceiveResponse: read_until(m_sock, buf, '\n') returns the response
\* line, or throws on eof / reset when the server closed without one.
ReceiveResponse(c) ==
    /\ cpc[c] = "read" /\ (respIn[c] \/ sclosed[c])
    /\ cpc' = [cpc EXCEPT ![c] = IF respIn[c] THEN "close" ELSE "failed"]
    /\ UNCHANGED <<mode, stop, apc, mpc, backlog, hpc, reqIn, respIn, sclosed, cclosed>>

\* client.Close(): shutdown(shutdown_both); main returns 0.
Close(c) ==
    /\ cpc[c] = "close"
    /\ cpc' = [cpc EXCEPT ![c] = "done"]
    /\ cclosed' = [cclosed EXCEPT ![c] = TRUE]
    /\ UNCHANGED <<mode, stop, apc, mpc, backlog, hpc, reqIn, respIn, sclosed>>

\* A client process is killed after connecting, before it sends: the
\* server's read_until meets the closed connection.
ClientAborts(c) ==
    /\ cpc[c] = "write" /\ ~cclosed[c]
    /\ cpc' = [cpc EXCEPT ![c] = "failed"]
    /\ cclosed' = [cclosed EXCEPT ![c] = TRUE]
    /\ UNCHANGED <<mode, stop, apc, mpc, backlog, hpc, reqIn, respIn, sclosed>>

-----------------------------------------------------------------------------

RunThread == AcceptorListen \/ RunLoop \/ Accept

Handler(c) == HandleRead(c) \/ HandleWrite(c)

ClientStep(c) == Connect(c) \/ SendRequest(c) \/ ReceiveResponse(c) \/ Close(c)

Next ==
    \/ RunThread
    \/ \E c \in Clients : Handler(c) \/ ClientStep(c) \/ ClientAborts(c)
    \/ Stop \/ Join \/ Exit \/ RunThrows

\* Every thread that can run eventually does (the Run thread, the handler
\* threads, the clients, main inside Stop and after it).  When main calls
\* Stop() (after a fixed sleep), whether a client is killed and whether
\* the Run thread meets an error are not guaranteed.
Fairness ==
    /\ WF_vars(RunThread)
    /\ \A c \in Clients : WF_vars(Handler(c)) /\ WF_vars(ClientStep(c))
    /\ WF_vars(Join \/ Exit)

Spec == Init /\ [][Next]_vars /\ Fairness

-----------------------------------------------------------------------------
(* Properties                                                              *)

\* Every client that has sent its request gets the response, unless the
\* server is being stopped or its process has ended: the iterative server
\* serves the clients queued in the backlog one after the other, the
\* parallel one concurrently.
ClientsServed ==
    \A c \in Clients :
        cpc[c] = "read" ~> (cpc[c] \in {"close", "done"} \/ stop \/ mpc = "exited")

\* Stop() blocks in join() until Run sees m_stop, which Run only tests
\* between two accepts: a Stop() that begins while a client is still to
\* connect returns, once that client's connection has been accepted (or
\* the process ends first, when that accept throws).
StopReturnsOnConnect ==
    (mpc = "joining" /\ \E c \in Clients : cpc[c] = "connect") ~> (mpc \in {"joined", "exited"})

\* Once main calls Stop(), the server makes no promise of a response, but
\* no client is left hanging either: the iterative server's Run returns
\* and its acceptor resets the connections still in the backlog, and the
\* parallel server's detached HandleClient threads die with the process,
\* whose exit closes their sockets.  The same holds when an exception on
\* the Run thread terminates the process before Stop().  A client that
\* has connected ends, served or with an error, never blocked in write
\* or read_until.
ClientNeverHangs ==
    \A c \in Clients : cpc[c] \in {"write", "read"} ~> cpc[c] \in {"done", "failed"}

=============================================================================
