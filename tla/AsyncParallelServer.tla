-------------------------- MODULE AsyncParallelServer --------------------------
(***************************************************************************)
(* The asynchronous parallel server of                                     *)
(* src/asio-cookbook/ch4_server/async_parallel_tcp_server.cpp: an          *)
(* Acceptor that keeps one async_accept outstanding and checks the atomic  *)
(* m_is_stopped flag after each accept, a self-deleting Service per        *)
(* connection (read_until -> process -> write -> delete this), and a       *)
(* Server whose Stop() sets the flag, calls io_context::stop() and joins   *)
(* the pool threads.                                                       *)
(*                                                                         *)
(* Each handler touches only its own Service (or the Acceptor), so a       *)
(* handler is one atomic step, whichever pool thread runs it.  After       *)
(* io_context::stop() no further handler runs.                             *)
(***************************************************************************)
EXTENDS Naturals

CONSTANTS
    MaxConns    \* bound on accepted connections

ASSUME MaxConns \in Nat \ {0}

Conns == 1..MaxConns

\* State of one asynchronous operation: none, pending in the reactor, or
\* completed (ok / err) with its handler queued.
OpStates == {"none", "pending", "ok", "err"}

VARIABLES
    accRes,      \* the acceptor's async_accept
    accOpen,     \* m_acceptor is open
    isStopped,   \* Acceptor::m_is_stopped
    iocStopped,  \* m_ioc.stop() was called
    nconn,       \* connections accepted so far
    svc,         \* each Service object: not created, alive, deleted
    sop,         \* the Service's operation in flight: none, read, write
    sres,        \* the state of that operation
    mpc          \* the main thread: running, then inside Server::Stop

vars == <<accRes, accOpen, isStopped, iocStopped, nconn, svc, sop, sres, mpc>>

TypeOK ==
    /\ accRes \in OpStates
    /\ accOpen \in BOOLEAN
    /\ isStopped \in BOOLEAN
    /\ iocStopped \in BOOLEAN
    /\ nconn \in 0..MaxConns
    /\ svc \in [Conns -> {"none", "alive", "deleted"}]
    /\ sop \in [Conns -> {"none", "read", "write"}]
    /\ sres \in [Conns -> OpStates]
    /\ mpc \in {"running", "stop_ioc", "joining", "joined"}
    \* a live Service always has its one operation in flight
    /\ \A s \in Conns : (svc[s] = "alive") <=> (sop[s] # "none")

\* InitAccept: a new socket and async_accept on it.
InitAccept == accRes' = "pending"

\* Server::Start: the acceptor listens and InitAccept runs, then the pool
\* threads start m_ioc.run().
Init ==
    /\ accRes = "pending"
    /\ accOpen = TRUE
    /\ isStopped = FALSE
    /\ iocStopped = FALSE
    /\ nconn = 0
    /\ svc = [s \in Conns |-> "none"]
    /\ sop = [s \in Conns |-> "none"]
    /\ sres = [s \in Conns |-> "none"]
    /\ mpc = "running"

-----------------------------------------------------------------------------
(* The reactor.                                                            *)

\* A client connects (within the bound), or the accept fails.
AcceptCompletes ==
    /\ accRes = "pending"
    /\ \/ nconn < MaxConns /\ accRes' = "ok"
       \/ accRes' = "err"
    /\ UNCHANGED <<accOpen, isStopped, iocStopped, nconn, svc, sop, sres, mpc>>

\* The client's request arrives / the response is written, or it fails.
ServiceOpCompletes(s) ==
    /\ sres[s] = "pending"
    /\ sres' \in {[sres EXCEPT ![s] = "ok"], [sres EXCEPT ![s] = "err"]}
    /\ UNCHANGED <<accRes, accOpen, isStopped, iocStopped, nconn, svc, sop, mpc>>

-----------------------------------------------------------------------------
(* Handlers, run by the pool threads while io_context has not been stopped *)

\* Service::StartHandling: async_read_until on the accepted socket.
StartHandling(s) ==
    /\ svc' = [svc EXCEPT ![s] = "alive"]
    /\ sop' = [sop EXCEPT ![s] = "read"]
    /\ sres' = [sres EXCEPT ![s] = "pending"]

\* Mutant: on an accept error the handler returns without InitAccept.
OnAccept_errreturn ==
    /\ ~iocStopped
    /\ accRes \in {"ok", "err"}
    /\ IF accRes = "err"
         THEN /\ accRes' = "none"
              /\ UNCHANGED <<svc, sop, sres, nconn, accOpen>>
         ELSE /\ StartHandling(nconn + 1)
              /\ nconn' = nconn + 1
              /\ IF ~isStopped
                   THEN InitAccept /\ UNCHANGED accOpen
                   ELSE accOpen' = FALSE /\ accRes' = "none"
    /\ UNCHANGED <<isStopped, iocStopped, mpc>>

\* Acceptor::OnAccept: on success a new Service starts handling; then,
\* unless m_is_stopped, InitAccept again, else close the acceptor.
OnAccept ==
    /\ ~iocStopped
    /\ accRes \in {"ok", "err"}
    /\ IF accRes = "ok"
         THEN /\ StartHandling(nconn + 1)
              /\ nconn' = nconn + 1
         ELSE UNCHANGED <<svc, sop, sres, nconn>>
    /\ IF ~isStopped
         THEN InitAccept /\ UNCHANGED accOpen
         ELSE accOpen' = FALSE /\ accRes' = "none"
    /\ UNCHANGED <<isStopped, iocStopped, mpc>>

\* Service::OnFinish: delete this.
OnFinish(s) ==
    /\ svc' = [svc EXCEPT ![s] = "deleted"]
    /\ sop' = [sop EXCEPT ![s] = "none"]
    /\ sres' = [sres EXCEPT ![s] = "none"]

\* Mutant: the error branch prints and returns without OnFinish.
OnRequestReceived_nofinish(s) ==
    /\ ~iocStopped
    /\ sop[s] = "read" /\ sres[s] \in {"ok", "err"}
    /\ IF sres[s] = "err"
         THEN /\ sop' = [sop EXCEPT ![s] = "none"]
              /\ sres' = [sres EXCEPT ![s] = "none"]
              /\ UNCHANGED svc
         ELSE /\ sop' = [sop EXCEPT ![s] = "write"]
              /\ sres' = [sres EXCEPT ![s] = "pending"]
              /\ UNCHANGED svc
    /\ UNCHANGED <<accRes, accOpen, isStopped, iocStopped, nconn, mpc>>

\* Mutant: the response is prepared but async_write is never started.
OnRequestReceived_nowrite(s) ==
    /\ ~iocStopped
    /\ sop[s] = "read" /\ sres[s] \in {"ok", "err"}
    /\ IF sres[s] = "err"
         THEN OnFinish(s)
         ELSE /\ sres' = [sres EXCEPT ![s] = "none"]
              /\ UNCHANGED <<svc, sop>>
    /\ UNCHANGED <<accRes, accOpen, isStopped, iocStopped, nconn, mpc>>

\* Service::OnRequestReceived: on error OnFinish; otherwise ProcessRequest
\* (a blocking computation) and async_write of the response.
OnRequestReceived(s) ==
    /\ ~iocStopped
    /\ sop[s] = "read" /\ sres[s] \in {"ok", "err"}
    /\ IF sres[s] = "err"
         THEN OnFinish(s)
         ELSE /\ sop' = [sop EXCEPT ![s] = "write"]
              /\ sres' = [sres EXCEPT ![s] = "pending"]
              /\ UNCHANGED svc
    /\ UNCHANGED <<accRes, accOpen, isStopped, iocStopped, nconn, mpc>>

\* Service::OnResponseSent: report an error if any, then OnFinish.
OnResponseSent(s) ==
    /\ ~iocStopped
    /\ sop[s] = "write" /\ sres[s] \in {"ok", "err"}
    /\ OnFinish(s)
    /\ UNCHANGED <<accRes, accOpen, isStopped, iocStopped, nconn, mpc>>

-----------------------------------------------------------------------------
(* Server::Stop on the main thread.                                        *)

\* acc->Stop(): m_is_stopped.store(true).
StopAcceptor ==
    /\ mpc = "running"
    /\ isStopped' = TRUE
    /\ mpc' = "stop_ioc"
    /\ UNCHANGED <<accRes, accOpen, iocStopped, nconn, svc, sop, sres>>

\* m_ioc.stop(): run() returns in every pool thread as soon as the handler
\* it runs (one atomic step here) is done; queued handlers never run.
StopIoc ==
    /\ mpc = "stop_ioc"
    /\ iocStopped' = TRUE
    /\ mpc' = "joining"
    /\ UNCHANGED <<accRes, accOpen, isStopped, nconn, svc, sop, sres>>

\* th->join() for every pool thread.
JoinPool ==
    /\ mpc = "joining"
    /\ mpc' = "joined"
    /\ UNCHANGED <<accRes, accOpen, isStopped, iocStopped, nconn, svc, sop, sres>>

-----------------------------------------------------------------------------

Handler(s) == OnRequestReceived(s) \/ OnResponseSent(s)

Next ==
    \/ AcceptCompletes \/ OnAccept
    \/ \E s \in Conns : ServiceOpCompletes(s) \/ Handler(s)
    \/ StopAcceptor \/ StopIoc \/ JoinPool

\* Pool threads run queued handlers; clients send their request or drop
\* the connection, and responses are written or fail.  main() sleeps 60 s
\* and then calls Stop(); once begun, Stop() runs to its end.  Whether and
\* when Stop() is called (a fixed delay, not an event the servers wait
\* for) and whether a client connects are not guaranteed: no fairness on
\* StopAcceptor or AcceptCompletes.
Fairness ==
    /\ WF_vars(OnAccept)
    /\ \A s \in Conns : WF_vars(ServiceOpCompletes(s)) /\ WF_vars(Handler(s))
    /\ WF_vars(StopIoc \/ JoinPool)

Spec == Init /\ [][Next]_vars /\ Fairness

-----------------------------------------------------------------------------
(* Properties                                                              *)

\* The accept loop never stalls while the server runs: until Stop() is
\* called there is always an async_accept outstanding on an open acceptor,
\* whatever errors the accepts returned.
AcceptArmed == mpc = "running" => (accOpen /\ accRes # "none")

\* OnFinish ("release the service object") is reached by every Service
\* while the server runs: an accepted connection's Service is deleted
\* before Stop() or Stop() begins.
ServiceCompletes ==
    \A s \in Conns : svc[s] = "alive" ~> (svc[s] = "deleted" \/ mpc # "running")

=============================================================================
