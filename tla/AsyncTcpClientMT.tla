--------------------------- MODULE AsyncTcpClientMT ---------------------------
(***************************************************************************)
(* AsyncTCPClientMT of src/asio-cookbook/ch3_client/async_tcp_client_mt.cpp *)
(* a pool of threads running io_context::run(), and a user thread that     *)
(* starts requests (EmulateLongComputationOp), cancels them (CancelRequest)*)
(* and finally calls Close().  A request is a chain connect -> write ->    *)
(* read_until; every chain ends in OnRequestComplete, which erases the     *)
(* session from m_active_sessions and calls the user's callback.           *)
(*                                                                         *)
(* Two kinds of mutex: m_active_sessions_guard (one) and each session's    *)
(* m_cancel_guard.  A lock acquisition that can block is a step of its     *)
(* own; what is done while holding it up to the next blocking point is     *)
(* part of that step.  The reactor completes a pending operation with ok   *)
(* or an error; m_sock.cancel() completes it with operation_aborted; a     *)
(* completion already queued keeps its result.  Any idle pool thread runs  *)
(* a queued handler; the handlers of one request run one at a time since   *)
(* its chain has one operation in flight.                                  *)
(***************************************************************************)
EXTENDS Naturals, Sequences, FiniteSets, Graphs

CONSTANTS
    Requests,    \* request ids the user may start (distinct, as in main())
    Threads,     \* the pool threads running m_ioc.run()
    User,        \* model value: the thread calling the public methods
    NoOne,       \* model value: a mutex nobody holds, no request
    MaxCancel    \* bound on CancelRequest calls per request id

ASSUME /\ User \notin Threads /\ NoOne \notin Threads \cup Requests \cup {User}
       /\ MaxCancel \in Nat

Actors == Threads \cup {User}

\* The operation of a request's chain, and the state of the one in flight.
Ops == {"idle", "connect", "write", "read"}
OpStates == {"none", "pending", "ok", "aborted", "failed"}
\* asio::error_code as the callback tells it apart: 0, operation_aborted,
\* any other error.
Ecs == {"ok", "aborted", "failed"}

ThreadPcs == {"idle", "conn_lock", "write_lock", "orc_shutdown", "orc_lock", "orc_callback"}
UserPcs == {"ready", "cancel_lock", "cancel_sock", "closing", "closed"}

VARIABLES
    active,       \* keys of m_active_sessions
    activeOwner,  \* holder of m_active_sessions_guard
    cancelOwner,  \* holder of each session's m_cancel_guard
    canceled,     \* Session::m_was_canceled
    op,           \* the operation of the request's chain
    st,           \* state of that operation in the reactor
    ec,           \* Session::m_ec
    response,     \* Session::m_response was filled from the read
    pc,           \* program counter of each pool thread
    job,          \* the request whose handler a pool thread runs
    upc,          \* program counter of the user thread
    ucur,         \* the request CancelRequest is working on
    cancels,      \* CancelRequest calls made per id
    callbacks     \* ghost: the error codes each request's callback was given

vars == <<active, activeOwner, cancelOwner, canceled, op, st, ec, response,
          pc, job, upc, ucur, cancels, callbacks>>

TypeOK ==
    /\ active \subseteq Requests
    /\ activeOwner \in Actors \cup {NoOne}
    /\ cancelOwner \in [Requests -> Actors \cup {NoOne}]
    /\ canceled \in [Requests -> BOOLEAN]
    /\ op \in [Requests -> Ops]
    /\ st \in [Requests -> OpStates]
    /\ ec \in [Requests -> Ecs]
    /\ response \in [Requests -> BOOLEAN]
    /\ pc \in [Threads -> ThreadPcs]
    /\ job \in [Threads -> Requests \cup {NoOne}]
    /\ upc \in UserPcs
    /\ ucur \in Requests \cup {NoOne}
    /\ cancels \in [Requests -> 0..MaxCancel]
    /\ callbacks \in [Requests -> Seq(Ecs)]
    \* a pool thread holds m_cancel_guard only inside OnRequestComplete,
    \* called from the handler of that session
    /\ \A r \in Requests : cancelOwner[r] \in Threads =>
           /\ job[cancelOwner[r]] = r
           /\ pc[cancelOwner[r]] \in {"orc_shutdown", "orc_lock", "orc_callback"}

\* The constructor: the work guard and the pool threads; no session yet.
Init ==
    /\ active = {}
    /\ activeOwner = NoOne
    /\ cancelOwner = [r \in Requests |-> NoOne]
    /\ canceled = [r \in Requests |-> FALSE]
    /\ op = [r \in Requests |-> "idle"]
    /\ st = [r \in Requests |-> "none"]
    /\ ec = [r \in Requests |-> "ok"]
    /\ response = [r \in Requests |-> FALSE]
    /\ pc = [t \in Threads |-> "idle"]
    /\ job = [t \in Threads |-> NoOne]
    /\ upc = "ready"
    /\ ucur = NoOne
    /\ cancels = [r \in Requests |-> 0]
    /\ callbacks = [r \in Requests |-> <<>>]

-----------------------------------------------------------------------------
(* The user thread.                                                        *)

\* EmulateLongComputationOp: make the session, open the socket, insert it
\* into m_active_sessions under the guard, start async_connect.
EmulateLongComputationOp(r) ==
    /\ upc = "ready"
    /\ op[r] = "idle"
    /\ activeOwner = NoOne
    /\ active' = active \cup {r}
    /\ op' = [op EXCEPT ![r] = "connect"]
    /\ st' = [st EXCEPT ![r] = "pending"]
    /\ UNCHANGED <<activeOwner, cancelOwner, canceled, ec, response, pc, job,
                   upc, ucur, cancels, callbacks>>

\* CancelRequest, lines 187-193: lock m_active_sessions_guard and find the
\* id; if it is not there, return (releasing the guard).
CancelRequest(r) ==
    /\ upc = "ready"
    /\ op[r] # "idle"
    /\ cancels[r] < MaxCancel
    /\ activeOwner = NoOne
    /\ cancels' = [cancels EXCEPT ![r] = @ + 1]
    /\ IF r \in active
         THEN /\ activeOwner' = User
              /\ upc' = "cancel_lock"
              /\ ucur' = r
         ELSE UNCHANGED <<activeOwner, upc, ucur>>
    /\ UNCHANGED <<active, cancelOwner, canceled, op, st, ec, response, pc,
                   job, callbacks>>

\* Still holding the guard, lock the session's m_cancel_guard and set
\* m_was_canceled.
CancelLockSession ==
    /\ upc = "cancel_lock"
    /\ cancelOwner[ucur] = NoOne
    /\ cancelOwner' = [cancelOwner EXCEPT ![ucur] = User]
    /\ canceled' = [canceled EXCEPT ![ucur] = TRUE]
    /\ upc' = "cancel_sock"
    /\ UNCHANGED <<active, activeOwner, op, st, ec, response, pc, job, ucur,
                   cancels, callbacks>>

\* m_sock.cancel(): a pending operation completes with operation_aborted;
\* then both locks are released.
CancelSocket ==
    /\ upc = "cancel_sock"
    /\ st' = [st EXCEPT ![ucur] = IF @ = "pending" THEN "aborted" ELSE @]
    /\ cancelOwner' = [cancelOwner EXCEPT ![ucur] = NoOne]
    /\ activeOwner' = NoOne
    /\ upc' = "ready"
    /\ ucur' = NoOne
    /\ UNCHANGED <<active, canceled, op, ec, response, pc, job, cancels,
                   callbacks>>

\* Close(): m_work.reset(), then join every pool thread.  From here on
\* io_context::run() returns as soon as it runs out of work.
Close ==
    /\ upc = "ready"
    /\ upc' = "closing"
    /\ UNCHANGED <<active, activeOwner, cancelOwner, canceled, op, st, ec,
                   response, pc, job, ucur, cancels, callbacks>>

\* run() returns in every pool thread once nothing is pending or queued and
\* no handler runs; then every join() returns.
Outstanding == (\E r \in Requests : st[r] # "none") \/ (\E t \in Threads : pc[t] # "idle")

CloseJoin ==
    /\ upc = "closing"
    /\ ~Outstanding
    /\ upc' = "closed"
    /\ UNCHANGED <<active, activeOwner, cancelOwner, canceled, op, st, ec,
                   response, pc, job, ucur, cancels, callbacks>>

-----------------------------------------------------------------------------
(* The reactor.                                                            *)

\* The pending connect, write or read_until completes, or fails (server
\* down, connection reset).
Complete(r) ==
    /\ st[r] = "pending"
    /\ st' \in {[st EXCEPT ![r] = "ok"], [st EXCEPT ![r] = "failed"]}
    /\ UNCHANGED <<active, activeOwner, cancelOwner, canceled, op, ec, response,
                   pc, job, upc, ucur, cancels, callbacks>>

-----------------------------------------------------------------------------
(* Pool threads.                                                           *)

\* An idle pool thread takes the queued completion of request r and runs
\* the start of its handler, up to the first blocking point:
\*  - connect / write handler: on error, m_ec = ec and OnRequestComplete;
\*    otherwise go on to lock m_cancel_guard;
\*  - read handler: m_ec = ec, or getline into m_response; then
\*    OnRequestComplete.
Dispatch(t, r) ==
    /\ pc[t] = "idle"
    /\ st[r] \in {"ok", "aborted", "failed"}
    /\ st' = [st EXCEPT ![r] = "none"]
    /\ job' = [job EXCEPT ![t] = r]
    /\ IF st[r] # "ok"
         THEN /\ ec' = [ec EXCEPT ![r] = st[r]]
              /\ pc' = [pc EXCEPT ![t] = "orc_shutdown"]
              /\ UNCHANGED response
         ELSE /\ pc' = [pc EXCEPT ![t] = CASE op[r] = "connect" -> "conn_lock"
                                           [] op[r] = "write"   -> "write_lock"
                                           [] op[r] = "read"    -> "orc_shutdown"]
              /\ response' = [response EXCEPT ![r] = (op[r] = "read")]
              /\ UNCHANGED ec
    /\ UNCHANGED <<active, activeOwner, cancelOwner, canceled, op, upc, ucur,
                   cancels, callbacks>>

\* The next operation of a chain that was not canceled.
NextOp(o) == IF o = "connect" THEN "write" ELSE "read"

\* Mutant: the canceled branch calls OnRequestComplete but does not
\* return, so the next operation is started as well.
HandlerLock_noreturn(t) ==
    LET r == job[t] IN
    /\ pc[t] \in {"conn_lock", "write_lock"}
    /\ cancelOwner[r] = NoOne
    /\ IF canceled[r]
         THEN /\ cancelOwner' = [cancelOwner EXCEPT ![r] = t]
              /\ pc' = [pc EXCEPT ![t] = "orc_shutdown"]
              /\ op' = [op EXCEPT ![r] = NextOp(@)]
              /\ st' = [st EXCEPT ![r] = "pending"]
         ELSE /\ op' = [op EXCEPT ![r] = NextOp(@)]
              /\ st' = [st EXCEPT ![r] = "pending"]
              /\ pc' = [pc EXCEPT ![t] = "idle"]
              /\ UNCHANGED cancelOwner
    /\ UNCHANGED <<active, activeOwner, canceled, ec, response, job, upc, ucur,
                   cancels, callbacks>>

\* Mutant: the canceled branch returns without calling OnRequestComplete.
HandlerLock_nocomplete(t) ==
    LET r == job[t] IN
    /\ pc[t] \in {"conn_lock", "write_lock"}
    /\ cancelOwner[r] = NoOne
    /\ IF canceled[r]
         THEN /\ pc' = [pc EXCEPT ![t] = "idle"]
              /\ UNCHANGED <<cancelOwner, op, st>>
         ELSE /\ op' = [op EXCEPT ![r] = NextOp(@)]
              /\ st' = [st EXCEPT ![r] = "pending"]
              /\ pc' = [pc EXCEPT ![t] = "idle"]
              /\ UNCHANGED cancelOwner
    /\ UNCHANGED <<active, activeOwner, canceled, ec, response, job, upc, ucur,
                   cancels, callbacks>>

\* connect / write handler: lock m_cancel_guard; if m_was_canceled, call
\* OnRequestComplete with the lock held (it is released when the handler
\* returns); otherwise start the next operation and release the lock.
HandlerLock(t) ==
    LET r == job[t] IN
    /\ pc[t] \in {"conn_lock", "write_lock"}
    /\ cancelOwner[r] = NoOne
    /\ IF canceled[r]
         THEN /\ cancelOwner' = [cancelOwner EXCEPT ![r] = t]
              /\ pc' = [pc EXCEPT ![t] = "orc_shutdown"]
              /\ UNCHANGED <<op, st>>
         ELSE /\ op' = [op EXCEPT ![r] = NextOp(@)]
              /\ st' = [st EXCEPT ![r] = "pending"]
              /\ pc' = [pc EXCEPT ![t] = "idle"]
              /\ UNCHANGED cancelOwner
    /\ UNCHANGED <<active, activeOwner, canceled, ec, response, job, upc, ucur,
                   cancels, callbacks>>

\* OnRequestComplete, line 238: m_sock.shutdown(), error ignored.
OrcShutdown(t) ==
    /\ pc[t] = "orc_shutdown"
    /\ pc' = [pc EXCEPT ![t] = "orc_lock"]
    /\ UNCHANGED <<active, activeOwner, cancelOwner, canceled, op, st, ec,
                   response, job, upc, ucur, cancels, callbacks>>

\* Mutant: the id is erased without taking m_active_sessions_guard.
OrcLock_nolock(t) ==
    /\ pc[t] = "orc_lock"
    /\ active' = active \ {job[t]}
    /\ pc' = [pc EXCEPT ![t] = "orc_callback"]
    /\ UNCHANGED <<activeOwner, cancelOwner, canceled, op, st, ec, response,
                   job, upc, ucur, cancels, callbacks>>

\* Lines 243-251: lock m_active_sessions_guard, erase the id, unlock.
OrcLock(t) ==
    /\ pc[t] = "orc_lock"
    /\ activeOwner = NoOne
    /\ active' = active \ {job[t]}
    /\ pc' = [pc EXCEPT ![t] = "orc_callback"]
    /\ UNCHANGED <<activeOwner, cancelOwner, canceled, op, st, ec, response,
                   job, upc, ucur, cancels, callbacks>>

\* Mutant: the callback is given m_ec alone, the cancel flag is not read.
CallbackEc_noflag(r) == ec[r]

\* The error code the callback is given (lines 253-259).
CallbackEc(r) == IF ec[r] = "ok" /\ canceled[r] THEN "aborted" ELSE ec[r]

\* Mutant: the handler keeps m_cancel_guard after OnRequestComplete.
OrcCallback_keeplock(t) ==
    LET r == job[t] IN
    /\ pc[t] = "orc_callback"
    /\ callbacks' = [callbacks EXCEPT ![r] = Append(@, CallbackEc(r))]
    /\ pc' = [pc EXCEPT ![t] = "idle"]
    /\ job' = [job EXCEPT ![t] = NoOne]
    /\ UNCHANGED <<active, activeOwner, cancelOwner, canceled, op, st, ec,
                   response, upc, ucur, cancels>>

\* Lines 253-263: call m_callback with that code; then the handler
\* returns, releasing m_cancel_guard if it held it.
OrcCallback(t) ==
    LET r == job[t] IN
    /\ pc[t] = "orc_callback"
    /\ callbacks' = [callbacks EXCEPT ![r] = Append(@, CallbackEc(r))]
    /\ cancelOwner' = [cancelOwner EXCEPT ![r] = IF @ = t THEN NoOne ELSE @]
    /\ pc' = [pc EXCEPT ![t] = "idle"]
    /\ job' = [job EXCEPT ![t] = NoOne]
    /\ UNCHANGED <<active, activeOwner, canceled, op, st, ec, response, upc,
                   ucur, cancels>>

-----------------------------------------------------------------------------

UserStep ==
    \/ \E r \in Requests : EmulateLongComputationOp(r) \/ CancelRequest(r)
    \/ CancelLockSession
    \/ CancelSocket
    \/ Close
    \/ CloseJoin

PoolStep(t) ==
    \/ \E r \in Requests : Dispatch(t, r)
    \/ HandlerLock(t)
    \/ OrcShutdown(t)
    \/ OrcLock(t)
    \/ OrcCallback(t)

Next ==
    \/ UserStep
    \/ \E r \in Requests : Complete(r)
    \/ \E t \in Threads : PoolStep(t)


\* The user thread finishes a call it is inside of; pool threads run
\* (io_context::run() never leaves a queued handler); the server answers
\* or the connection fails, so a pending operation completes.  Whether the
\* user calls a method at all is up to the user: no fairness.
Fairness ==
    /\ WF_vars(CancelLockSession \/ CancelSocket \/ CloseJoin)
    /\ \A t \in Threads : WF_vars(PoolStep(t))
    /\ \A r \in Requests : WF_vars(Complete(r))

Spec == Init /\ [][Next]_vars /\ Fairness

-----------------------------------------------------------------------------
(* Properties                                                              *)

\* OnRequestComplete "is called when the request ends in any way" and calls
\* the callback: whatever the interleaving of CancelRequest with the
\* handlers, a request's callback runs at most once.
CallbackAtMostOnce == \A r \in Requests : Len(callbacks[r]) <= 1

\* The cancel flag's comment (lines 197-200): a request the user canceled
\* while it was still active never reports success, even when the
\* operation it was waiting for had already completed successfully.
CanceledNeverSucceeds ==
    \A r \in Requests : canceled[r] => \A i \in 1..Len(callbacks[r]) : callbacks[r][i] # "ok"

\* Every request started eventually has its callback run, and Close()
\* returns.
RequestsComplete ==
    /\ \A r \in Requests : op[r] # "idle" ~> Len(callbacks[r]) = 1
    /\ upc = "closing" ~> upc = "closed"

\* The request lifecycle of RequestSpec, seen through the refinement
\* mapping: a request is done once its callback ran, active once its chain
\* was started; the cancel is m_was_canceled.
Status ==
    [r \in Requests |-> IF callbacks[r] # <<>> THEN "done"
                        ELSE IF op[r] # "idle" THEN "active" ELSE "idle"]

Lifecycle == INSTANCE RequestSpec WITH status <- Status, reported <- callbacks

\* AsyncTCPClientMT implements RequestSpec: however CancelRequest's lock
\* steps interleave with the handlers on the pool threads, a request's
\* callback runs once, after it was started; m_was_canceled is only ever
\* set while the request is still active, never after its callback; and
\* a callback reports success only for a request not canceled before it.
RequestRefinement == Lifecycle!Spec

\* The lock a thread is blocked on, and who holds it.
Blocked(a) ==
    IF a = User THEN upc = "cancel_lock"
    ELSE pc[a] \in {"conn_lock", "write_lock", "orc_lock"}
Holder(a) ==
    IF a = User THEN cancelOwner[ucur]
    ELSE IF pc[a] = "orc_lock" THEN activeOwner ELSE cancelOwner[job[a]]
WaitsFor ==
    [node |-> Actors,
     edge |-> {<<a, b>> \in Actors \X Actors : Blocked(a) /\ Holder(a) = b}]

\* m_cancel_guard is taken under m_active_sessions_guard by CancelRequest,
\* and m_active_sessions_guard under m_cancel_guard by a handler calling
\* OnRequestComplete: no set of threads ever waits on each other in a cycle.
NoDeadlock == ~HasCycle(WaitsFor)

\* asio sockets are not safe for concurrent use: OnRequestComplete's
\* m_sock.shutdown() and CancelRequest's m_sock.cancel() never run on the
\* same socket at the same time.
NoSocketRace ==
    ~\E t \in Threads : pc[t] = "orc_shutdown" /\ upc = "cancel_sock" /\ ucur = job[t]

=============================================================================
