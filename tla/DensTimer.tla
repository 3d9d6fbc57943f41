------------------------------ MODULE DensTimer ------------------------------
(***************************************************************************)
(* The periodic timer of src/etc/dens_timer.cpp.  async_wait() sets the    *)
(* global high_resolution_timer to expire after 1 s and waits on it; the   *)
(* completion handler returns on operation_aborted, otherwise prints and   *)
(* calls async_wait() again.  main() starts the first wait, starts a       *)
(* thread that sleeps 4 s and calls timer.cancel(), runs io_context::run() *)
(* on the main thread, and joins the thread when run() returns.            *)
(*                                                                         *)
(* The wait operation is pending in the reactor, or completed with its     *)
(* handler queued (ok when the timer expired, aborted when it was          *)
(* cancelled).  The handler runs on the main thread in two steps: the test *)
(* of the error code, then the re-arm, so that the cancelling thread can   *)
(* run between them.  timer.cancel() only aborts a wait still pending.     *)
(***************************************************************************)
EXTENDS Naturals

VARIABLES
    wait,   \* the timer's async_wait: none, pending, ok, aborted
    io,     \* the main thread: in run(), inside the handler, joining, exited
    thd     \* the cancelling thread: sleeping, done

vars == <<wait, io, thd>>

TypeOK ==
    /\ wait \in {"none", "pending", "ok", "aborted"}
    /\ io \in {"run", "handler", "join", "exit"}
    /\ thd \in {"sleeping", "done"}
    \* inside the handler the wait it completes has been consumed
    /\ io = "handler" => wait = "none"

\* main(): async_wait() has armed the timer and thd has been started.
Init ==
    /\ wait = "pending"
    /\ io = "run"
    /\ thd = "sleeping"

\* The timer reaches its expiry: the wait completes with success.
Expire ==
    /\ wait = "pending"
    /\ wait' = "ok"
    /\ UNCHANGED <<io, thd>>

\* run() dequeues the completion and the handler tests the error code:
\* on operation_aborted it prints and returns; otherwise it prints the
\* elapsed seconds and goes on to re-arm.
HandlerStart ==
    /\ io = "run" /\ wait \in {"ok", "aborted"}
    /\ io' = IF wait = "aborted" THEN "run" ELSE "handler"
    /\ wait' = "none"
    /\ UNCHANGED thd

\* The handler calls async_wait(): expires_after(1 s) and a new async_wait.
Rearm ==
    /\ io = "handler"
    /\ wait' = "pending"
    /\ io' = "run"
    /\ UNCHANGED thd

\* thd: after sleep_for(4 s), timer.cancel() aborts the wait if it is
\* still pending; a completion already queued, or a handler running, is
\* not affected.
Cancel ==
    /\ thd = "sleeping"
    /\ wait' = IF wait = "pending" THEN "aborted" ELSE wait
    /\ thd' = "done"
    /\ UNCHANGED io

\* io_context::run() returns once no work is left: no wait outstanding and
\* no handler running.
RunReturns ==
    /\ io = "run" /\ wait = "none"
    /\ io' = "join"
    /\ UNCHANGED <<wait, thd>>

\* thd.join() returns when thd has finished; main returns 0.
Join ==
    /\ io = "join" /\ thd = "done"
    /\ io' = "exit"
    /\ UNCHANGED <<wait, thd>>

Next ==
    \/ Expire \/ HandlerStart \/ Rearm \/ Cancel \/ RunReturns \/ Join

\* Both threads run; a pending wait expires after its second; thd's sleep
\* ends and it calls cancel().
Fairness ==
    /\ WF_vars(HandlerStart \/ Rearm \/ RunReturns \/ Join)
    /\ WF_vars(Cancel)
    /\ WF_vars(Expire)

Spec == Init /\ [][Next]_vars /\ Fairness

-----------------------------------------------------------------------------
(* Properties                                                              *)

\* The cancel thread is there to stop the periodic timer: after its
\* timer.cancel() the handler sees operation_aborted, run() runs out of
\* work and main() joins the thread and exits.
ProgramExits == <>(io = "exit")

=============================================================================
