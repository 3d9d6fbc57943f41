------------------------------ MODULE ChatServer ------------------------------
(***************************************************************************)
(* The asynchronous chat server of src/etc/dens_simple_chat_server.cpp:   *)
(* a server that accepts connections, one session per connection with a   *)
(* read loop (async_read_until "\n" -> on_read -> broadcast -> re-arm) and *)
(* a write loop over a private queue (post -> async_write -> on_write ->   *)
(* pop -> next), and a set of live sessions that every broadcast goes to.  *)
(*                                                                         *)
(* One thread runs io_context::run(), so every handler is one atomic step. *)
(* An asynchronous operation is split in two: the reactor completes it     *)
(* (ok or error), later its handler runs.  socket.close() completes a      *)
(* pending operation at once with operation_aborted, but a completion that *)
(* is already queued keeps its result.                                     *)
(***************************************************************************)
EXTENDS Naturals, Sequences, SequencesExt, FiniteSets

CONSTANTS
    MaxSessions,   \* bound on accepted connections (successful or not)
    MaxLines       \* bound on chat lines received over all sessions

ASSUME MaxSessions \in Nat \ {0} /\ MaxLines \in Nat

Sessions == 1..MaxSessions

\* Messages are abstracted to their kind and, as a ghost, the session they
\* are about ("We have a newcomer" and "We are one less" carry no name).
Msgs == [kind : {"welcome", "newcomer", "left", "line"}, who : Sessions]
Welcome(s)  == [kind |-> "welcome",  who |-> s]
Newcomer(s) == [kind |-> "newcomer", who |-> s]
Left(s)     == [kind |-> "left",     who |-> s]
Line(s)     == [kind |-> "line",     who |-> s]

\* State of the one read and the one write a session may have in flight:
\* none, pending in the reactor, or completed with ok / err and waiting for
\* its handler.
OpStates == {"none", "pending", "ok", "err"}

VARIABLES
    nextId,     \* sessions 1..nextId-1 have been created by the accept handler
    clients,    \* server::clients
    open,       \* the session's socket is open
    outgoing,   \* session::outgoing
    rd,         \* the session's async_read_until
    wr,         \* the session's async_write
    lines,      \* chat lines received so far
    posted,     \* ghost: every message session::post queued, in order
    wire        \* ghost: messages written to the peer, in order

vars == <<nextId, clients, open, outgoing, rd, wr, lines, posted, wire>>

TypeOK ==
    /\ nextId \in 1..MaxSessions + 1
    /\ clients \subseteq Sessions
    /\ open \in [Sessions -> BOOLEAN]
    /\ outgoing \in [Sessions -> Seq(Msgs)]
    /\ rd \in [Sessions -> OpStates]
    /\ wr \in [Sessions -> OpStates]
    /\ lines \in 0..MaxLines
    /\ posted \in [Sessions -> Seq(Msgs)]
    /\ wire \in [Sessions -> Seq(Msgs)]
    \* async_write writes outgoing.front(): a write in flight has a front.
    /\ \A s \in Sessions : wr[s] \in {"pending", "ok"} => outgoing[s] # <<>>

Init ==
    /\ nextId = 1
    /\ clients = {}
    /\ open = [s \in Sessions |-> FALSE]
    /\ outgoing = [s \in Sessions |-> <<>>]
    /\ rd = [s \in Sessions |-> "none"]
    /\ wr = [s \in Sessions |-> "none"]
    /\ lines = 0
    /\ posted = [s \in Sessions |-> <<>>]
    /\ wire = [s \in Sessions |-> <<>>]

\* Initiating an operation on a closed socket completes it with an error.
Initiate(isOpen) == IF isOpen THEN "pending" ELSE "err"

\* server::post(m) over the clients C: session::post(m) on each, which
\* pushes m and starts async_write only if the queue was empty before.  w is
\* the write state of the step before the posts.
PostedOutgoing(C, m) ==
    [c \in Sessions |-> IF c \in C THEN Append(outgoing[c], m) ELSE outgoing[c]]
PostedLog(C, m) ==
    [c \in Sessions |-> IF c \in C THEN Append(posted[c], m) ELSE posted[c]]
PostedWr(C, w) ==
    [c \in Sessions |-> IF c \in C /\ outgoing[c] = <<>> THEN Initiate(open[c]) ELSE w[c]]

post(C, m, w) ==
    /\ outgoing' = PostedOutgoing(C, m)
    /\ posted' = PostedLog(C, m)
    /\ wr' = PostedWr(C, w)

\* socket.close() completes the other pending operation with
\* operation_aborted.
Abort(op, s) == [op EXCEPT ![s] = IF @ = "pending" THEN "err" ELSE @]

-----------------------------------------------------------------------------
(* The accept handler.  The error_code is never tested: a failed accept    *)
(* still builds a session (on a socket that is not open), posts Welcome to *)
(* it, announces a newcomer, inserts it and starts it.                     *)

AcceptHandler ==
    /\ nextId <= MaxSessions
    /\ \E ok \in BOOLEAN :
         LET s == nextId
         IN /\ open' = [open EXCEPT ![s] = ok]
            \* client->post("Welcome\n\r"), then post("We have a newcomer")
            \* to the clients present before the insert
            /\ outgoing' = [PostedOutgoing(clients, Newcomer(s)) EXCEPT ![s] = <<Welcome(s)>>]
            /\ posted' = [PostedLog(clients, Newcomer(s)) EXCEPT ![s] = <<Welcome(s)>>]
            /\ wr' = [PostedWr(clients, wr) EXCEPT ![s] = Initiate(ok)]
            /\ clients' = clients \cup {s}
            \* client->start(...): the first async_read_until
            /\ rd' = [rd EXCEPT ![s] = Initiate(ok)]
            \* async_accept() again
            /\ nextId' = nextId + 1
    /\ UNCHANGED <<lines, wire>>

-----------------------------------------------------------------------------
(* The reactor completes pending operations.                               *)

\* The peer sends a line, or the connection fails (peer gone, reset).
ReadCompletes(s) ==
    /\ rd[s] = "pending"
    /\ \/ /\ lines < MaxLines
          /\ rd' = [rd EXCEPT ![s] = "ok"]
          /\ lines' = lines + 1
       \/ /\ rd' = [rd EXCEPT ![s] = "err"]
          /\ UNCHANGED lines
    /\ UNCHANGED <<nextId, clients, open, outgoing, wr, posted, wire>>

\* async_write of outgoing.front() puts it on the wire, or fails.
WriteCompletes(s) ==
    /\ wr[s] = "pending"
    /\ \/ /\ wr' = [wr EXCEPT ![s] = "ok"]
          /\ wire' = [wire EXCEPT ![s] = Append(@, Head(outgoing[s]))]
       \/ /\ wr' = [wr EXCEPT ![s] = "err"]
          /\ UNCHANGED wire
    /\ UNCHANGED <<nextId, clients, open, outgoing, rd, lines, posted>>

-----------------------------------------------------------------------------
(* Session handlers.                                                       *)

\* Mutant: the error handler posts "We are one less" whenever the weak_ptr
\* locks, without testing what clients.erase returned.
on_error_mut(s, w) ==
    /\ clients' = clients \ {s}
    /\ post(clients \ {s}, Left(s), w)

\* Mutant: the error handler announces the departure but forgets
\* clients.erase(shared).
on_error_noerase(s, w) ==
    IF s \in clients
      THEN /\ post(clients \ {s}, Left(s), w)
           /\ UNCHANGED clients
      ELSE /\ wr' = w
           /\ UNCHANGED <<clients, outgoing, posted>>

\* The error_handler given to start(): if the weak_ptr locks and
\* clients.erase(shared) removed it, post "We are one less" to the rest.
\* w is the write state after the socket was closed.
on_error(s, w) ==
    IF s \in clients
      THEN /\ clients' = clients \ {s}
           /\ post(clients \ {s}, Left(s), w)
      ELSE /\ wr' = w
           /\ UNCHANGED <<clients, outgoing, posted>>

\* on_read without error: server::post(line) to every client, then
\* async_read() again.
on_read_ok(s) ==
    /\ rd[s] = "ok"
    /\ post(clients, Line(s), wr)
    /\ rd' = [rd EXCEPT ![s] = Initiate(open[s])]
    /\ UNCHANGED <<nextId, clients, open, lines, wire>>

\* on_read with an error: socket.close(), on_error(); no re-arm.
on_read_err(s) ==
    /\ rd[s] = "err"
    /\ open' = [open EXCEPT ![s] = FALSE]
    /\ rd' = [rd EXCEPT ![s] = "none"]
    /\ on_error(s, Abort(wr, s))
    /\ UNCHANGED <<nextId, lines, wire>>

\* Mutant: on_write re-arms without testing outgoing.empty().
on_write_ok_always(s) ==
    /\ wr[s] = "ok"
    /\ outgoing' = [outgoing EXCEPT ![s] = Tail(@)]
    /\ wr' = [wr EXCEPT ![s] = Initiate(open[s])]
    /\ UNCHANGED <<nextId, clients, open, rd, lines, posted, wire>>

\* Mutant: on_write forgets outgoing.pop() and writes the front again.
on_write_ok_nopop(s) ==
    /\ wr[s] = "ok"
    /\ wr' = [wr EXCEPT ![s] = Initiate(open[s])]
    /\ UNCHANGED <<nextId, clients, open, outgoing, rd, lines, posted, wire>>

\* Mutant: on_write pops but never starts the next write.
on_write_ok_norearm(s) ==
    /\ wr[s] = "ok"
    /\ outgoing' = [outgoing EXCEPT ![s] = Tail(@)]
    /\ wr' = [wr EXCEPT ![s] = "none"]
    /\ UNCHANGED <<nextId, clients, open, rd, lines, posted, wire>>

\* on_write without error: outgoing.pop(); if more is queued, async_write.
on_write_ok(s) ==
    /\ wr[s] = "ok"
    /\ outgoing' = [outgoing EXCEPT ![s] = Tail(@)]
    /\ wr' = [wr EXCEPT ![s] = IF Tail(outgoing[s]) # <<>> THEN Initiate(open[s]) ELSE "none"]
    /\ UNCHANGED <<nextId, clients, open, rd, lines, posted, wire>>

\* on_write with an error: socket.close(), on_error().  The queue keeps
\* its messages and no write is started again.
on_write_err(s) ==
    /\ wr[s] = "err"
    /\ open' = [open EXCEPT ![s] = FALSE]
    /\ rd' = Abort(rd, s)
    /\ on_error(s, [wr EXCEPT ![s] = "none"])
    /\ UNCHANGED <<nextId, lines, wire>>

-----------------------------------------------------------------------------

Handler(s) == on_read_ok(s) \/ on_read_err(s) \/ on_write_ok(s) \/ on_write_err(s)

Next ==
    \/ AcceptHandler
    \/ \E s \in Sessions : ReadCompletes(s) \/ WriteCompletes(s) \/ Handler(s)

\* io_context::run() runs every queued handler, and the reactor completes a
\* write whose socket is open (the peer drains it) or fails it.  Whether a
\* peer sends, hangs up, or connects at all is up to the peers: no fairness.
Fairness ==
    \A s \in Sessions : WF_vars(WriteCompletes(s)) /\ WF_vars(Handler(s))

Spec == Init /\ [][Next]_vars /\ Fairness

-----------------------------------------------------------------------------
(* Properties                                                              *)

\* Per-session ordering (spec 4.3 "transmitted in FIFO append order and
\* never interleaved"): what a peer has received is a prefix of what was
\* posted to its session, in post order, without loss or repetition,
\* however posts from broadcasts, the accept handler and on_error interleave
\* with writes in flight.
WireIsPrefixOfPosted == \A s \in Sessions : IsPrefix(wire[s], posted[s])

\* Disconnect propagation (spec section 8, "exactly one disconnect
\* notification - never more than one"): a session whose read and write
\* both fail runs on_error twice, yet "We are one less" is posted for it at
\* most once to any client.
LeaveAnnouncedOnce ==
    \A s, c \in Sessions :
        Len(SelectSeq(posted[c], LAMBDA m : m = Left(s))) <= 1

\* The write loop never stalls: a message queued on a session that stays in
\* the client set is eventually written (or the session leaves the set).
QueueDrains ==
    \A s \in Sessions :
        (s \in clients /\ outgoing[s] # <<>>) ~> (outgoing[s] = <<>> \/ s \notin clients)

\* The accept handler ignores its error_code (partial failure of
\* async_accept): a session on a socket the accept never opened is welcomed,
\* announced and inserted.  Its first read and write then fail at once, and
\* the error handler takes it out of server::clients again: a session whose
\* socket is closed never stays a member of the client set.
FailedSessionLeaves ==
    \A s \in Sessions : (s \in clients /\ ~open[s]) ~> (s \notin clients)

=============================================================================
