-------------------------------- MODULE OlcNet --------------------------------
(***************************************************************************)
(* The olc::net client/server programs: simple_server.cpp (CustomServer)  *)
(* and net_project1/simple_client.cpp (CustomClient and its main loop),    *)
(* over the framework they derive from: connection, client_interface and  *)
(* server_interface.  The framework headers are not in the repository;    *)
(* their behaviour is taken from spec.md sections 4.3 to 4.5.             *)
(*                                                                         *)
(* Every client has one connection, and the server one connection per     *)
(* client; a connection end is <<c, "cli">> or <<c, "srv">>.  Each end    *)
(* writes a stream of tokens to its peer over a reliable ordered channel: *)
(* a header token, then the body bytes of the message (MessageCodec).     *)
(* The reader reads one header, then header.size bytes, and assembles a   *)
(* message.  The incoming queues are tsqueues used through push_back,     *)
(* empty and pop_front, steps of the atomic deque QueueSpec that TsQueue  *)
(* refines; the blocking wait() of Update is a guard.                     *)
(***************************************************************************)
EXTENDS Naturals, Sequences, SequencesExt, FiniteSets, MessageCodec

CONSTANTS
    Clients,     \* the CustomClient processes
    Times,       \* values system_clock::now() may return
    MaxInputs,   \* bound on the numbers all clients together read from std::cin
    MaxResets    \* bound on the connection resets in one behaviour

Srv == "srv"
Cli == "cli"
Ends == Clients \X {Srv, Cli}
Peer(k) == <<k[1], IF k[2] = Srv THEN Cli ELSE Srv>>

\* Client ids the server hands out in accept order (nIDCounter).
IDs == 1..Cardinality(Clients)

ASSUME Times \cup IDs \subseteq Values

MsgIds == {"ServerAccept", "ServerDeny", "ServerPing", "MessageAll",
           "ServerMessage"}

\* The message_header bytes on the wire, as one token.
HeaderToken(m) == [val |-> m.id, type |-> "header", off |-> m.size]
IsHeader(tok) == tok.type = "header"

\* Header tokens and body bytes on a wire (a byte's val is a number or a
\* model value, a header's an id, so the test looks at the type first).
IsToken(tok) ==
    IF IsHeader(tok) THEN tok \in [val : MsgIds \cup {Garbage}, type : {"header"}, off : Nat]
    ELSE tok \in Bytes
IsTokens(s) == \A i \in DOMAIN s : IsToken(s[i])
IsMessage(m) ==
    /\ DOMAIN m = {"id", "size", "body"}
    /\ m.id \in MsgIds \cup {Garbage}
    /\ m.size \in Nat
    /\ IsTokens(m.body)

\* What a reader assembles when the bytes it takes as a header were not
\* written as one: the stream has lost its framing.
Desync == [id |-> Garbage, size |-> 0, body |-> <<>>]

VARIABLES
    sock,           \* per end: "none", "connecting", "open" or "closed"
    qMessagesOut,   \* per end: the outgoing tsqueue of messages
    writing,        \* per end: the header of the front message is written
    wire,           \* per end: tokens written and not yet read by the peer
    reading,        \* per end: the header read while its body is awaited
    qMessagesIn,    \* the server's incoming tsqueue of owned messages
    clientIn,       \* per client: its client_interface incoming tsqueue
    deqConnections, \* the server's connection set (clients)
    clientId,       \* per client: the id the server gave its connection
    nIDCounter,     \* the server's next id
    pc,             \* per client: "input", "poll" or "done"
    bQuit,          \* per client: the main loop's bQuit
    inputs,         \* per client: numbers read from std::cin so far
    crashed,        \* per client: an operator>> underflowed
    resets,         \* connection resets so far (bounded by MaxResets)
    \* ghost state for the properties
    transit,        \* per end: messages it started to write that the peer
                    \* has not assembled yet, in order (lost on a reset)
    disconnects,    \* per client: OnClientDisconnect calls for it
    pinged,         \* per client: the times it put into ServerPing messages
    pongs,          \* per client: the timeThen values it extracted
    announced,      \* clients whose MessageAll the server handled
    hellos          \* per client: the clientID values it extracted

conn == <<sock, qMessagesOut, writing, wire, reading>>
srvVars == <<qMessagesIn, deqConnections, clientId, nIDCounter>>
cliVars == <<clientIn, pc, bQuit, inputs, crashed>>
ghost == <<resets, transit, disconnects, pinged, pongs, announced, hellos>>
vars == <<conn, srvVars, cliVars, ghost>>

NoHeader == [val |-> "none", type |-> "header", off |-> 0]

TypeOK ==
    /\ sock \in [Ends -> {"none", "connecting", "open", "closed"}]
    /\ \A k \in Ends : \A i \in DOMAIN qMessagesOut[k] : IsMessage(qMessagesOut[k][i])
    /\ writing \in [Ends -> BOOLEAN]
    /\ \A k \in Ends : IsTokens(wire[k])
    /\ \A i \in DOMAIN qMessagesIn : /\ qMessagesIn[i].remote \in Clients
                                    /\ IsMessage(qMessagesIn[i].msg)
    /\ \A c \in Clients : \A i \in DOMAIN clientIn[c] : IsMessage(clientIn[c][i])
    /\ deqConnections \subseteq Clients
    /\ clientId \in [Clients -> IDs \cup {0}]
    /\ pc \in [Clients -> {"input", "poll", "done"}]
    /\ inputs \in [Clients -> 0..MaxInputs]
    /\ disconnects \in [Clients -> Nat]
    \* a body write in progress is of the message still at the front
    /\ \A k \in Ends : writing[k] => qMessagesOut[k] # <<>>

-----------------------------------------------------------------------------
(* Framework: connection (spec.md 4.3), modelled from the spec.           *)

\* connection::Send: push the message to the back of the outgoing queue;
\* the write loop picks it up.  A closed connection drops it (its write
\* would fail).
Send(k, m) ==
    qMessagesOut' = IF sock[k] = "closed" THEN qMessagesOut
                    ELSE [qMessagesOut EXCEPT ![k] = Append(@, m)]

\* Mutant: the front message is popped once its header is written.
WriteHeader_pop(k) ==
    /\ sock[k] = "open"
    /\ qMessagesOut[k] # <<>>
    /\ ~writing[k]
    /\ LET m == Head(qMessagesOut[k])
       IN /\ wire' = [wire EXCEPT ![k] = Append(@, HeaderToken(m))]
          /\ transit' = [transit EXCEPT ![k] = Append(@, m)]
          /\ qMessagesOut' = [qMessagesOut EXCEPT ![k] = Tail(@)]
          /\ writing' = [writing EXCEPT ![k] = m.body # <<>>]
    /\ UNCHANGED <<resets, sock, reading, srvVars, cliVars, disconnects,
                   pinged, pongs, announced, hellos>>

\* WriteHeader: async_write of the front message's header; with an empty
\* body the message is done and popped.
WriteHeader(k) ==
    /\ sock[k] = "open"
    /\ qMessagesOut[k] # <<>>
    /\ ~writing[k]
    /\ LET m == Head(qMessagesOut[k])
       IN /\ wire' = [wire EXCEPT ![k] = Append(@, HeaderToken(m))]
          /\ transit' = [transit EXCEPT ![k] = Append(@, m)]
          /\ IF m.body # <<>>
               THEN /\ writing' = [writing EXCEPT ![k] = TRUE]
                    /\ UNCHANGED qMessagesOut
               ELSE /\ qMessagesOut' = [qMessagesOut EXCEPT ![k] = Tail(@)]
                    /\ UNCHANGED writing
    /\ UNCHANGED <<resets, sock, reading, srvVars, cliVars, disconnects,
                   pinged, pongs, announced, hellos>>

\* WriteBody: async_write of the body bytes, then pop the front message.
WriteBody(k) ==
    /\ sock[k] = "open"
    /\ writing[k]
    /\ wire' = [wire EXCEPT ![k] = @ \o Head(qMessagesOut[k]).body]
    /\ qMessagesOut' = [qMessagesOut EXCEPT ![k] = Tail(@)]
    /\ writing' = [writing EXCEPT ![k] = FALSE]
    /\ UNCHANGED <<sock, reading, srvVars, cliVars, ghost>>

\* AddToIncomingMessageQueue: the server side tags the message with the
\* connection it came from; both push to the back.
Deliver(k, m) ==
    IF k[2] = Srv
      THEN /\ qMessagesIn' = Append(qMessagesIn, [remote |-> k[1], msg |-> m])
           /\ UNCHANGED clientIn
      ELSE /\ clientIn' = [clientIn EXCEPT ![k[1]] = Append(@, m)]
           /\ UNCHANGED qMessagesIn

\* ReadHeader: async_read of sizeof(message_header) bytes; a header with
\* size 0 is a whole message, otherwise the body read is issued.
ReadHeader(k) ==
    /\ sock[k] = "open"
    /\ reading[k] = NoHeader
    /\ wire[Peer(k)] # <<>>
    /\ LET tok == Head(wire[Peer(k)])
           m   == [id |-> tok.val, size |-> tok.off, body |-> <<>>]
       IN /\ wire' = [wire EXCEPT ![Peer(k)] = Tail(@)]
          /\ IF ~IsHeader(tok)
               THEN /\ Deliver(k, Desync)
                    /\ transit' = [transit EXCEPT ![Peer(k)] = Tail(@)]
                    /\ sock' = [sock EXCEPT ![k] = "closed"]
                    /\ UNCHANGED reading
             ELSE IF tok.off = 0
               THEN /\ Deliver(k, m)
                    /\ transit' = [transit EXCEPT ![Peer(k)] = Tail(@)]
                    /\ UNCHANGED <<sock, reading>>
             ELSE /\ reading' = [reading EXCEPT ![k] = tok]
                  /\ UNCHANGED <<sock, transit, qMessagesIn, clientIn>>
    /\ UNCHANGED <<resets, qMessagesOut, writing, deqConnections, clientId,
                   nIDCounter, pc, bQuit, inputs, crashed,
                   disconnects, pinged, pongs, announced, hellos>>

\* ReadBody: async_read of header.size bytes, then the message is whole.
ReadBody(k) ==
    /\ sock[k] = "open"
    /\ reading[k] # NoHeader
    /\ Len(wire[Peer(k)]) >= reading[k].off
    /\ LET n == reading[k].off
           m == [id |-> reading[k].val, size |-> n,
                 body |-> SubSeq(wire[Peer(k)], 1, n)]
       IN /\ wire' = [wire EXCEPT ![Peer(k)] = SubSeq(@, n + 1, Len(@))]
          /\ Deliver(k, m)
          /\ transit' = [transit EXCEPT ![Peer(k)] = Tail(@)]
    /\ reading' = [reading EXCEPT ![k] = NoHeader]
    /\ UNCHANGED <<resets, sock, qMessagesOut, writing, deqConnections, clientId,
                   nIDCounter, pc, bQuit, inputs, crashed,
                   disconnects, pinged, pongs, announced, hellos>>

\* A read that finds the peer gone (eof after the last byte), or a write
\* to a peer that is gone, fails: the socket is closed.
IoFail(k) ==
    /\ sock[k] = "open"
    /\ sock[Peer(k)] = "closed"
    /\ \/ wire[Peer(k)] = <<>>
       \/ qMessagesOut[k] # <<>>
    /\ sock' = [sock EXCEPT ![k] = "closed"]
    /\ UNCHANGED <<qMessagesOut, writing, wire, reading, srvVars, cliVars,
                   ghost>>

\* Fault: the connection of client c is reset; bytes in flight are lost.
Reset(c) ==
    /\ resets < MaxResets
    /\ resets' = resets + 1
    /\ sock[<<c, Cli>>] = "open"
    /\ sock[<<c, Srv>>] = "open"
    /\ sock' = [sock EXCEPT ![<<c, Cli>>] = "closed", ![<<c, Srv>>] = "closed"]
    /\ wire' = [wire EXCEPT ![<<c, Cli>>] = <<>>, ![<<c, Srv>>] = <<>>]
    /\ transit' = [transit EXCEPT ![<<c, Cli>>] = <<>>, ![<<c, Srv>>] = <<>>]
    /\ UNCHANGED <<qMessagesOut, writing, reading, srvVars, cliVars,
                   disconnects, pinged, pongs, announced, hellos>>

-----------------------------------------------------------------------------
(* Server: server_interface (spec.md 4.5) and CustomServer.               *)

\* CustomServer::OnClientConnect: send ServerAccept to the new connection
\* and accept it (return true).
OnClientConnect(k) == Send(k, NewMessage("ServerAccept"))

\* WaitForClientConnection: a completed accept of client c's connect.  The
\* hook runs on the new connection, which then joins the set, gets the next
\* id and starts reading (ConnectToClient); the client's connect completes.
Accept(c) ==
    /\ sock[<<c, Cli>>] = "connecting"
    /\ sock' = [sock EXCEPT ![<<c, Cli>>] = "open", ![<<c, Srv>>] = "open"]
    /\ OnClientConnect(<<c, Srv>>)
    /\ deqConnections' = deqConnections \cup {c}
    /\ clientId' = [clientId EXCEPT ![c] = nIDCounter]
    /\ nIDCounter' = nIDCounter + 1
    /\ UNCHANGED <<writing, wire, reading, qMessagesIn, cliVars, ghost>>

\* The connect of client c fails: its socket is closed, no retry.
ConnectFail(c) ==
    /\ sock[<<c, Cli>>] = "connecting"
    /\ sock' = [sock EXCEPT ![<<c, Cli>>] = "closed"]
    /\ UNCHANGED <<qMessagesOut, writing, wire, reading, srvVars, cliVars,
                   ghost>>

\* CustomServer::OnClientDisconnect, called for each client in gone.
OnClientDisconnect(gone) ==
    disconnects' = [c \in Clients |->
                      disconnects[c] + (IF c \in gone THEN 1 ELSE 0)]

\* Mutant: the ignored client is not skipped.
MessageAllClients_noignore(m, ignore) ==
    LET gone == {c \in deqConnections : sock[<<c, Srv>>] = "closed"}
        to   == deqConnections \ gone
    IN  /\ qMessagesOut' = [k \in Ends |->
                              IF k[2] = Srv /\ k[1] \in to
                                THEN Append(qMessagesOut[k], m)
                                ELSE qMessagesOut[k]]
        /\ OnClientDisconnect(gone)
        /\ deqConnections' = deqConnections \ gone

\* MessageAllClients(msg, pIgnoreClient): Send to every connected client
\* of the set but the ignored one; a client found closed gets
\* OnClientDisconnect and is erased from the set.
MessageAllClients(m, ignore) ==
    LET gone == {c \in deqConnections : sock[<<c, Srv>>] = "closed"}
        to   == deqConnections \ (gone \cup {ignore})
    IN  /\ qMessagesOut' = [k \in Ends |->
                              IF k[2] = Srv /\ k[1] \in to
                                THEN Append(qMessagesOut[k], m)
                                ELSE qMessagesOut[k]]
        /\ OnClientDisconnect(gone)
        /\ deqConnections' = deqConnections \ gone

\* Mutant: MessageAll broadcasts a ServerMessage without the sender's id.
OnMessage_nopush(c, m) ==
    CASE m.id = "ServerPing" ->
            Send(<<c, Srv>>, m)
            /\ UNCHANGED <<deqConnections, disconnects, announced>>
      [] m.id = "MessageAll" ->
            MessageAllClients(NewMessage("ServerMessage"), c)
            /\ announced' = announced \cup {c}
      [] OTHER ->
            UNCHANGED <<qMessagesOut, deqConnections, disconnects, announced>>

\* CustomServer::OnMessage: bounce a ServerPing to its sender; answer
\* MessageAll with a ServerMessage carrying the sender's id, sent to all
\* other clients.
OnMessage(c, m) ==
    CASE m.id = "ServerPing" ->
            Send(<<c, Srv>>, m)
            /\ UNCHANGED <<deqConnections, disconnects, announced>>
      [] m.id = "MessageAll" ->
            MessageAllClients(Push(NewMessage("ServerMessage"), clientId[c],
                                   "uint32"), c)
            /\ announced' = announced \cup {c}
      [] OTHER ->
            UNCHANGED <<qMessagesOut, deqConnections, disconnects, announced>>

\* main: while (1) server.Update(-1, true).  Update waits until the
\* incoming queue is non-empty, then pops and handles message after
\* message; each step here is one pop_front and its OnMessage.
Update ==
    /\ qMessagesIn # <<>>
    /\ OnMessage(Head(qMessagesIn).remote, Head(qMessagesIn).msg)
    /\ qMessagesIn' = Tail(qMessagesIn)
    /\ UNCHANGED <<resets, sock, writing, wire, reading, clientId, nIDCounter,
                   cliVars, transit, pinged, pongs, hellos>>

-----------------------------------------------------------------------------
(* Client: client_interface (spec.md 4.4) and simple_client.cpp.          *)

\* client_interface::IsConnected: the connection is not closed.
IsConnected(c) == sock[<<c, Cli>>] # "closed"

\* CustomClient::PingServer: a ServerPing carrying system_clock::now().
PingServer(c, t) ==
    /\ Send(<<c, Cli>>, Push(NewMessage("ServerPing"), t, "time_point"))
    /\ pinged' = [pinged EXCEPT ![c] = @ \cup {t}]

\* CustomClient::MessageAll: an empty MessageAll message.
MessageAll(c) == Send(<<c, Cli>>, NewMessage("MessageAll"))

\* main: std::cin >> number; 1 pings the server, 2 sends MessageAll,
\* 3 sets bQuit, any other number does neither.
Input(c) ==
    /\ pc[c] = "input"
    /\ SumFunction(inputs) < MaxInputs
    /\ inputs' = [inputs EXCEPT ![c] = @ + 1]
    /\ pc' = [pc EXCEPT ![c] = "poll"]
    /\ \/ \E t \in Times : PingServer(c, t) /\ UNCHANGED bQuit
       \/ MessageAll(c) /\ UNCHANGED <<bQuit, pinged>>
       \/ /\ bQuit' = [bQuit EXCEPT ![c] = TRUE]
          /\ UNCHANGED <<qMessagesOut, pinged>>
       \/ UNCHANGED <<qMessagesOut, bQuit, pinged>>
    /\ UNCHANGED <<resets, sock, writing, wire, reading, srvVars, clientIn, crashed,
                   transit, disconnects, pongs, announced, hellos>>

\* The switch on header.id of a message popped from Incoming(): a
\* ServerPing reply is read back into timeThen, a ServerMessage into
\* clientID.  An operator>> on a too-short body throws and ends the
\* process.
Handle(c, m) ==
    LET t   == IF m.id = "ServerPing" THEN "time_point" ELSE "uint32"
        val == Extract(m, t).data
    IN  IF m.id \notin {"ServerPing", "ServerMessage"}
          THEN UNCHANGED <<crashed, pongs, hellos>>
        ELSE IF Underflows(m, t)
          THEN /\ crashed' = [crashed EXCEPT ![c] = TRUE]
               /\ UNCHANGED <<pongs, hellos>>
        ELSE /\ pongs' = IF m.id = "ServerPing"
                           THEN [pongs EXCEPT ![c] = @ \cup {val}] ELSE pongs
             /\ hellos' = IF m.id = "ServerMessage"
                            THEN [hellos EXCEPT ![c] = @ \cup {val}] ELSE hellos
             /\ UNCHANGED crashed

\* main, after the input: if connected, pop and handle one message when
\* there is one; otherwise print "Server Down" and quit.  Leaving the loop
\* returns from main: ~client_interface disconnects, closing the socket.
Poll(c) ==
    /\ pc[c] = "poll"
    /\ IF IsConnected(c)
         THEN /\ IF clientIn[c] # <<>>
                   THEN /\ Handle(c, Head(clientIn[c]))
                        /\ clientIn' = [clientIn EXCEPT ![c] = Tail(@)]
                   ELSE UNCHANGED <<clientIn, crashed, pongs, hellos>>
              /\ UNCHANGED bQuit
         ELSE /\ bQuit' = [bQuit EXCEPT ![c] = TRUE]
              /\ UNCHANGED <<clientIn, crashed, pongs, hellos>>
    /\ LET quit == bQuit'[c] \/ crashed'[c]
       IN  /\ pc' = [pc EXCEPT ![c] = IF quit THEN "done" ELSE "input"]
           /\ sock' = IF quit THEN [sock EXCEPT ![<<c, Cli>>] = "closed"]
                      ELSE sock
    /\ UNCHANGED <<resets, qMessagesOut, writing, wire, reading, srvVars, inputs,
                   transit, disconnects, pinged, announced>>

-----------------------------------------------------------------------------

Init ==
    /\ sock = [k \in Ends |-> IF k[2] = Cli THEN "connecting" ELSE "none"]
    /\ qMessagesOut = [k \in Ends |-> <<>>]
    /\ writing = [k \in Ends |-> FALSE]
    /\ wire = [k \in Ends |-> <<>>]
    /\ reading = [k \in Ends |-> NoHeader]
    /\ qMessagesIn = <<>>
    /\ clientIn = [c \in Clients |-> <<>>]
    /\ deqConnections = {}
    /\ clientId = [c \in Clients |-> 0]
    /\ nIDCounter = 1
    /\ pc = [c \in Clients |-> "input"]
    /\ bQuit = [c \in Clients |-> FALSE]
    /\ inputs = [c \in Clients |-> 0]
    /\ crashed = [c \in Clients |-> FALSE]
    /\ resets = 0
    /\ transit = [k \in Ends |-> <<>>]
    /\ disconnects = [c \in Clients |-> 0]
    /\ pinged = [c \in Clients |-> {}]
    /\ pongs = [c \in Clients |-> {}]
    /\ announced = {}
    /\ hellos = [c \in Clients |-> {}]

Next ==
    \/ \E k \in Ends : WriteHeader(k) \/ WriteBody(k) \/ ReadHeader(k)
                       \/ ReadBody(k) \/ IoFail(k)
    \/ \E c \in Clients : Accept(c) \/ ConnectFail(c) \/ Reset(c)
                          \/ Input(c) \/ Poll(c)
    \/ Update

Spec == Init /\ [][Next]_vars

-----------------------------------------------------------------------------
(* Properties                                                             *)

\* The step is end k's reader pushing a message to its incoming queue.
Delivers(k) ==
    IF k[2] = Srv
      THEN Len(qMessagesIn') > Len(qMessagesIn) /\ Last(qMessagesIn').remote = k[1]
      ELSE Len(clientIn'[k[1]]) > Len(clientIn[k[1]])

\* The message end k's reader pushed last to its incoming queue.
LastDelivered(k) ==
    IF k[2] = Srv THEN Last(qMessagesIn).msg ELSE Last(clientIn[k[1]])

\* Framing end to end (spec.md 8): on every connection, in both directions,
\* each message the reader assembles from header.size-delimited reads and
\* pushes to its incoming queue is the next message the peer's write loop
\* sent: none lost in the middle, none merged or split.  It rests on
\* operator<< keeping header.size equal to the body length and on one
\* write in flight per connection.
FramingIntact ==
    [][\A k \in Ends :
         Delivers(k) => /\ transit[Peer(k)] # <<>>
                        /\ LastDelivered(k)' = Head(transit[Peer(k)])]_vars

\* Ping round trip: every timeThen a client reads out of a ServerPing reply
\* is a time that client itself put into a ping.  The server bounces each
\* ping to its sender only, and the time_point's bytes come back intact.
PingEcho == \A c \in Clients : pongs[c] \subseteq pinged[c]

\* "Hello from [clientID]": every id a client reads out of a ServerMessage
\* is the id the server gave another client whose MessageAll it handled;
\* MessageAllClients never sends a client its own announcement.
HelloFromOther ==
    \A c \in Clients : hellos[c] \subseteq {clientId[o] : o \in announced \ {c}}

\* operator>> never runs on a body shorter than the value read
\* (net_message.h:95): every message a client extracts from carries the
\* bytes the server put in for its id.
NoUnderflow == \A c \in Clients : ~crashed[c]

=============================================================================
