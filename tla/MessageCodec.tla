----------------------------- MODULE MessageCodec -----------------------------
(***************************************************************************)
(* olc::net::message<T> (src/one_lone_coder/net_project1/net_message.h):  *)
(* a header {id, size} and a byte vector body, with operator<< appending   *)
(* the bytes of a standard-layout value and operator>> taking them back    *)
(* from the tail (a stack).                                                *)
(*                                                                         *)
(* The operators are pure: a message is a record [id, size, body] and     *)
(* operator<< / operator>> are functions from a message to a message.     *)
(* OlcNet applies them where simple_client and simple_server do.          *)
(*                                                                         *)
(* A byte is abstracted to which value it came from, that value's type and *)
(* its offset inside the value.  Reading sizeof(T) bytes as a T yields the *)
(* value only when those bytes are exactly the bytes of one T value, in    *)
(* order; any other run of bytes is reinterpreted memory, Garbage.         *)
(***************************************************************************)
EXTENDS Naturals, Sequences

CONSTANTS
    Values,    \* payload values an application pushes
    SizeOf,    \* [type -> sizeof(type)] for the standard-layout types in use
    Garbage    \* model value: a T read from bytes that are not one T

Types == DOMAIN SizeOf

ASSUME /\ \A t \in Types : SizeOf[t] \in Nat \ {0}
       /\ Garbage \notin Values

Bytes == [val : Values, type : Types, off : Nat]

\* message<T>: header{} (id, size = 0) and an empty body vector; the
\* programs then set header.id.
NewMessage(id) == [id |-> id, size |-> 0, body |-> <<>>]

\* The sizeof(T) bytes memcpy copies out of a T value.
BytesOf(v, t) == [k \in 1..SizeOf[t] |-> [val |-> v, type |-> t, off |-> k]]

\* The T that memcpy builds from the byte run r of length sizeof(T).
Reinterpret(r, t) ==
    IF \E v \in Values : r = BytesOf(v, t)
      THEN CHOOSE v \in Values : r = BytesOf(v, t)
      ELSE Garbage

\* Mutant: operator<< does not recompute header.size.
Push_nosize(m, v, t) == [m EXCEPT !.body = m.body \o BytesOf(v, t)]

\* msg << data: i = body.size(); body.resize(i + sizeof); memcpy at i;
\* header.size = size().
Push(m, v, t) ==
    LET b == m.body \o BytesOf(v, t)
    IN  [m EXCEPT !.body = b, !.size = Len(b)]

\* operator>> computes i = body.size() - sizeof(T) in size_t with no check:
\* on a shorter body i wraps around, memcpy reads before the buffer and
\* resize(i) throws std::length_error.
Underflows(m, t) == Len(m.body) < SizeOf[t]

\* Mutant: the read position is one byte too far (i = size - sizeof + 1).
Extract_mut(m, t) ==
    LET i == Len(m.body) - SizeOf[t] + 1
    IN  [data |-> Reinterpret(SubSeq(m.body, i + 1, Len(m.body)), t),
         msg  |-> [m EXCEPT !.body = SubSeq(m.body, 1, i), !.size = i]]

\* msg >> data on a body of at least sizeof(T) bytes: memcpy from
\* body.data() + i into data; body.resize(i); header.size = size().
\* The result pairs the value written to data with the shrunk message.
Extract(m, t) ==
    LET i == Len(m.body) - SizeOf[t]
    IN  [data |-> Reinterpret(SubSeq(m.body, i + 1, Len(m.body)), t),
         msg  |-> [m EXCEPT !.body = SubSeq(m.body, 1, i), !.size = i]]

=============================================================================
