------------------------------ MODULE QueueSpec ------------------------------
(***************************************************************************)
(* What olc::net::tsqueue<T> promises its callers: a double-ended queue    *)
(* whose push_back, push_front and pop_front each take effect at one       *)
(* instant, in some order consistent with the calls.  out is the sequence  *)
(* of items pop_front has returned.  An item records the end it is pushed *)
(* to, so that an implementation putting it at the other end is not one    *)
(* of these behaviours.                                                    *)
(***************************************************************************)
EXTENDS Sequences

CONSTANT Items   \* records with a field end \in {"back", "front"}

VARIABLES q, out

Init == q = <<>> /\ out = <<>>

PushBack(x) == x.end = "back" /\ q' = Append(q, x) /\ UNCHANGED out

PushFront(x) == x.end = "front" /\ q' = <<x>> \o q /\ UNCHANGED out

PopFront == q # <<>> /\ out' = Append(out, Head(q)) /\ q' = Tail(q)

Next == (\E x \in Items : PushBack(x) \/ PushFront(x)) \/ PopFront

Spec == Init /\ [][Next]_<<q, out>>

=============================================================================
