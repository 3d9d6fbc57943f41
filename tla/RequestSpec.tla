----------------------------- MODULE RequestSpec -----------------------------
(***************************************************************************)
(* What AsyncTCPClientMT (async_tcp_client_mt.cpp) promises its user, per  *)
(* request id: EmulateLongComputationOp starts the request; CancelRequest  *)
(* marks a request that is still active as canceled; the request ends by   *)
(* one call of the user's callback with an error code, which is never      *)
(* success for a request canceled before that call.  Each of these takes   *)
(* effect at one instant.                                                  *)
(***************************************************************************)
EXTENDS Sequences

CONSTANTS
    Requests,   \* request ids
    Ecs         \* the error codes a callback can be given; "ok" is success

VARIABLES
    status,     \* idle, active (started, no callback yet) or done
    canceled,   \* the user's cancel took effect on the request
    reported    \* the error codes given to the request's callback

vars == <<status, canceled, reported>>

Init ==
    /\ status = [r \in Requests |-> "idle"]
    /\ canceled = [r \in Requests |-> FALSE]
    /\ reported = [r \in Requests |-> <<>>]

Start(r) ==
    /\ status[r] = "idle"
    /\ status' = [status EXCEPT ![r] = "active"]
    /\ UNCHANGED <<canceled, reported>>

Cancel(r) ==
    /\ status[r] = "active"
    /\ canceled' = [canceled EXCEPT ![r] = TRUE]
    /\ UNCHANGED <<status, reported>>

Report(r, e) ==
    /\ status[r] = "active"
    /\ canceled[r] => e # "ok"
    /\ status' = [status EXCEPT ![r] = "done"]
    /\ reported' = [reported EXCEPT ![r] = <<e>>]
    /\ UNCHANGED canceled

Next == \E r \in Requests : Start(r) \/ Cancel(r) \/ \E e \in Ecs : Report(r, e)

Spec == Init /\ [][Next]_vars

=============================================================================
