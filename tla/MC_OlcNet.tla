------------------------------ MODULE MC_OlcNet ------------------------------
(* Instantiation of OlcNet for TLC: two CustomClient processes, one value   *)
(* system_clock::now() returns, and the two payload types the programs   *)
(* push: uint32_t (the client id of ServerMessage) and time_point (the    *)
(* ServerPing timestamp).                                                  *)
EXTENDS OlcNet, TLC

CONSTANTS c1, c2, t1

MCClients == {c1, c2}
MCTimes == {t1}
MCValues == MCTimes \cup 1..2
MCSizeOf == [uint32 |-> 4, time_point |-> 8]

\* Clients are interchangeable: ids follow accept order, not names.
Symmetry == Permutations(MCClients)
=============================================================================
