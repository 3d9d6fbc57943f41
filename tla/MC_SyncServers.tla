---------------------------- MODULE MC_SyncServers ----------------------------
EXTENDS SyncServers

CONSTANTS c1, c2, c3

MCClients == {c1, c2, c3}

=============================================================================
