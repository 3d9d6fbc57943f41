------------------------- MODULE MC_AsyncTcpClientMT -------------------------
EXTENDS AsyncTcpClientMT, TLC

CONSTANTS r1, r2, t1, t2

MCRequests == {r1, r2}
MCOneRequest == {r1}
MCThreads == {t1, t2}

ThreadSymmetry == Permutations(MCThreads)
=============================================================================
