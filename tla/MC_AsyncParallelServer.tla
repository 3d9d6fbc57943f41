------------------------ MODULE MC_AsyncParallelServer ------------------------
EXTENDS AsyncParallelServer
=============================================================================
