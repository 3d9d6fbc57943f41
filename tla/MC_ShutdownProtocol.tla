------------------------- MODULE MC_ShutdownProtocol -------------------------
EXTENDS ShutdownProtocol

\* request_buf {0x48, 0x65, 0x0, 0x6c, 0x6c, 0x6f} and response_buf
\* {0x48, 0x69, 0x21}, byte for byte.
MCRequest == <<72, 101, 0, 108, 108, 111>>
MCResponse == <<72, 105, 33>>
=============================================================================
