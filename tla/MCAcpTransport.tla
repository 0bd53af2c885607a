--------------------------- MODULE MCAcpTransport ---------------------------
\* Two runs with a stream thread each.
EXTENDS AcpTransport
=============================================================================
