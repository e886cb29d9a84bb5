--------------------------- MODULE MCDaemonSocket ---------------------------
EXTENDS DaemonSocket
=============================================================================
