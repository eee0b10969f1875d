--------------------------- MODULE MCSocketOutput ---------------------------
EXTENDS SocketOutput
=============================================================================
