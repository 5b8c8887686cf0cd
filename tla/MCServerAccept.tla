--------------------------- MODULE MCServerAccept ---------------------------
EXTENDS ServerAccept
=============================================================================
