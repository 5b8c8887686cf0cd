------------------------- MODULE MCEncryptedTunnel -------------------------
EXTENDS EncryptedTunnel

\* A u16 shrunk to 0..7 with a tag of 2 has payloads at and above
\* MAX_PLAINTEXT = 5.
MCSizes == {5, 6}
=============================================================================
