---------------------------- MODULE MCPeerLookup ----------------------------
EXTENDS PeerLookup
=============================================================================
