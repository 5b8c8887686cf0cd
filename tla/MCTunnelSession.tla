-------------------------- MODULE MCTunnelSession --------------------------
EXTENDS TunnelSession
=============================================================================
