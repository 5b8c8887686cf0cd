-------------------------- MODULE MCProxyLifecycle --------------------------
EXTENDS ProxyLifecycle
=============================================================================
