--------------------------- MODULE MCProxySession ---------------------------
EXTENDS ProxySession
=============================================================================
