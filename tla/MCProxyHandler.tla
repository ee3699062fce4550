--------------------------- MODULE MCProxyHandler ---------------------------
EXTENDS ProxyHandler
=============================================================================
