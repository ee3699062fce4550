-------------------------- MODULE MCProxyIdentity ---------------------------
EXTENDS IdentityHistory
=============================================================================
