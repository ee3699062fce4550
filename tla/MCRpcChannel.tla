---------------------------- MODULE MCRpcChannel ----------------------------
EXTENDS RpcHistory
=============================================================================
