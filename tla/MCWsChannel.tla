---------------------------- MODULE MCWsChannel -----------------------------
EXTENDS WsChannel
=============================================================================
