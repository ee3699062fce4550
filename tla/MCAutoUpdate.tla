---------------------------- MODULE MCAutoUpdate ----------------------------
EXTENDS AutoUpdateHistory
=============================================================================
