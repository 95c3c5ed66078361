---------------------------- MODULE MCRemoteSync ----------------------------
EXTENDS RemoteSync
=============================================================================
