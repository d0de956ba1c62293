---------------------------- MODULE MCSyncManager ----------------------------
EXTENDS SyncManager

CONSTANTS fa, fb

MCInitial == <<fa, fb>>
==============================================================================
