---------------------------- MODULE MCSyncClient ----------------------------
EXTENDS SyncClient, TLC

\* Devices and contents are interchangeable.
Symmetry == Permutations(Device) \union Permutations(Content)
=============================================================================
