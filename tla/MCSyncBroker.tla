---------------------------- MODULE MCSyncBroker ----------------------------
(* Instances of SyncBroker for TLC: one dataset, model values elsewhere. *)
EXTENDS SyncBroker, TLC

MCDatasetOf == [p \in Path |-> CHOOSE s \in Dataset : TRUE]

\* Devices, versions and chunks are interchangeable.
Symmetry == Permutations(Device) \union Permutations(Version) \union Permutations(Chunk)
=============================================================================
