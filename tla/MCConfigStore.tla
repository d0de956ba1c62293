--------------------------- MODULE MCConfigStore ---------------------------
(* Model values of the runs of ConfigStore: endpoints are interchangeable. *)
EXTENDS ConfigStore, TLC

EndpointSymmetry == Permutations(Hosts)
=============================================================================
