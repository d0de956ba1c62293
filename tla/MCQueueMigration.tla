-------------------------- MODULE MCQueueMigration --------------------------
(* Instances of QueueMigration for TLC. *)
EXTENDS QueueMigration, TLC

\* Servers, computers and tokens are interchangeable.
Symmetry == Permutations(Server) \union Permutations(Client) \union Permutations(Token)
=============================================================================
