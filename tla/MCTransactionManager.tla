------------------------ MODULE MCTransactionManager ------------------------
(* TransactionManager for TLC: the resources are interchangeable. *)
EXTENDS TransactionManager, TLC

Symmetry == Permutations(Resource)
=============================================================================
