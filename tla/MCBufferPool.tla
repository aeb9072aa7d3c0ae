---------------------------- MODULE MCBufferPool ----------------------------
(* BufferPool for TLC: pages and handles may be exchanged for one another. *)
EXTENDS BufferPool, TLC

Symmetry == Permutations(PageId) \cup Permutations(Handle)
=============================================================================
