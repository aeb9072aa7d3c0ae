----------------------------- MODULE MCCatalog ------------------------------
(* Catalog for TLC: column lists with and without one of two primary keys,   *)
(* that overlap or not, and a list with a column twice; databases may be     *)
(* exchanged for one another.                                                *)
EXTENDS Catalog, TLC

CONSTANTS a, b, c

ColumnLists == {<<a>>, <<b>>, <<c>>, <<c, a>>, <<c, c>>}

Symmetry == Permutations(Database)
=============================================================================
