----------------------------- MODULE MCTaxonomy -----------------------------
(***************************************************************************)
(* Rows of one kind are interchangeable.                                   *)
(***************************************************************************)
EXTENDS Taxonomy, TLC
Interchangeable == Permutations(Subject)
=============================================================================
