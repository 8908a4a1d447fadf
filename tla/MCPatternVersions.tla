------------------------- MODULE MCPatternVersions -------------------------
(* Requests are interchangeable: none is named by an action or a property. *)
EXTENDS PatternVersions, TLC
Symmetric == Permutations(Req)
=============================================================================
