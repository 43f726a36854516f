------------------------ MODULE MCPointerInteraction ------------------------
(* PointerInteraction on small instances, with interchangeable tiles and shapes.*)
EXTENDS PointerInteraction, TLC

Symmetry == Permutations(Tiles) \cup Permutations(Shapes)
=============================================================================
