-------------------------- MODULE MCWindowManagement --------------------------
(* WindowManagement on small instances, with interchangeable windows and slots. *)
EXTENDS WindowManagement

Symmetry == Permutations(Windows) \cup Permutations(Slots)
=============================================================================
