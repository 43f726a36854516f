------------------------------- MODULE MCCapture -------------------------------
(* Capture on small instances, with interchangeable clients and output sizes. *)
EXTENDS Capture, TLC

Symmetry == Permutations(Clients) \cup Permutations(Modes)
=============================================================================
