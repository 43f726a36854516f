--------------------------- MODULE MCSessionWorkers ---------------------------
(* SessionWorkers on a small instance. *)
EXTENDS SessionWorkers

=============================================================================
