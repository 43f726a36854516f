-------------------------- MODULE MCSubscriptions --------------------------
(* Subscriptions on small instances. Its runs check liveness, so nothing is  *)
(* declared symmetric.                                                       *)
EXTENDS Subscriptions
=============================================================================
