---------------------------- MODULE MCOutputFrames ----------------------------
(* OutputFrames for TLC: both backends, and the kernel owes at most two flips, *)
(* one of before a pause and one of after it.                                  *)
EXTENDS OutputFrames

===============================================================================
