----------------------------- MODULE MCKeybinds -----------------------------
(* Keybinds on small instances, with interchangeable registrations.          *)
EXTENDS Keybinds, TLC

\* One key is bound to begin with, or none: a reload moves between the two.
BoundSome == {{}, {"a"}}

Interchangeable == Permutations(Ids)
=============================================================================
