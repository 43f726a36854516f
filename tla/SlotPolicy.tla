----------------------------- MODULE SlotPolicy -----------------------------
(***************************************************************************)
(* The pure decisions of workspace_navigation.rs: which slot "next" and    *)
(* "previous" lead to, and how many slots the dynamic tail keeps.          *)
(***************************************************************************)
EXTENDS Integers, FiniteSetsExt

CONSTANT MaxWorkspaces  \* MAX_WORKSPACES, 4096 in the program

ASSUME MaxWorkspacesAssumption == MaxWorkspaces \in Nat /\ MaxWorkspaces >= 2

NoSlot == -1                       \* Option::None for a slot index
Slots  == 0 .. MaxWorkspaces - 1

Directions == {"Next", "Previous"}

\* target(): the nearest admissible slot on that side. Nothing occupied ahead
\* exposes the next blank slot, which past the tail is slot `count` itself.
Target(occupied, count, source, direction, skipEmpty) ==
  LET admissible == {i \in 0 .. count - 1 : ~skipEmpty \/ i \in occupied}
      ahead      == {i \in admissible : i > source}
      behind     == {i \in admissible : i < source}
  IN IF source >= count THEN NoSlot
     ELSE IF direction = "Next"
          THEN IF ahead # {} THEN Min(ahead) ELSE source + 1
          ELSE IF behind # {} THEN Max(behind) ELSE NoSlot

\* trim_dynamic_workspaces(), the number of slots kept: every fixed slot and
\* one more, the slot after the active one, and the slot after every used one.
Retained(predefined, active, used) ==
  Min({MaxWorkspaces,
       Max({2, predefined + 1, active + 2} \cup {i + 2 : i \in used})})
=============================================================================
