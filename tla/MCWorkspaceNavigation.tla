------------------------ MODULE MCWorkspaceNavigation ------------------------
(* WorkspaceNavigation on small instances, with the windows and the touchpads *)
(* interchangeable: no definition tells two of them apart.                    *)
EXTENDS WorkspaceNavigation, TLC

Symmetry == Permutations(Windows) \cup Permutations(Devices)
=============================================================================
