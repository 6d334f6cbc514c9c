---------------------------- MODULE MCNodeLauncher ----------------------------
(* Two starts of the program: the second one during the life of the first, or after it. *)
EXTENDS NodeLauncher

CONSTANTS l1, l2
TwoStarts == {l1, l2}
=============================================================================
