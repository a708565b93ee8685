------------------------- MODULE MCGroupController -------------------------
(***************************************************************************)
(* GroupController for TLC's safety runs.  Sessions and GUIDs are          *)
(* interchangeable: no definition picks one of them by name or order.      *)
(***************************************************************************)
EXTENDS GroupController, TLC

Symmetry == Permutations(Sessions) \cup Permutations(Guids)
=============================================================================
