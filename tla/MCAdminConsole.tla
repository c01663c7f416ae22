--------------------------- MODULE MCAdminConsole ---------------------------
(***************************************************************************)
(* Small instances of AdminConsole for TLC.                                *)
(***************************************************************************)
EXTENDS AdminConsole, TLC

Symmetry == Permutations(Agents) \cup Permutations(Pages)
=============================================================================
