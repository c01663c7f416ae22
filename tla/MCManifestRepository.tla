------------------------ MODULE MCManifestRepository ------------------------
(***************************************************************************)
(* Small instances of ManifestRepository for TLC.                          *)
(***************************************************************************)
EXTENDS ManifestRepository, TLC

Symmetry == Permutations(Uploads) \cup Permutations(Components)
                \cup Permutations(Trusted)
=============================================================================
