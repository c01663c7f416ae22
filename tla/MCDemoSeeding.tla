--------------------------- MODULE MCDemoSeeding ---------------------------
(***************************************************************************)
(* Small instances of DemoSeeding for TLC.                                 *)
(***************************************************************************)
EXTENDS DemoSeeding

SomeSeqs == {0, 1, 2}
=============================================================================
