--------------------------- MODULE MCAttestation ---------------------------
(***************************************************************************)
(* Small instances of Attestation for TLC.                                 *)
(***************************************************************************)
EXTENDS Attestation, TLC

\* For instances without nested documents; nothing tells the others, or the
\* issuers, apart.
Symmetry == Permutations(Verifications) \cup Permutations(CAs) \cup Permutations(Docs)

\* A nextUpdate before and one after the lifetime of an early entry is over.
SomeNextUpdates == {1, 3}
=============================================================================
