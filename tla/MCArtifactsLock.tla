-------------------------- MODULE MCArtifactsLock --------------------------
(* Small instances of ArtifactsLock for TLC. *)
EXTENDS ArtifactsLock, TLC

Symmetry == Permutations(Proc)
=============================================================================
