--------------------------- MODULE MCDeployments ---------------------------
(* Small instances of Deployments for TLC. *)
EXTENDS Deployments, TLC

(* Nothing tells two processes, two contracts, two instances or two hashes
   apart but what the commands do with them. *)
Symmetry == Permutations(Proc) \cup Permutations(Name)
              \cup Permutations(Id) \cup Permutations(Hash)
=============================================================================
