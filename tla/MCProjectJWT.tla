---------------------------- MODULE MCProjectJWT ----------------------------
(* ProjectJWT on small instances.  Requests, ARNs and versions are only        *)
(* compared for equality, and a new ARN or version is any that is not in use. *)
EXTENDS ProjectJWT, TLC

Symmetry == Permutations(Requests) \cup Permutations(Arns) \cup Permutations(Versions)

============================================================================
