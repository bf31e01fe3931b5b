-------------------------- MODULE MCCustomDomains --------------------------
(* Small instances of CustomDomains for TLC. *)
EXTENDS CustomDomains, TLC

\* Interchangeable values.
Symmetry ==
    Permutations(Workers) \cup Permutations(Clients) \cup Permutations(TargetGroups)
=============================================================================
