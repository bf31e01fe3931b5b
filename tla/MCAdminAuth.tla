------------------------------ MODULE MCAdminAuth ------------------------------
(* Instances of AdminAuth for TLC. *)
EXTENDS AdminAuth, TLC

\* The values of these sets are interchangeable.
Symmetry == Permutations(Requests) \cup Permutations(Passwords)
              \cup Permutations(Tokens) \cup Permutations(RefreshTokens)

=============================================================================
