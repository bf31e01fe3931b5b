------------------------------ MODULE MCProjects ------------------------------
(* Instances of Projects for TLC. *)
EXTENDS Projects

\* Memberships and origins share no state, so the operations on them are not mixed.
MCLoads == {{"add", "change", "remove"}, {"add", "remove", "summary"}, {"origins", "cors"}}

LastOwnerLoads == {{"add", "change"}}

=============================================================================
